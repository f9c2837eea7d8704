------------------------------ MODULE Gateway ------------------------------
(***************************************************************************)
(* The WebSocket gateway of relaye (crates/relaye/src/gateway.rs) and the  *)
(* two arms of relaye's main loop that feed it and drain it                *)
(* (crates/relaye/src/main.rs).                                            *)
(*                                                                         *)
(* Threads: one tokio task per connection, which polls its read pump and   *)
(* its write pump in turn (select! on one task: the two never run at the   *)
(* same time), and the main loop, the only owner of gossipsub.  They share *)
(* the TopicRegistry (one mutex) and the sinks (a mutex and a tokio Notify *)
(* each).  A broadcast holds the registry mutex from the first sink to the *)
(* last and takes each sink's mutex in between, so it is several steps     *)
(* here; a pop takes only the sink's mutex.                                *)
(*                                                                         *)
(* A frame is <<source, n>>, the n-th frame of that source: every frame is *)
(* distinct, which is what the properties need to tell them apart.         *)
(***************************************************************************)
EXTENDS Naturals, Sequences

CONSTANTS
  Conns,     \* accepted /ws/<topic> connections; a client that comes back is another one
  Topics,    \* GATEWAY_ALLOW_LIST
  TopicOf,   \* the topic each connection's upgrade asked for
  Swarm,     \* the main loop, as the source of frames from the mesh
  None,
  Cap,       \* GATEWAY_SINK_CAPACITY
  Budget     \* bound: how many frames each source may send

Sources == Conns \cup {Swarm}
Frames == UNION {{s} \X (1..Budget[s]) : s \in Sources}

ASSUME CapAssumption == Cap \in Nat \ {0}
ASSUME TopicAssumption == TopicOf \in [Conns -> Topics]
ASSUME BudgetAssumption == Budget \in [Sources -> Nat]
ASSUME NamesAssumption == Swarm \notin Conns /\ None \notin Sources \cup Topics

VARIABLES
  registry,   \* TopicRegistry.inner: topic -> weak references, oldest first
  fan,        \* the broadcast that holds the registry mutex
  conn,       \* connection -> "new", "live" (holds the sink's Arc), "gone"
  queue,      \* BroadcastSink.queue
  permit,     \* BroadcastSink.notify holds a stored permit
  writer,     \* where the write pump stands
  owes,       \* connections that have broadcast a frame and not sent its command yet
  cmds,       \* the gateway_cmd channel
  meshTopics, \* topics gossipsub is subscribed to (RELAYE_TOPICS)
  \* history: what the environment did and what came of it
  made,       \* source -> frames it has produced (for Swarm: total_msgs_relayed)
  log,        \* topic -> frames in the order their broadcasts took the mutex
  taken,      \* connection -> frames its write pump has popped
  published,  \* frames gossipsub accepted, in order
  refused     \* frames gossipsub.publish returned an error for

sinkVars == <<queue, permit, writer>>
history == <<made, log, taken, published, refused>>
vars == <<registry, fan, conn, queue, permit, writer, owes, cmds, meshTopics,
          made, log, taken, published, refused>>

Free == [by |-> None, topic |-> None, frame |-> None, rest |-> <<>>, kept |-> <<>>]

\* The read pump of c is in the middle of a poll, so its write pump is not running.
Reading(c) == fan.by = c \/ c \in owes

Items(s) == {s[i] : i \in DOMAIN s}

\* A broadcast under way: who holds the mutex, what it carries, the sinks still
\* to visit and those it keeps.
Fans == [by: Sources \cup {None}, topic: Topics \cup {None}, frame: Frames \cup {None},
         rest: Seq(Conns), kept: Seq(Conns)]

\* GatewayCmd::Publish
Cmds == [topic: Topics, bytes: Frames]

TypeOK ==
  /\ registry \in [Topics -> Seq(Conns)]
  /\ fan \in Fans
  /\ fan = Free \/ (fan.by \in Sources /\ fan.topic \in Topics /\ fan.frame \in Frames)
  /\ conn \in [Conns -> {"new", "live", "gone"}]
  /\ queue \in [Conns -> Seq(Frames)]
  /\ \A c \in Conns : Len(queue[c]) <= Cap
  /\ permit \in [Conns -> BOOLEAN]
  /\ writer \in [Conns -> {"check", "park", "waiting", "sending"}]
  /\ owes \subseteq Conns
  /\ cmds \in Seq(Cmds)
  /\ meshTopics \subseteq Topics
  /\ made \in [Sources -> Nat]
  /\ \A s \in Sources : made[s] <= Budget[s]
  /\ log \in [Topics -> Seq(Frames)]
  /\ taken \in [Conns -> Seq(Frames)]
  /\ published \in Seq(Frames)
  /\ refused \subseteq Frames

Init ==
  /\ registry = [t \in Topics |-> <<>>]
  /\ fan = Free
  /\ conn = [c \in Conns |-> "new"]
  /\ queue = [c \in Conns |-> <<>>]
  /\ permit = [c \in Conns |-> FALSE]
  /\ writer = [c \in Conns |-> "check"]
  /\ owes = {}
  /\ cmds = <<>>
  /\ meshTopics \in SUBSET Topics
  /\ made = [s \in Sources |-> 0]
  /\ log = [t \in Topics |-> <<>>]
  /\ taken = [c \in Conns |-> <<>>]
  /\ published = <<>>
  /\ refused = {}

-----------------------------------------------------------------------------
(* A connection comes and goes *)

\* Variants marked "fault" are what a slip in the code would give; no action
\* uses them.  A fault: the registry is changed without its mutex.
SubscribeUnlocked(c) ==
  registry' = [registry EXCEPT ![TopicOf[c]] = Append(@, c)]

\* TopicRegistry::subscribe.  It waits for the registry mutex.
Subscribe(c) ==
  /\ fan = Free
  /\ registry' = [registry EXCEPT ![TopicOf[c]] = Append(@, c)]

\* accept_async succeeded: the sink is registered and both pumps start.
Accept(c) ==
  /\ conn[c] = "new"
  /\ Subscribe(c)
  /\ conn' = [conn EXCEPT ![c] = "live"]
  /\ UNCHANGED <<fan, queue, permit, writer, owes, cmds, meshTopics, history>>

\* accept_async failed: handle_client returns before it registers anything.
HandshakeFails(c) ==
  /\ conn[c] = "new"
  /\ conn' = [conn EXCEPT ![c] = "gone"]
  /\ UNCHANGED <<registry, fan, queue, permit, writer, owes, cmds, meshTopics, history>>

\* One pump has ended, select! drops the other, and the sink's last Arc goes
\* with them: what is queued is lost, the weak reference stays registered.
Collapse(c) ==
  /\ conn' = [conn EXCEPT ![c] = "gone"]
  /\ queue' = [queue EXCEPT ![c] = <<>>]
  /\ permit' = [permit EXCEPT ![c] = FALSE]
  /\ writer' = [writer EXCEPT ![c] = "check"]
  /\ UNCHANGED <<registry, fan, owes, cmds, meshTopics, history>>

\* A close frame, an error or the end of the stream on the read side.
ReadEnds(c) ==
  /\ conn[c] = "live" /\ ~Reading(c) /\ writer[c] # "park"
  /\ Collapse(c)

-----------------------------------------------------------------------------
(* Broadcast: the registry mutex is held from BroadcastFrom to FanDone *)

\* A fault: a broadcast starts over one that has not finished.
BroadcastUnlocked(s, t) ==
  /\ made[s] < Budget[s]
  /\ made' = [made EXCEPT ![s] = @ + 1]
  /\ fan' = [by |-> s, topic |-> t, frame |-> <<s, made[s] + 1>>,
             rest |-> registry[t], kept |-> <<>>]
  /\ log' = [log EXCEPT ![t] = Append(@, <<s, made[s] + 1>>)]

\* TopicRegistry::broadcast takes the mutex and looks the topic up.
BroadcastFrom(s, t) ==
  /\ fan = Free
  /\ made[s] < Budget[s]
  /\ made' = [made EXCEPT ![s] = @ + 1]
  /\ fan' = [by |-> s, topic |-> t, frame |-> <<s, made[s] + 1>>,
             rest |-> registry[t], kept |-> <<>>]
  /\ log' = [log EXCEPT ![t] = Append(@, <<s, made[s] + 1>>)]

\* A binary frame from the client: fan it out on this node first.
ReadBinary(c) ==
  /\ conn[c] = "live" /\ ~Reading(c) /\ writer[c] # "park"
  /\ BroadcastFrom(c, TopicOf[c])
  /\ UNCHANGED <<registry, conn, sinkVars, owes, cmds, meshTopics,
                 taken, published, refused>>

\* gossipsub::Event::Message in the main loop.  Only subscribed topics deliver.
MeshMessage(t) ==
  /\ t \in meshTopics
  /\ BroadcastFrom(Swarm, t)
  /\ UNCHANGED <<registry, conn, sinkVars, owes, cmds, meshTopics,
                 taken, published, refused>>

\* A fault: a notification nobody waits for is forgotten (a condition variable).
NotifyWaiters(c) ==
  /\ writer' = IF writer[c] = "waiting" THEN [writer EXCEPT ![c] = "check"] ELSE writer
  /\ UNCHANGED permit

\* tokio's Notify::notify_one: wake the registered waiter, or store one permit.
NotifyOne(c) ==
  IF writer[c] = "waiting"
    THEN writer' = [writer EXCEPT ![c] = "check"] /\ UNCHANGED permit
    ELSE permit' = [permit EXCEPT ![c] = TRUE] /\ UNCHANGED writer

\* Faults: the cap is off by one; a full queue turns the new frame away.
PushedLate(q, f) == Append(IF Len(q) > Cap THEN Tail(q) ELSE q, f)
PushedKeepOld(q, f) == IF Len(q) >= Cap THEN q ELSE Append(q, f)

\* BroadcastSink::push: drop the oldest frame when full, append, notify.
Pushed(q, f) == Append(IF Len(q) >= Cap THEN Tail(q) ELSE q, f)

Push(c, f) ==
  /\ queue' = [queue EXCEPT ![c] = Pushed(@, f)]
  /\ NotifyOne(c)

\* retain: a sink that upgrades gets the frame and stays ...
FanLive ==
  /\ fan.rest # <<>>
  /\ conn[Head(fan.rest)] = "live"
  /\ Push(Head(fan.rest), fan.frame)
  /\ fan' = [fan EXCEPT !.rest = Tail(@), !.kept = Append(@, Head(fan.rest))]
  /\ UNCHANGED <<registry, conn, owes, cmds, meshTopics, history>>

\* ... one that does not is dropped from the list.
FanDead ==
  /\ fan.rest # <<>>
  /\ conn[Head(fan.rest)] # "live"
  /\ fan' = [fan EXCEPT !.rest = Tail(@)]
  /\ UNCHANGED <<registry, conn, sinkVars, owes, cmds, meshTopics, history>>

\* A fault: a frame somebody else on this node heard is not sent to the mesh.
FanDoneLocal ==
  /\ fan # Free
  /\ fan.rest = <<>>
  /\ registry' = [registry EXCEPT ![fan.topic] = fan.kept]
  /\ owes' = IF fan.by \in Conns /\ Len(fan.kept) <= 1 THEN owes \cup {fan.by} ELSE owes
  /\ fan' = Free
  /\ UNCHANGED <<conn, sinkVars, cmds, meshTopics, history>>

\* The pruned list replaces the old one and the mutex is released.
FanDone ==
  /\ fan # Free
  /\ fan.rest = <<>>
  /\ registry' = [registry EXCEPT ![fan.topic] = fan.kept]
  /\ owes' = IF fan.by \in Conns THEN owes \cup {fan.by} ELSE owes
  /\ fan' = Free
  /\ UNCHANGED <<conn, sinkVars, cmds, meshTopics, history>>

\* A fault: the command jumps the channel.
SendCmdFirst(c) ==
  /\ c \in owes
  /\ cmds' = <<[topic |-> TopicOf[c], bytes |-> <<c, made[c]>>]>> \o cmds
  /\ owes' = owes \ {c}
  /\ UNCHANGED <<registry, fan, conn, sinkVars, meshTopics, history>>

\* The rest of the read pump's turn: hand the frame to the main loop.  There
\* is no await since the broadcast, so the connection cannot go away before.
SendCmd(c) ==
  /\ c \in owes
  /\ cmds' = Append(cmds, [topic |-> TopicOf[c], bytes |-> <<c, made[c]>>])
  /\ owes' = owes \ {c}
  /\ UNCHANGED <<registry, fan, conn, sinkVars, meshTopics, history>>

\* The main loop's command arm.  A publish that fails is only logged.
SwarmPublish ==
  /\ fan.by # Swarm
  /\ cmds # <<>>
  /\ cmds' = Tail(cmds)
  /\ \/ /\ published' = Append(published, Head(cmds).bytes)
        /\ UNCHANGED refused
     \/ /\ refused' = refused \cup {Head(cmds).bytes}
        /\ UNCHANGED published
  /\ UNCHANGED <<registry, fan, conn, sinkVars, owes, meshTopics, made, log, taken>>

-----------------------------------------------------------------------------
(* The write pump: BroadcastSink::next, then the socket *)

Writing(c) == conn[c] = "live" /\ ~Reading(c)

\* Under the sink's mutex: there is a frame, take it and start the send.
Pop(c) ==
  /\ Writing(c) /\ writer[c] = "check" /\ queue[c] # <<>>
  /\ queue' = [queue EXCEPT ![c] = Tail(@)]
  /\ taken' = [taken EXCEPT ![c] = Append(@, Head(queue[c]))]
  /\ writer' = [writer EXCEPT ![c] = "sending"]
  /\ UNCHANGED <<registry, fan, conn, permit, owes, cmds, meshTopics,
                 made, log, published, refused>>

\* Under the sink's mutex: nothing there.  The mutex is released before the
\* wait is registered.
FindEmpty(c) ==
  /\ Writing(c) /\ writer[c] = "check" /\ queue[c] = <<>>
  /\ writer' = [writer EXCEPT ![c] = "park"]
  /\ UNCHANGED <<registry, fan, conn, queue, permit, owes, cmds, meshTopics, history>>

\* notified().await: a stored permit is used up at once, otherwise wait.
Park(c) ==
  /\ Writing(c) /\ writer[c] = "park"
  /\ writer' = [writer EXCEPT ![c] = IF permit[c] THEN "check" ELSE "waiting"]
  /\ permit' = [permit EXCEPT ![c] = FALSE]
  /\ UNCHANGED <<registry, fan, conn, queue, owes, cmds, meshTopics, history>>

Sent(c) ==
  /\ Writing(c) /\ writer[c] = "sending"
  /\ writer' = [writer EXCEPT ![c] = "check"]
  /\ UNCHANGED <<registry, fan, conn, queue, permit, owes, cmds, meshTopics, history>>

SendFails(c) ==
  /\ Writing(c) /\ writer[c] = "sending"
  /\ Collapse(c)

-----------------------------------------------------------------------------
Next ==
  \/ \E c \in Conns :
       \/ Accept(c) \/ HandshakeFails(c) \/ ReadEnds(c)
       \/ ReadBinary(c) \/ SendCmd(c)
       \/ Pop(c) \/ FindEmpty(c) \/ Park(c) \/ Sent(c) \/ SendFails(c)
  \/ \E t \in Topics : MeshMessage(t)
  \/ FanLive \/ FanDead \/ FanDone
  \/ SwarmPublish

\* tokio runs every runnable task: a broadcast under way ends, a read pump
\* finishes its turn, a woken write pump runs, and the main loop's select!
\* comes to the command arm.  Nothing is assumed of the clients: a socket may
\* block for ever (no fairness on Sent), a mesh may stay silent.
Fairness ==
  /\ WF_vars(FanLive) /\ WF_vars(FanDead) /\ WF_vars(FanDone)
  /\ WF_vars(SwarmPublish)
  /\ \A c \in Conns : WF_vars(SendCmd(c)) /\ WF_vars(Pop(c) \/ FindEmpty(c) \/ Park(c))

Spec == Init /\ [][Next]_vars
FairSpec == Spec /\ Fairness

-----------------------------------------------------------------------------
(* Safety *)

\* A write pump never sleeps on a queue that holds a frame, and one that is
\* about to sleep on such a queue finds a permit that turns it round.  This is
\* the window in BroadcastSink::next between the unlock and notified().
NoLostWakeup ==
  \A c \in Conns :
    conn[c] = "live" /\ queue[c] # <<>> =>
      /\ writer[c] # "waiting"
      /\ writer[c] = "park" => permit[c]

\* Where c stands in its topic: the last frame its sink has been offered.
Reached(c) ==
  Len(log[TopicOf[c]]) - (IF c \in Items(fan.rest) THEN 1 ELSE 0)

\* A live sink holds exactly the newest frames of its topic, contiguous and in
\* broadcast order: drop-oldest loses the front of the queue and nothing else,
\* and no broadcast skips a live sink.  (BroadcastSink::push, "the freshest is
\* always what a slow reader should get".)
QueueIsNewest ==
  \A c \in Conns :
    conn[c] = "live" =>
      /\ Len(queue[c]) <= Reached(c)
      /\ \A i \in 1..Len(queue[c]) :
           queue[c][i] = log[TopicOf[c]][Reached(c) - Len(queue[c]) + i]

Once(c, s) == \E i \in DOMAIN s : s[i] = c /\ \A j \in DOMAIN s : s[j] = c => j = i

\* The lists a topic's weak references are in: while a broadcast rebuilds the
\* list, the part already kept and the part still to visit.
Listed(t) == IF fan.topic = t THEN fan.kept \o fan.rest ELSE registry[t]

\* Pruning dead references in place never loses or doubles a live one: a live
\* connection is registered exactly once, under its own topic.
LiveRegisteredOnce ==
  \A c \in Conns :
    conn[c] = "live" =>
      /\ Once(c, Listed(TopicOf[c]))
      /\ \A t \in Topics \ {TopicOf[c]} : c \notin Items(Listed(t))

\* What one client sends is published to the mesh in the order it was sent,
\* whatever other clients and the main loop do in between.
ClientOrderKept ==
  \A i, j \in DOMAIN published :
    i < j /\ published[i][1] = published[j][1] => published[i][2] < published[j][2]

(* The gateway is a TopicFeed: the window of a live connection is what its    *)
(* sink holds, and the frames its write pump popped are those it took.        *)
FeedHi == [c \in Conns |-> IF conn[c] = "live" THEN Reached(c) ELSE 0]
FeedLo == [c \in Conns |-> FeedHi[c] - Len(queue[c])]

Feed == INSTANCE TopicFeed WITH
  Readers <- Conns, member <- {c \in Conns : conn[c] = "live"},
  lo <- FeedLo, hi <- FeedHi, got <- taken

\* Every behaviour of registry, sinks and pumps is one of the feed: clients of
\* one process get a topic's frames in one common order, at most once each,
\* and lose one only behind Cap newer ones.
ImplementsFeed == Feed!Spec

-----------------------------------------------------------------------------
(* Liveness *)

\* A queued frame is picked up: the write pump leaves the queue alone for ever
\* only if its connection is gone (or its socket blocks: then it is sending).
QueueServed ==
  \A c \in Conns :
    conn[c] = "live" /\ queue[c] # <<>> ~> writer[c] = "sending" \/ conn[c] = "gone"

\* A frame that was fanned out locally is also offered to gossipsub, even when
\* its sender disconnects right after: local and remote clients differ only by
\* what gossipsub itself refuses.
OfferedToMesh ==
  \A c \in Conns : \A n \in 1..Budget[c] :
    made[c] >= n ~> <<c, n>> \in Items(published) \cup refused
=============================================================================
