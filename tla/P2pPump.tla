------------------------------ MODULE P2pPump ------------------------------
(***************************************************************************)
(* The message pump of laye-p2p in the browser: publish and its outbox,    *)
(* the command channel and event buffer of laye-net, the swarm that serves *)
(* them, and drain_net_events, which the host drives by polling            *)
(* (crates/laye-p2p/src/wasm.rs, crates/net/src/{lib,swarm}.rs).           *)
(*                                                                         *)
(* Everything runs on one JavaScript thread: a host call, a DOM callback   *)
(* and a poll of the swarm's drive task never overlap.  drain_net_events   *)
(* is written as several steps, one per event and one per flushed topic,   *)
(* and every other action waits until it has returned (call = None).       *)
(*                                                                         *)
(* The n-th frame this tab sends on a topic is n, and the n-th frame that  *)
(* arrives on it is n.                                                     *)
(***************************************************************************)
EXTENDS Integers, Sequences, FiniteSets, Functions

CONSTANTS
  HostTopics,    \* topics the embedding host publishes on and polls
  ConfigTopics,  \* those it names to init
  Chat,          \* CHAT_TOPIC (LEGACY_CHAT_TOPIC is received alike)
  Identity,      \* IDENTITY_TOPIC
  Peers,         \* the peers at the bootstrap addresses (max_pending_outgoing allows two)
  Remotes,       \* who signs the messages that arrive
  Self,          \* this tab's key, which another tab may share
  None, Poll,
  Cap,           \* PENDING_SENDS_CAP
  HistoryCap,    \* chat::HISTORY_CAP
  MaxSent,       \* bound: frames sent on each topic
  MaxArrived,    \* bound: frames arriving on each topic
  MaxChanges     \* bound: subscription changes the peers announce on each topic

Topics == HostTopics \cup {Chat, Identity}

ASSUME CapAssumption == Cap \in Nat \ {0} /\ HistoryCap \in Nat \ {0}
ASSUME BoundsAssumption ==
  /\ MaxSent \in [Topics -> Nat] /\ MaxArrived \in [Topics -> Nat] 
  /\ MaxChanges \in [Topics -> Nat]
ASSUME NamesAssumption ==
  /\ ConfigTopics \subseteq HostTopics
  /\ Chat # Identity /\ {Chat, Identity} \cap HostTopics = {}
  /\ None \notin Topics \cup Peers \cup Remotes /\ Poll \notin Topics \cup {None}
  /\ Self \notin Remotes \cup {None}

VARIABLES
  \* the tab
  net,        \* STATE.net is Some
  call,       \* the polling host call under way: None, Poll (pending_bytes) or a topic (recv_bytes)
  batch,      \* the events it took from laye-net and has not looked at
  toFlush,    \* topics_to_flush
  topicPeers, \* topic_peers
  pending,    \* pending_sends
  rx,         \* RxState.queues
  chat,       \* ChatState.history
  bindings,   \* BindingTable: whose identity message counts, None when there is none
  \* laye-net and gossipsub
  cmds,       \* the command channel
  events,     \* Net.events
  dialing,    \* bootstrap dials that have neither connected nor failed
  up,         \* connected peers
  subs,       \* topic -> connected peers gossipsub knows to be subscribed
  mine,       \* topics gossipsub is subscribed to
  changes,    \* topic -> subscription changes announced so far
  \* history
  sent,       \* topic -> frames the tab has sent
  published,  \* topic -> frames gossipsub accepted, in order
  failed,     \* topic -> frames gossipsub refused
  reported,   \* topic -> frames whose PublishFailed reached the error pipeline
  arrived,    \* topic -> frames that arrived
  handed      \* topic -> frames the last host call returned

tab == <<topicPeers, pending, rx, chat, bindings>>
link == <<dialing, up, subs, mine, changes>>
outHistory == <<sent, published, failed>>
inHistory == <<arrived, handed>>
vars == <<net, call, batch, toFlush, topicPeers, pending, rx, chat, bindings,
          cmds, events, dialing, up, subs, mine, changes,
          sent, published, failed, reported, arrived, handed>>

\* NetEvent, as far as the pump is concerned.  PeerUp is ignored by
\* drain_net_events; of the errors only a refused publish is about a frame,
\* the others (a failed dial or subscribe) go by without changing its state.
Event(k, t, p, n) == [kind |-> k, topic |-> t, peer |-> p, frame |-> n]
Events == [kind: {"joined", "left", "down", "message", "error"},
           topic: Topics \cup {None},
           peer: Peers \cup Remotes \cup {Self, None},
           frame: Nat]

\* The commands laye-p2p sends.
Publish(t, n) == [cmd |-> "publish", topic |-> t, frame |-> n]
Subscribe(t) == [cmd |-> "subscribe", topic |-> t, frame |-> 0]
Cmds == [cmd: {"publish", "subscribe"}, topic: Topics, frame: Nat]

ChatEntries == [who: Nat \cup {None, Self}, frame: Nat]

TypeOK ==
  /\ net \in BOOLEAN
  /\ call \in HostTopics \cup {None, Poll}
  /\ batch \in Seq(Events)
  /\ toFlush \subseteq Topics
  /\ topicPeers \in [Topics -> SUBSET Peers]
  /\ pending \in [Topics -> Seq(Nat)]
  /\ \A t \in Topics : Len(pending[t]) <= Cap
  /\ rx \in [Topics -> Seq(Nat)]
  /\ chat \in Seq(ChatEntries)
  /\ Len(chat) <= HistoryCap
  /\ bindings \in [Remotes -> Nat \cup {None}]
  /\ cmds \in Seq(Cmds)
  /\ events \in Seq(Events)
  /\ dialing \subseteq Peers
  /\ up \subseteq Peers
  /\ subs \in [Topics -> SUBSET Peers]
  /\ mine \subseteq Topics
  /\ changes \in [Topics -> Nat]
  /\ sent \in [Topics -> Nat]
  /\ published \in [Topics -> Seq(Nat)]
  /\ failed \in [Topics -> SUBSET Nat]
  /\ reported \in [Topics -> SUBSET Nat]
  /\ arrived \in [Topics -> Nat]
  /\ handed \in [Topics -> Seq(Nat)]

Init ==
  /\ net = FALSE
  /\ call = None
  /\ batch = <<>>
  /\ toFlush = {}
  /\ topicPeers = [t \in Topics |-> {}]
  /\ pending = [t \in Topics |-> <<>>]
  /\ rx = [t \in Topics |-> <<>>]
  /\ chat = <<>>
  /\ bindings = [r \in Remotes |-> None]
  /\ cmds = <<>>
  /\ events = <<>>
  /\ dialing = {}
  /\ up = {}
  /\ subs = [t \in Topics |-> {}]
  /\ mine = {}
  /\ changes = [t \in Topics |-> 0]
  /\ sent = [t \in Topics |-> 0]
  /\ published = [t \in Topics |-> <<>>]
  /\ failed = [t \in Topics |-> {}]
  /\ reported = [t \in Topics |-> {}]
  /\ arrived = [t \in Topics |-> 0]
  /\ handed = [t \in Topics |-> <<>>]

-----------------------------------------------------------------------------
(* Sending *)

\* Variants marked "fault" are what a slip in the code would give; no action
\* uses them.  A fault: a full outbox turns the new frame away.
EnqueuedKeepOld(q, n) == IF Len(q) >= Cap THEN q ELSE Append(q, n)

\* enqueue_send: FIFO, the oldest frame drops on overflow.
Enqueued(q, n) == Append(IF Len(q) >= Cap THEN Tail(q) ELSE q, n)

\* A frame goes to the swarm when the topic is believed to have a mesh, and
\* waits in the outbox otherwise.
Send(t) ==
  /\ sent[t] < MaxSent[t]
  /\ sent' = [sent EXCEPT ![t] = @ + 1]
  /\ IF topicPeers[t] = {}
       THEN /\ pending' = [pending EXCEPT ![t] = Enqueued(@, sent[t] + 1)]
            /\ UNCHANGED cmds
       ELSE /\ cmds' = Append(cmds, Publish(t, sent[t] + 1))
            /\ UNCHANGED pending

\* publish, from the host.  Before init it only queues.
PublishOpaque(t) ==
  /\ call = None
  /\ Send(t)
  /\ UNCHANGED <<net, call, batch, toFlush, topicPeers, rx, chat, bindings, events,
                 link, published, failed, reported, inHistory>>

\* A fault: the history is trimmed only once it is beyond its cap.
RememberedLate(h, e) == IF Len(h) > HistoryCap THEN Append(Tail(h), e) ELSE Append(h, e)

\* ChatState::push
Remembered(h, e) == IF Len(h) >= HistoryCap THEN Append(Tail(h), e) ELSE Append(h, e)

\* publish_chat: the tab shows its own line whether or not it left the tab.
PublishChat ==
  /\ call = None /\ net
  /\ Send(Chat)
  /\ chat' = Remembered(chat, [who |-> Self, frame |-> sent[Chat] + 1])
  /\ UNCHANGED <<net, call, batch, toFlush, topicPeers, rx, bindings, events,
                 link, published, failed, reported, inHistory>>

\* republish_self_bindings, after a login.
RepublishBindings ==
  /\ call = None /\ net
  /\ Send(Identity)
  /\ UNCHANGED <<net, call, batch, toFlush, topicPeers, rx, chat, bindings, events,
                 link, published, failed, reported, inHistory>>

-----------------------------------------------------------------------------
(* Starting *)

\* The end of init_inner: the swarm is built for the given topics, the drive
\* task subscribes and dials, and bindings kept from earlier are republished:
\* queued, since no event has been drained yet.
InitNet ==
  /\ call = None /\ ~net
  /\ net' = TRUE
  /\ mine' = ConfigTopics \cup {Chat, Identity}
  /\ dialing' = Peers
  /\ \/ UNCHANGED <<sent, pending>>
     \/ /\ sent[Identity] < MaxSent[Identity]
        /\ sent' = [sent EXCEPT ![Identity] = @ + 1]
        /\ pending' = [pending EXCEPT ![Identity] = Enqueued(@, sent[Identity] + 1)]
  /\ UNCHANGED <<call, batch, toFlush, topicPeers, rx, chat, bindings, cmds, events,
                 up, subs, changes, published, failed, reported, inHistory>>

\* subscribe_opaque once the net is there (before, it only reports an error).
SubscribeOpaque(t) ==
  /\ call = None /\ net
  /\ t \notin mine /\ Subscribe(t) \notin Range(cmds)
  /\ cmds' = Append(cmds, Subscribe(t))
  /\ UNCHANGED <<net, call, batch, toFlush, tab, events, link, outHistory, reported, inHistory>>

-----------------------------------------------------------------------------
(* The drive task: select_biased! serves a command before any swarm event *)

\* gossipsub.publish: no subscribed peer is an error, other errors may occur.
SwarmPublish ==
  /\ call = None /\ cmds # <<>> /\ Head(cmds).cmd = "publish"
  /\ cmds' = Tail(cmds)
  /\ LET t == Head(cmds).topic
         n == Head(cmds).frame
     IN \/ /\ subs[t] # {}
           /\ published' = [published EXCEPT ![t] = Append(@, n)]
           /\ UNCHANGED <<failed, events>>
        \/ /\ failed' = [failed EXCEPT ![t] = @ \cup {n}]
           /\ events' = Append(events, Event("error", t, None, n))
           /\ UNCHANGED published
  /\ UNCHANGED <<net, call, batch, toFlush, tab, link, sent, reported, inHistory>>

SwarmSubscribe ==
  /\ call = None /\ cmds # <<>> /\ Head(cmds).cmd = "subscribe"
  /\ cmds' = Tail(cmds)
  /\ mine' \in {mine, mine \cup {Head(cmds).topic}}   \* subscribe may fail
  /\ UNCHANGED <<net, call, batch, toFlush, tab, events, dialing, up, subs, changes,
                 outHistory, reported, inHistory>>

SwarmEvent(e) ==
  /\ call = None /\ net /\ cmds = <<>>
  /\ events' = Append(events, e)
  /\ UNCHANGED <<net, call, batch, toFlush, tab, cmds, mine, outHistory, reported, handed>>

\* ConnectionEstablished: one outgoing connection at most.  PeerUp says nothing
\* to drain_net_events, so no event is kept for it.
Connect(p) ==
  /\ call = None /\ net /\ cmds = <<>>
  /\ p \in dialing /\ up = {}
  /\ up' = {p}
  /\ dialing' = dialing \ {p}
  /\ UNCHANGED <<net, call, batch, toFlush, tab, cmds, events, subs, mine, changes,
                 outHistory, reported, inHistory>>

\* OutgoingConnectionError, the limit on established connections included.
\* The address is not dialled again.
DialFails(p) ==
  /\ call = None /\ net /\ cmds = <<>>
  /\ p \in dialing
  /\ dialing' = dialing \ {p}
  /\ UNCHANGED <<net, call, batch, toFlush, tab, cmds, events, up, subs, mine, changes,
                 outHistory, reported, inHistory>>

\* ConnectionClosed: gossipsub forgets what the peer was subscribed to.
Disconnect(p) ==
  /\ p \in up
  /\ up' = up \ {p}
  /\ subs' = [t \in Topics |-> subs[t] \ {p}]
  /\ SwarmEvent(Event("down", None, p, 0))
  /\ UNCHANGED <<dialing, changes, arrived>>

\* gossipsub Subscribed and Unsubscribed.
PeerJoins(p, t) ==
  /\ changes[t] < MaxChanges[t]
  /\ p \in up /\ p \notin subs[t]
  /\ subs' = [subs EXCEPT ![t] = @ \cup {p}]
  /\ changes' = [changes EXCEPT ![t] = @ + 1]
  /\ SwarmEvent(Event("joined", t, p, 0))
  /\ UNCHANGED <<dialing, up, arrived>>

PeerLeaves(p, t) ==
  /\ changes[t] < MaxChanges[t]
  /\ p \in subs[t]
  /\ subs' = [subs EXCEPT ![t] = @ \ {p}]
  /\ changes' = [changes EXCEPT ![t] = @ + 1]
  /\ SwarmEvent(Event("left", t, p, 0))
  /\ UNCHANGED <<dialing, up, arrived>>

\* gossipsub Message.  gossipsub itself drops what this key published, but a
\* chat line carries its own author and may come round through a gateway.
MessageArrives(t, r) ==
  /\ arrived[t] < MaxArrived[t]
  /\ t \in mine /\ up # {}
  /\ r = Self => t = Chat
  /\ arrived' = [arrived EXCEPT ![t] = @ + 1]
  /\ SwarmEvent(Event("message", t, r, arrived[t] + 1))
  /\ UNCHANGED <<dialing, up, subs, changes>>

-----------------------------------------------------------------------------
(* Draining: pending_bytes and recv_bytes both start with drain_net_events *)

\* A fault: the buffer is copied, not taken.
StartDrainCopying(c) ==
  /\ call = None /\ net
  /\ call' = c
  /\ batch' = events
  /\ handed' = [t \in Topics |-> <<>>]
  /\ UNCHANGED <<net, toFlush, tab, cmds, events, link, outHistory, reported, arrived>>

\* Net::poll_events takes the whole buffer.  The host has done with what an
\* earlier call returned.
StartDrain(c) ==
  /\ call = None /\ net
  /\ call' = c
  /\ batch' = events
  /\ events' = <<>>
  /\ handed' = [t \in Topics |-> <<>>]
  /\ UNCHANGED <<net, toFlush, tab, cmds, link, outHistory, reported, arrived>>

NextEvent(k) ==
  /\ call # None /\ batch # <<>> /\ Head(batch).kind = k
  /\ batch' = Tail(batch)
  /\ UNCHANGED <<net, call, pending, cmds, events, link, outHistory, inHistory>>

\* A fault: whether the topic was empty is asked after the insert.
DrainJoinedLate ==
  /\ NextEvent("joined")
  /\ topicPeers' = [topicPeers EXCEPT ![Head(batch).topic] = @ \cup {Head(batch).peer}]
  /\ toFlush' = IF topicPeers'[Head(batch).topic] = {}
                THEN toFlush \cup {Head(batch).topic} ELSE toFlush
  /\ UNCHANGED <<rx, chat, bindings, reported>>

\* The first peer of a topic marks it for flushing.
DrainJoined ==
  /\ NextEvent("joined")
  /\ LET t == Head(batch).topic
     IN /\ topicPeers' = [topicPeers EXCEPT ![t] = @ \cup {Head(batch).peer}]
        /\ toFlush' = IF topicPeers[t] = {} THEN toFlush \cup {t} ELSE toFlush
  /\ UNCHANGED <<rx, chat, bindings, reported>>

DrainLeft ==
  /\ NextEvent("left")
  /\ topicPeers' = [topicPeers EXCEPT ![Head(batch).topic] = @ \ {Head(batch).peer}]
  /\ UNCHANGED <<toFlush, rx, chat, bindings, reported>>

\* A fault: PeerDown falls through like PeerUp, only Unsubscribed counts.
DrainPeerDownIgnored ==
  /\ NextEvent("down")
  /\ UNCHANGED <<toFlush, topicPeers, rx, chat, bindings, reported>>

DrainPeerDown ==
  /\ NextEvent("down")
  /\ topicPeers' = [t \in Topics |-> topicPeers[t] \ {Head(batch).peer}]
  /\ UNCHANGED <<toFlush, rx, chat, bindings, reported>>

\* chat::ingest and attribute_author: the names under which a message may be
\* shown. This key's own, which may come from another tab, is an echo; one on
\* LEGACY_CHAT_TOPIC bears the name the peer id gives (None).
Authors(e) == IF e.peer = Self THEN {} ELSE {bindings[e.peer], None}

\* A message that does not verify is dropped.
DrainChat ==
  /\ NextEvent("message")
  /\ Head(batch).topic = Chat
  /\ \/ UNCHANGED chat
     \/ \E w \in Authors(Head(batch)) :
          chat' = Remembered(chat, [who |-> w, frame |-> Head(batch).frame])
  /\ UNCHANGED <<toFlush, topicPeers, rx, bindings, reported>>

\* identity::parse_and_verify and absorb: the message replaces what its signer
\* had, a message in which nothing verifies removes it.
Absorbed(e) == {None, e.frame}

DrainIdentity ==
  /\ NextEvent("message")
  /\ Head(batch).topic = Identity
  /\ \E b \in Absorbed(Head(batch)) :
       bindings' = [bindings EXCEPT ![Head(batch).peer] = b]
  /\ UNCHANGED <<toFlush, topicPeers, rx, chat, reported>>

\* RxState::ingest
DrainOpaque ==
  /\ NextEvent("message")
  /\ Head(batch).topic \in HostTopics
  /\ rx' = [rx EXCEPT ![Head(batch).topic] = Append(@, Head(batch).frame)]
  /\ UNCHANGED <<toFlush, topicPeers, chat, bindings, reported>>

\* A fault: the error is consumed and never emitted.
DrainErrorSwallowed ==
  /\ NextEvent("error")
  /\ UNCHANGED <<toFlush, topicPeers, rx, chat, bindings, reported>>

DrainError ==
  /\ NextEvent("error")
  /\ reported' = [reported EXCEPT ![Head(batch).topic] = @ \cup {Head(batch).frame}]
  /\ UNCHANGED <<toFlush, topicPeers, rx, chat, bindings>>

\* A fault: the queue is emptied from its back.
FlushNewestFirst(t) ==
  /\ call # None /\ batch = <<>> /\ t \in toFlush
  /\ toFlush' = toFlush \ {t}
  /\ cmds' = cmds \o [i \in DOMAIN pending[t] |->
                       Publish(t, pending[t][Len(pending[t]) + 1 - i])]
  /\ pending' = [pending EXCEPT ![t] = <<>>]
  /\ UNCHANGED <<net, call, batch, topicPeers, rx, chat, bindings, events, link,
                 outHistory, reported, inHistory>>

\* A fault: flushing one topic takes the whole table of queues.
FlushTakesAll(t) ==
  /\ call # None /\ batch = <<>> /\ t \in toFlush
  /\ toFlush' = toFlush \ {t}
  /\ cmds' = cmds \o [i \in DOMAIN pending[t] |-> Publish(t, pending[t][i])]
  /\ pending' = [x \in Topics |-> <<>>]
  /\ UNCHANGED <<net, call, batch, topicPeers, rx, chat, bindings, events, link,
                 outHistory, reported, inHistory>>

\* flush_pending_for, in any order of the topics, whatever they are by now.
FlushTopic(t) ==
  /\ call # None /\ batch = <<>> /\ t \in toFlush
  /\ toFlush' = toFlush \ {t}
  /\ cmds' = cmds \o [i \in DOMAIN pending[t] |-> Publish(t, pending[t][i])]
  /\ pending' = [pending EXCEPT ![t] = <<>>]
  /\ UNCHANGED <<net, call, batch, topicPeers, rx, chat, bindings, events, link,
                 outHistory, reported, inHistory>>

\* The host call returns; recv_bytes takes every queued frame of its topic.
ReturnPending ==
  /\ call = Poll /\ batch = <<>> /\ toFlush = {}
  /\ call' = None
  /\ UNCHANGED <<net, batch, toFlush, tab, cmds, events, link, outHistory, reported, inHistory>>

ReturnFrames ==
  /\ call \in HostTopics /\ batch = <<>> /\ toFlush = {}
  /\ call' = None
  /\ rx' = [rx EXCEPT ![call] = <<>>]
  /\ handed' = [handed EXCEPT ![call] = rx[call]]
  /\ UNCHANGED <<net, batch, toFlush, topicPeers, pending, chat, bindings, cmds, events,
                 link, outHistory, reported, arrived>>

-----------------------------------------------------------------------------
Swarming ==
  \/ SwarmPublish \/ SwarmSubscribe
  \/ \E p \in Peers : Connect(p) \/ DialFails(p) \/ Disconnect(p)
  \/ \E p \in Peers, t \in Topics : PeerJoins(p, t) \/ PeerLeaves(p, t)
  \/ \E t \in Topics, r \in Remotes \cup {Self} : MessageArrives(t, r)

Draining ==
  \/ DrainJoined \/ DrainLeft \/ DrainPeerDown \/ DrainChat \/ DrainIdentity
  \/ DrainOpaque \/ DrainError
  \/ \E t \in Topics : FlushTopic(t)
  \/ ReturnPending \/ ReturnFrames

Next ==
  \/ \E t \in HostTopics : PublishOpaque(t) \/ SubscribeOpaque(t)
  \/ PublishChat \/ RepublishBindings
  \/ InitNet
  \/ \E c \in HostTopics \cup {Poll} : StartDrain(c)
  \/ Swarming
  \/ Draining

\* The browser runs the drive task when a command waits, and a call that has
\* started returns.  The host polls: bevy-starter drains in its update loop.
Fairness ==
  /\ WF_vars(SwarmPublish \/ SwarmSubscribe)
  /\ WF_vars(Draining)
  /\ WF_vars(\E c \in HostTopics \cup {Poll} : StartDrain(c))

Spec == Init /\ [][Next]_vars
FairSpec == Spec /\ Fairness

-----------------------------------------------------------------------------
(* Safety *)

\* Between two host calls the outbox of a topic believed to have a mesh is
\* empty, so a frame sent straight to the swarm never overtakes a queued one.
MeshedMeansFlushed ==
  /\ call = None => toFlush = {}
  /\ \A t \in Topics : topicPeers[t] # {} /\ t \notin toFlush => pending[t] = <<>>

\* The outbox holds exactly the newest frames sent on its topic: overflow takes
\* the oldest and nothing else leaves a gap.
OutboxIsNewest ==
  \A t \in Topics :
    /\ Len(pending[t]) <= sent[t] /\ Len(pending[t]) <= Cap
    /\ \A i \in DOMAIN pending[t] : pending[t][i] = sent[t] - Len(pending[t]) + i

\* The outbox loses only its oldest frames to overflow, and holds nothing back
\* once its topic has a mesh.
OutboxSound == MeshedMeansFlushed /\ OutboxIsNewest

\* What gossipsub gets on a topic it gets in the order the tab sent it, through
\* any number of joins, losses of the mesh and flushes.
SentOrderKept ==
  \A t \in Topics : \A i, j \in DOMAIN published[t] :
    i < j => published[t][i] < published[t][j]

InCmds(t, n) == \E i \in DOMAIN cmds : cmds[i] = Publish(t, n)

\* The refusal has reached the error pipeline or its event is still to be
\* drained.
Reported(t, n) ==
  \/ n \in reported[t]
  \/ Event("error", t, None, n) \in Range(batch) \cup Range(events)

\* A frame is published, on its way, refused with an error that is not
\* swallowed, or was pushed out of the outbox by Cap newer frames of its topic:
\* nothing else loses a frame.
LostOnlyByOverflow ==
  \A t \in Topics : \A n \in 1..sent[t] :
    \/ n \in Range(published[t]) \cup Range(pending[t])
    \/ InCmds(t, n)
    \/ n \in failed[t] /\ Reported(t, n)
    \/ n + Cap <= sent[t] /\ n \notin failed[t]

\* Once every event is drained the tab's view of the mesh is gossipsub's: no
\* peer lingers in topic_peers after it left or its connection closed.
ViewCatchesUp ==
  call = None /\ events = <<>> => topicPeers = subs

\* Where the messages on t are among the events s.
PlacesOf(t, s) == {i \in DOMAIN s : s[i].kind = "message" /\ s[i].topic = t}

Rank(S, i) == Cardinality({j \in S : j <= i})

\* The k-th frame is that of the k-th of them.
MessagesOn(t, s) ==
  [k \in 1..Cardinality(PlacesOf(t, s)) |->
     s[CHOOSE i \in PlacesOf(t, s) : Rank(PlacesOf(t, s), i) = k].frame]

\* What has arrived on a topic and recv_bytes has not returned.
WaitingOn(t) == rx[t] \o MessagesOn(t, batch \o events)

Channel(t) ==
  INSTANCE FrameChannel WITH
    Frames <- 1..MaxArrived[t], waiting <- WaitingOn(t), handed <- handed[t]

\* A host topic is a FrameChannel: its frames reach the host completely, once
\* each and in order of arrival, through any number of drains that other
\* topics' calls cause; nothing between the wire and recv_bytes drops or
\* reorders them.
\* (The conjunction of Channel(t)!Spec over the topics, in the form TLC takes.)
ImplementsChannel ==
  /\ \A t \in HostTopics : Channel(t)!Init
  /\ [][\A t \in HostTopics :
          Channel(t)!Next \/ UNCHANGED <<WaitingOn(t), handed[t]>>]_vars

-----------------------------------------------------------------------------
(* Liveness *)

\* While a peer stays subscribed to a topic and the host keeps polling, the
\* frames waiting for that topic leave the outbox.
OutboxFlushed ==
  \A t \in Topics :
    subs[t] # {} /\ pending[t] # <<>> ~> subs[t] = {} \/ pending[t] = <<>>

-----------------------------------------------------------------------------
(* What a comment in wasm.rs says and the code does not do *)

\* AppState.pending_sends: "Bytes queued to publish once a topic's mesh forms":
\* queued bytes stay queued while the topic has no peer.
QueuedUntilMeshed ==
  [][\A t \in Topics :
       pending[t] # <<>> /\ pending'[t] = <<>> => topicPeers[t] # {}]_vars
=============================================================================
