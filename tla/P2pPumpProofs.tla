--------------------------- MODULE P2pPumpProofs ---------------------------
(* Proofs about the module P2pPump, for any sets of topics and peers, any     *)
(* caps and any amount of traffic.                                            *)
EXTENDS P2pPump, FiniteSetTheorems, TLAPS

\* The events the drive task makes name a topic and a peer where their kind has
\* one.
Shaped == {e \in Events :
             /\ e.kind \in {"joined", "left"} => e.topic \in Topics /\ e.peer \in Peers
             /\ e.kind = "down" => e.peer \in Peers
             /\ e.kind = "message" => e.topic \in Topics /\ e.peer \in Remotes \cup {Self}
             /\ e.kind = "error" => e.topic \in Topics}

\* TypeOK in two parts: what sending works on, and what receiving does.
OutTypes ==
  /\ net \in BOOLEAN
  /\ call \in HostTopics \cup {None, Poll}
  /\ batch \in Seq(Shaped) /\ events \in Seq(Shaped)
  /\ toFlush \subseteq Topics
  /\ topicPeers \in [Topics -> SUBSET Peers]
  /\ pending \in [Topics -> Seq(Nat)]
  /\ \A t \in Topics : Len(pending[t]) <= Cap
  /\ cmds \in Seq(Cmds)
  /\ subs \in [Topics -> SUBSET Peers]
  /\ sent \in [Topics -> Nat]
  /\ published \in [Topics -> Seq(Nat)]
  /\ failed \in [Topics -> SUBSET Nat]
  /\ reported \in [Topics -> SUBSET Nat]

InTypes ==
  /\ rx \in [Topics -> Seq(Nat)]
  /\ chat \in Seq(ChatEntries) /\ Len(chat) <= HistoryCap
  /\ bindings \in [Remotes -> Nat \cup {None}]
  /\ dialing \subseteq Peers /\ up \subseteq Peers
  /\ mine \subseteq Topics
  /\ changes \in [Topics -> Nat]
  /\ arrived \in [Topics -> Nat]
  /\ handed \in [Topics -> Seq(Nat)]

TypeInv == OutTypes /\ InTypes

-----------------------------------------------------------------------------
(* Sequences, events and commands *)

LEMMA HeadTail ==
  ASSUME NEW S, NEW q \in Seq(S), q # <<>>
  PROVE  /\ Head(q) \in S /\ Tail(q) \in Seq(S)
         /\ Head(q) = q[1] /\ Len(q) >= 1 /\ Len(Tail(q)) = Len(q) - 1
         /\ \A i \in 1..(Len(q) - 1) : Tail(q)[i] = q[i + 1]
OBVIOUS

LEMMA AppendFacts ==
  ASSUME NEW S, NEW q \in Seq(S), NEW x \in S
  PROVE  /\ Append(q, x) \in Seq(S) /\ Len(Append(q, x)) = Len(q) + 1
         /\ \A i \in 1..Len(q) : Append(q, x)[i] = q[i]
         /\ Append(q, x)[Len(q) + 1] = x
OBVIOUS

LEMMA EmptyIsSeq == ASSUME NEW S PROVE <<>> \in Seq(S)
OBVIOUS

LEMMA Widened ==
  ASSUME NEW S, NEW T, S \subseteq T, NEW q \in Seq(S)
  PROVE  q \in Seq(T)
OBVIOUS

LEMMA TopicNames ==
  /\ Chat \in Topics /\ Identity \in Topics /\ HostTopics \subseteq Topics
  /\ ConfigTopics \subseteq Topics
  /\ None \notin Topics
BY NamesAssumption DEF Topics

LEMMA ShapedFields ==
  ASSUME NEW e \in Shaped
  PROVE  /\ e \in Events
         /\ e.frame \in Nat
         /\ e.kind \in {"joined", "left"} => e.topic \in Topics /\ e.peer \in Peers
         /\ e.kind = "down" => e.peer \in Peers
         /\ e.kind = "message" => e.topic \in Topics /\ e.peer \in Remotes \cup {Self}
         /\ e.kind = "error" => e.topic \in Topics
BY DEF Shaped, Events

LEMMA EventFields ==
  ASSUME NEW k, NEW t, NEW p, NEW n
  PROVE  /\ Event(k, t, p, n).kind = k /\ Event(k, t, p, n).topic = t
         /\ Event(k, t, p, n).peer = p /\ Event(k, t, p, n).frame = n
BY DEF Event

LEMMA EventShaped ==
  ASSUME NEW t \in Topics
  PROVE  /\ \A p \in Peers : /\ Event("joined", t, p, 0) \in Shaped
                             /\ Event("left", t, p, 0) \in Shaped
                             /\ Event("down", None, p, 0) \in Shaped
         /\ \A r \in Remotes \cup {Self}, n \in Nat : Event("message", t, r, n) \in Shaped
         /\ \A n \in Nat : Event("error", t, None, n) \in Shaped
BY DEF Shaped, Events, Event

LEMMA CommandTypes ==
  ASSUME NEW t \in Topics
  PROVE  /\ \A n \in Nat : Publish(t, n) \in Cmds
         /\ Subscribe(t) \in Cmds
BY DEF Cmds, Publish, Subscribe

LEMMA CommandFields ==
  ASSUME NEW c \in Cmds
  PROVE  c.cmd \in {"publish", "subscribe"} /\ c.topic \in Topics /\ c.frame \in Nat
BY DEF Cmds

LEMMA PublishFields ==
  ASSUME NEW t, NEW n
  PROVE  /\ Publish(t, n).cmd = "publish" /\ Publish(t, n).topic = t
         /\ Publish(t, n).frame = n
         /\ Subscribe(t).cmd = "subscribe"
BY DEF Publish, Subscribe

LEMMA CommandEq ==
  ASSUME NEW c \in Cmds, c.cmd = "publish"
  PROVE  c = Publish(c.topic, c.frame)
BY DEF Cmds, Publish

-----------------------------------------------------------------------------
(* The operators of sending *)

LEMMA EnqueuedFacts ==
  ASSUME NEW q \in Seq(Nat), NEW n \in Nat, Len(q) <= Cap
  PROVE  /\ Enqueued(q, n) \in Seq(Nat)
         /\ Len(Enqueued(q, n)) = IF Len(q) = Cap THEN Cap ELSE Len(q) + 1
         /\ Enqueued(q, n)[Len(Enqueued(q, n))] = n
         /\ \A i \in 1..(Len(Enqueued(q, n)) - 1) :
              Enqueued(q, n)[i] = IF Len(q) = Cap THEN q[i + 1] ELSE q[i]
<1>1. CASE Len(q) = Cap
  <2>1. q # <<>>
    BY <1>1, CapAssumption
  <2>2. Tail(q) \in Seq(Nat) /\ Len(Tail(q)) = Cap - 1
        /\ \A i \in 1..(Cap - 1) : Tail(q)[i] = q[i + 1]
    BY <1>1, <2>1, HeadTail
  <2>3. Enqueued(q, n) = Append(Tail(q), n)
    BY <1>1, CapAssumption DEF Enqueued
  <2> QED BY <1>1, <2>2, <2>3, AppendFacts, CapAssumption
<1>2. CASE Len(q) < Cap
  <2>1. Enqueued(q, n) = Append(q, n)
    BY <1>2, CapAssumption DEF Enqueued
  <2> QED BY <1>2, <2>1, AppendFacts, CapAssumption
<1> QED BY <1>1, <1>2, CapAssumption

Flushed(t) == [i \in DOMAIN pending[t] |-> Publish(t, pending[t][i])]

LEMMA FlushedFacts ==
  ASSUME NEW t \in Topics, pending[t] \in Seq(Nat)
  PROVE  /\ Flushed(t) \in Seq(Cmds) /\ Len(Flushed(t)) = Len(pending[t])
         /\ \A i \in 1..Len(pending[t]) : Flushed(t)[i] = Publish(t, pending[t][i])
<1>1. \A i \in 1..Len(pending[t]) : Publish(t, pending[t][i]) \in Cmds
  BY CommandTypes
<1> QED BY <1>1 DEF Flushed

LEMMA ConcatFacts ==
  ASSUME NEW S, NEW p \in Seq(S), NEW q \in Seq(S)
  PROVE  /\ p \o q \in Seq(S) /\ Len(p \o q) = Len(p) + Len(q)
         /\ \A i \in 1..Len(p) : (p \o q)[i] = p[i]
         /\ \A i \in (Len(p) + 1)..(Len(p) + Len(q)) : (p \o q)[i] = q[i - Len(p)]
OBVIOUS

LEMMA RememberedFacts ==
  ASSUME NEW h \in Seq(ChatEntries), Len(h) <= HistoryCap, NEW e \in ChatEntries
  PROVE  Remembered(h, e) \in Seq(ChatEntries) /\ Len(Remembered(h, e)) <= HistoryCap
<1>1. CASE Len(h) = HistoryCap
  <2>1. h # <<>>
    BY <1>1, CapAssumption
  <2>2. Remembered(h, e) = Append(Tail(h), e)
    BY <1>1, CapAssumption DEF Remembered
  <2> QED BY <1>1, <2>1, <2>2, HeadTail, AppendFacts, CapAssumption
<1>2. CASE Len(h) < HistoryCap
  <2>1. Remembered(h, e) = Append(h, e)
    BY <1>2, CapAssumption DEF Remembered
  <2> QED BY <1>2, <2>1, AppendFacts, CapAssumption
<1> QED BY <1>1, <1>2, CapAssumption

-----------------------------------------------------------------------------
(* Type correctness *)

LEMMA SendTypes ==
  ASSUME OutTypes, NEW t \in Topics, Send(t),
         UNCHANGED <<net, call, batch, events, toFlush, topicPeers, subs, published, failed, reported>>
  PROVE  OutTypes'
<1>1. sent[t] \in Nat /\ sent[t] + 1 \in Nat /\ sent' = [sent EXCEPT ![t] = sent[t] + 1]
  BY DEF OutTypes, Send
<1>2. sent' \in [Topics -> Nat]
  BY <1>1 DEF OutTypes
<1>3. CASE topicPeers[t] = {}
  <2>1. pending' = [pending EXCEPT ![t] = Enqueued(pending[t], sent[t] + 1)] /\ UNCHANGED cmds
    BY <1>1, <1>3 DEF Send
  <2>2. /\ Enqueued(pending[t], sent[t] + 1) \in Seq(Nat)
        /\ Len(Enqueued(pending[t], sent[t] + 1)) <= Cap
    BY <1>1, EnqueuedFacts, CapAssumption DEF OutTypes
  <2> QED BY <1>2, <2>1, <2>2 DEF OutTypes
<1>4. CASE topicPeers[t] # {}
  <2>1. cmds' = Append(cmds, Publish(t, sent[t] + 1)) /\ UNCHANGED pending
    BY <1>1, <1>4 DEF Send
  <2>2. cmds' \in Seq(Cmds)
    BY <1>1, <2>1, CommandTypes, AppendFacts DEF OutTypes
  <2> QED BY <1>2, <2>1, <2>2 DEF OutTypes
<1> QED BY <1>3, <1>4

LEMMA SwarmEventTypes ==
  ASSUME OutTypes, NEW e \in Shaped, SwarmEvent(e), subs' \in [Topics -> SUBSET Peers]
  PROVE  OutTypes'
<1>1. events' \in Seq(Shaped)
  BY AppendFacts DEF OutTypes, SwarmEvent
<1> QED BY <1>1 DEF OutTypes, SwarmEvent, tab, outHistory

LEMMA NextEventTypes ==
  ASSUME TypeInv, NEW k, NextEvent(k)
  PROVE  /\ batch # <<>> /\ Head(batch) \in Shaped /\ Head(batch).kind = k
         /\ batch' = Tail(batch) /\ batch' \in Seq(Shaped)
         /\ UNCHANGED <<net, call, pending, cmds, events>>
         /\ UNCHANGED <<sent, published, failed>>
         /\ UNCHANGED <<subs, mine, dialing, up, changes>>
         /\ UNCHANGED <<arrived, handed>>
BY HeadTail DEF TypeInv, OutTypes, NextEvent, link, outHistory, inHistory

LEMMA TypeInit ==
  ASSUME Init
  PROVE  TypeInv
<1>1. OutTypes
  <2>1. pending \in [Topics -> Seq(Nat)] /\ \A t \in Topics : Len(pending[t]) <= Cap
    BY EmptyIsSeq, CapAssumption DEF Init
  <2> QED BY <2>1, EmptyIsSeq DEF Init, OutTypes
<1>2. InTypes
  <2>1. chat \in Seq(ChatEntries) /\ Len(chat) <= HistoryCap
    BY EmptyIsSeq, CapAssumption DEF Init
  <2> QED BY <2>1, EmptyIsSeq DEF Init, InTypes
<1> QED BY <1>1, <1>2 DEF TypeInv

LEMMA SendingTypes ==
  ASSUME TypeInv,
         \/ \E t \in HostTopics : PublishOpaque(t) \/ SubscribeOpaque(t)
         \/ PublishChat \/ RepublishBindings \/ InitNet
  PROVE  TypeInv'
<1>1. ASSUME NEW t \in HostTopics, PublishOpaque(t)
      PROVE  TypeInv'
  <2>1. OutTypes'
    BY <1>1, SendTypes, TopicNames DEF PublishOpaque, TypeInv, link
  <2>2. InTypes'
    BY <1>1 DEF PublishOpaque, TypeInv, InTypes, link, inHistory
  <2> QED BY <2>1, <2>2 DEF TypeInv
<1>2. ASSUME NEW t \in HostTopics, SubscribeOpaque(t)
      PROVE  TypeInv'
  <2>1. cmds' \in Seq(Cmds)
    BY <1>2, TopicNames, CommandTypes, AppendFacts DEF SubscribeOpaque, TypeInv, OutTypes
  <2>2. OutTypes'
    BY <1>2, <2>1 DEF SubscribeOpaque, TypeInv, OutTypes, tab, link, outHistory
  <2>3. InTypes'
    BY <1>2 DEF SubscribeOpaque, TypeInv, InTypes, tab, link, inHistory
  <2> QED BY <2>2, <2>3 DEF TypeInv
<1>3. CASE PublishChat
  <2>1. OutTypes'
    BY <1>3, SendTypes, TopicNames DEF PublishChat, TypeInv, link
  <2>2. [who |-> Self, frame |-> sent[Chat] + 1] \in ChatEntries
    BY TopicNames DEF TypeInv, OutTypes, ChatEntries
  <2>3. chat' \in Seq(ChatEntries) /\ Len(chat') <= HistoryCap
    BY <1>3, <2>2, RememberedFacts DEF PublishChat, TypeInv, InTypes
  <2>4. InTypes'
    BY <1>3, <2>3 DEF PublishChat, TypeInv, InTypes, link, inHistory
  <2> QED BY <2>1, <2>4 DEF TypeInv
<1>4. CASE RepublishBindings
  <2>1. OutTypes'
    BY <1>4, SendTypes, TopicNames DEF RepublishBindings, TypeInv, link
  <2>2. InTypes'
    BY <1>4 DEF RepublishBindings, TypeInv, InTypes, link, inHistory
  <2> QED BY <2>1, <2>2 DEF TypeInv
<1>5. CASE InitNet
  <2>1. InTypes'
    BY <1>5, TopicNames DEF InitNet, TypeInv, InTypes, inHistory
  <2>2. CASE UNCHANGED <<sent, pending>>
    BY <1>5, <2>1, <2>2 DEF InitNet, TypeInv, OutTypes
  <2>3. CASE /\ sent' = [sent EXCEPT ![Identity] = @ + 1]
             /\ pending' = [pending EXCEPT ![Identity] = Enqueued(@, sent[Identity] + 1)]
    <3>1. sent[Identity] + 1 \in Nat /\ sent' \in [Topics -> Nat]
      BY <2>3, TopicNames DEF TypeInv, OutTypes
    <3>2. pending[Identity] \in Seq(Nat) /\ Len(pending[Identity]) <= Cap
      BY TopicNames DEF TypeInv, OutTypes
    <3>3. /\ Enqueued(pending[Identity], sent[Identity] + 1) \in Seq(Nat)
          /\ Len(Enqueued(pending[Identity], sent[Identity] + 1)) <= Cap
      BY <3>1, <3>2, EnqueuedFacts, CapAssumption
    <3>4. /\ pending' \in [Topics -> Seq(Nat)]
          /\ \A t \in Topics : Len(pending'[t]) <= Cap
      BY <2>3, <3>3, TopicNames DEF TypeInv, OutTypes
    <3>5. /\ net' = TRUE
          /\ UNCHANGED <<call, batch, toFlush, topicPeers, cmds, events, subs, published,
                         failed, reported>>
      BY <1>5 DEF InitNet
    <3> QED BY <2>1, <3>1, <3>4, <3>5 DEF TypeInv, OutTypes
  <2> QED BY <1>5, <2>2, <2>3 DEF InitNet
<1> QED BY <1>1, <1>2, <1>3, <1>4, <1>5

LEMMA PublishTypes ==
  ASSUME TypeInv, SwarmPublish
  PROVE  TypeInv'
<1> DEFINE t == Head(cmds).topic
           n == Head(cmds).frame
<1>1. t \in Topics /\ n \in Nat /\ cmds' \in Seq(Cmds)
  BY HeadTail, CommandFields DEF TypeInv, OutTypes, SwarmPublish
<1>2. InTypes'
  BY DEF SwarmPublish, TypeInv, InTypes, tab, link, inHistory
<1>3. CASE /\ published' = [published EXCEPT ![t] = Append(@, n)]
           /\ UNCHANGED <<failed, events>>
  <2>1. Append(published[t], n) \in Seq(Nat)
    BY <1>1, AppendFacts DEF TypeInv, OutTypes
  <2>2. published' \in [Topics -> Seq(Nat)]
    BY <1>1, <1>3, <2>1 DEF TypeInv, OutTypes
  <2> HIDE DEF t, n
  <2> QED BY <1>1, <1>2, <1>3, <2>2 DEF SwarmPublish, TypeInv, OutTypes, tab, link
<1>4. CASE /\ failed' = [failed EXCEPT ![t] = @ \cup {n}]
           /\ events' = Append(events, Event("error", t, None, n))
           /\ UNCHANGED published
  <2>1. failed' \in [Topics -> SUBSET Nat]
    BY <1>1, <1>4 DEF TypeInv, OutTypes
  <2>2. events' \in Seq(Shaped)
    BY <1>1, <1>4, EventShaped, AppendFacts DEF TypeInv, OutTypes
  <2> HIDE DEF t, n
  <2> QED BY <1>1, <1>2, <1>4, <2>1, <2>2 DEF SwarmPublish, TypeInv, OutTypes, tab, link
<1> QED BY <1>3, <1>4 DEF SwarmPublish

LEMMA SwarmingTypes ==
  ASSUME TypeInv, Swarming
  PROVE  TypeInv'
<1>1. CASE SwarmPublish
  BY <1>1, PublishTypes
<1>2. CASE SwarmSubscribe
  <2>1. Head(cmds).topic \in Topics /\ cmds' \in Seq(Cmds)
    BY <1>2, HeadTail, CommandFields DEF TypeInv, OutTypes, SwarmSubscribe
  <2>2. InTypes'
    BY <1>2, <2>1 DEF SwarmSubscribe, TypeInv, InTypes, tab, inHistory
  <2> QED BY <1>2, <2>1, <2>2 DEF SwarmSubscribe, TypeInv, OutTypes, tab, outHistory
<1>3. ASSUME NEW p \in Peers, Connect(p) \/ DialFails(p)
      PROVE  TypeInv'
  BY <1>3 DEF Connect, DialFails, TypeInv, OutTypes, InTypes, tab, outHistory, inHistory
<1>4. ASSUME NEW p \in Peers, Disconnect(p)
      PROVE  TypeInv'
  <2>1. Event("down", None, p, 0) \in Shaped
    BY EventShaped, TopicNames
  <2>2. subs' \in [Topics -> SUBSET Peers]
    BY <1>4 DEF Disconnect, TypeInv, OutTypes
  <2>3. OutTypes'
    BY <1>4, <2>1, <2>2, SwarmEventTypes DEF Disconnect, TypeInv
  <2>4. InTypes'
    BY <1>4 DEF Disconnect, SwarmEvent, TypeInv, InTypes, tab
  <2> QED BY <2>3, <2>4 DEF TypeInv
<1>5. ASSUME NEW p \in Peers, NEW t \in Topics, PeerJoins(p, t)
      PROVE  TypeInv'
  <2>1. Event("joined", t, p, 0) \in Shaped
    BY EventShaped
  <2>2. subs' \in [Topics -> SUBSET Peers] /\ changes' \in [Topics -> Nat]
    BY <1>5 DEF PeerJoins, TypeInv, OutTypes, InTypes
  <2>3. OutTypes'
    BY <1>5, <2>1, <2>2, SwarmEventTypes DEF PeerJoins, TypeInv
  <2>4. InTypes'
    BY <1>5, <2>2 DEF PeerJoins, SwarmEvent, TypeInv, InTypes, tab
  <2> QED BY <2>3, <2>4 DEF TypeInv
<1>6. ASSUME NEW p \in Peers, NEW t \in Topics, PeerLeaves(p, t)
      PROVE  TypeInv'
  <2>1. Event("left", t, p, 0) \in Shaped
    BY EventShaped
  <2>2. subs' \in [Topics -> SUBSET Peers] /\ changes' \in [Topics -> Nat]
    BY <1>6 DEF PeerLeaves, TypeInv, OutTypes, InTypes
  <2>3. OutTypes'
    BY <1>6, <2>1, <2>2, SwarmEventTypes DEF PeerLeaves, TypeInv
  <2>4. InTypes'
    BY <1>6, <2>2 DEF PeerLeaves, SwarmEvent, TypeInv, InTypes, tab
  <2> QED BY <2>3, <2>4 DEF TypeInv
<1>7. ASSUME NEW t \in Topics, NEW r \in Remotes \cup {Self}, MessageArrives(t, r)
      PROVE  TypeInv'
  <2>1. arrived[t] + 1 \in Nat /\ arrived' \in [Topics -> Nat]
    BY <1>7 DEF MessageArrives, TypeInv, InTypes
  <2>2. Event("message", t, r, arrived[t] + 1) \in Shaped
    BY <2>1, EventShaped
  <2>3. OutTypes'
    BY <1>7, <2>2, SwarmEventTypes DEF MessageArrives, TypeInv, OutTypes
  <2>4. InTypes'
    BY <1>7, <2>1 DEF MessageArrives, SwarmEvent, TypeInv, InTypes, tab
  <2> QED BY <2>3, <2>4 DEF TypeInv
<1> QED BY <1>1, <1>2, <1>3, <1>4, <1>5, <1>6, <1>7 DEF Swarming

LEMMA DrainingTypes ==
  ASSUME TypeInv, Draining
  PROVE  TypeInv'
<1> DEFINE e == Head(batch)
<1>1. CASE DrainJoined
  <2>1. NextEvent("joined")
    BY <1>1 DEF DrainJoined
  <2>2. e.topic \in Topics /\ e.peer \in Peers
    BY <2>1, NextEventTypes, ShapedFields
  <2>3. topicPeers' \in [Topics -> SUBSET Peers] /\ toFlush' \subseteq Topics
    BY <1>1, <2>2 DEF DrainJoined, TypeInv, OutTypes
  <2> QED BY <1>1, <2>1, <2>3, NextEventTypes DEF DrainJoined, TypeInv, OutTypes, InTypes
<1>2. CASE DrainLeft
  <2>1. NextEvent("left")
    BY <1>2 DEF DrainLeft
  <2>2. topicPeers' \in [Topics -> SUBSET Peers]
    BY <1>2 DEF DrainLeft, TypeInv, OutTypes
  <2> QED BY <1>2, <2>1, <2>2, NextEventTypes DEF DrainLeft, TypeInv, OutTypes, InTypes
<1>3. CASE DrainPeerDown
  <2>1. NextEvent("down")
    BY <1>3 DEF DrainPeerDown
  <2>2. topicPeers' \in [Topics -> SUBSET Peers]
    BY <1>3 DEF DrainPeerDown, TypeInv, OutTypes
  <2> QED BY <1>3, <2>1, <2>2, NextEventTypes DEF DrainPeerDown, TypeInv, OutTypes, InTypes
<1>4. CASE DrainChat
  <2>1. NextEvent("message")
    BY <1>4 DEF DrainChat
  <2>2. e.frame \in Nat /\ e.peer \in Remotes \cup {Self}
    BY <2>1, NextEventTypes, ShapedFields
  <2>3. chat' \in Seq(ChatEntries) /\ Len(chat') <= HistoryCap
    <3>1. CASE UNCHANGED chat
      BY <3>1 DEF TypeInv, InTypes
    <3>2. ASSUME NEW w \in Authors(e), chat' = Remembered(chat, [who |-> w, frame |-> e.frame])
          PROVE  chat' \in Seq(ChatEntries) /\ Len(chat') <= HistoryCap
      <4>1. w \in Nat \cup {None, Self}
        BY <2>2, <3>2 DEF Authors, TypeInv, InTypes
      <4>2. [who |-> w, frame |-> e.frame] \in ChatEntries
        BY <2>2, <4>1 DEF ChatEntries
      <4> HIDE DEF e
      <4> QED BY <3>2, <4>2, RememberedFacts DEF TypeInv, InTypes
    <3> QED BY <1>4, <3>1, <3>2 DEF DrainChat
  <2> QED BY <1>4, <2>1, <2>3, NextEventTypes DEF DrainChat, TypeInv, OutTypes, InTypes
<1>5. CASE DrainIdentity
  <2>1. NextEvent("message")
    BY <1>5 DEF DrainIdentity
  <2>2. e.frame \in Nat
    BY <2>1, NextEventTypes, ShapedFields
  <2>3. bindings' \in [Remotes -> Nat \cup {None}]
    BY <1>5, <2>2 DEF DrainIdentity, Absorbed, TypeInv, InTypes
  <2> QED BY <1>5, <2>1, <2>3, NextEventTypes DEF DrainIdentity, TypeInv, OutTypes, InTypes
<1>6. CASE DrainOpaque
  <2>1. NextEvent("message")
    BY <1>6 DEF DrainOpaque
  <2>2. e.frame \in Nat /\ e.topic \in Topics
    BY <2>1, NextEventTypes, ShapedFields
  <2>3. Append(rx[e.topic], e.frame) \in Seq(Nat)
    BY <2>2, AppendFacts DEF TypeInv, InTypes
  <2>4. rx' \in [Topics -> Seq(Nat)]
    BY <1>6, <2>3 DEF DrainOpaque, TypeInv, InTypes
  <2> QED BY <1>6, <2>1, <2>4, NextEventTypes DEF DrainOpaque, TypeInv, OutTypes, InTypes
<1>7. CASE DrainError
  <2>1. NextEvent("error")
    BY <1>7 DEF DrainError
  <2>2. e.frame \in Nat
    BY <2>1, NextEventTypes, ShapedFields
  <2>3. reported' \in [Topics -> SUBSET Nat]
    BY <1>7, <2>2 DEF DrainError, TypeInv, OutTypes
  <2> QED BY <1>7, <2>1, <2>3, NextEventTypes DEF DrainError, TypeInv, OutTypes, InTypes
<1>8. ASSUME NEW t \in Topics, FlushTopic(t)
      PROVE  TypeInv'
  <2>1. cmds' = cmds \o Flushed(t)
    BY <1>8 DEF FlushTopic, Flushed
  <2>2. cmds' \in Seq(Cmds)
    BY <2>1, FlushedFacts, ConcatFacts DEF TypeInv, OutTypes
  <2>3. pending' \in [Topics -> Seq(Nat)] /\ \A x \in Topics : Len(pending'[x]) <= Cap
    BY <1>8, EmptyIsSeq, CapAssumption DEF FlushTopic, TypeInv, OutTypes
  <2>4. toFlush' \subseteq Topics
    BY <1>8 DEF FlushTopic, TypeInv, OutTypes
  <2> QED BY <1>8, <2>2, <2>3, <2>4 DEF FlushTopic, TypeInv, OutTypes, InTypes, link, outHistory, inHistory
<1>9. CASE ReturnPending
  BY <1>9 DEF ReturnPending, TypeInv, OutTypes, InTypes, tab, link, outHistory, inHistory
<1>10. CASE ReturnFrames
  BY <1>10, EmptyIsSeq, TopicNames
     DEF ReturnFrames, TypeInv, OutTypes, InTypes, link, outHistory
<1> QED BY <1>1, <1>2, <1>3, <1>4, <1>5, <1>6, <1>7, <1>8, <1>9, <1>10 DEF Draining

LEMMA TypeStep ==
  ASSUME TypeInv, [Next]_vars
  PROVE  TypeInv'
<1>1. ASSUME NEW c \in HostTopics \cup {Poll}, StartDrain(c)
      PROVE  TypeInv'
  BY <1>1, EmptyIsSeq DEF StartDrain, TypeInv, OutTypes, InTypes, tab, link, outHistory
<1>2. CASE UNCHANGED vars
  BY <1>2 DEF vars, TypeInv, OutTypes, InTypes
<1> QED BY <1>1, <1>2, SendingTypes, SwarmingTypes, DrainingTypes DEF Next

\* No outbox and no chat history grows past its cap, and every queue holds what
\* it is for (crates/laye-p2p/src/{wasm,chat}.rs).
THEOREM TypeCorrect == Spec => []TypeOK
<1>1. Init => TypeInv
  BY TypeInit
<1>2. TypeInv /\ [Next]_vars => TypeInv'
  BY TypeStep
<1>3. TypeInv => TypeOK
  <2>1. Shaped \subseteq Events
    BY DEF Shaped
  <2>2. TypeInv => batch \in Seq(Events) /\ events \in Seq(Events)
    BY <2>1, Widened DEF TypeInv, OutTypes
  <2> QED BY <2>2 DEF TypeInv, OutTypes, InTypes, TypeOK
<1> QED BY <1>1, <1>2, <1>3, PTL DEF Spec

-----------------------------------------------------------------------------
(* The outbox *)

\* Before init nothing has been drained, and between host calls nothing of a
\* drain is left.
IdleInv ==
  /\ ~net => call = None /\ \A t \in Topics : topicPeers[t] = {}
  /\ call = None => batch = <<>>

OutboxInv == TypeInv /\ IdleInv /\ OutboxSound

\* The newest frame of a topic that has left its outbox or was never in it.
Floor(t) == sent[t] - Len(pending[t])

LEMMA FloorType ==
  ASSUME OutTypes, OutboxIsNewest, NEW t \in Topics
  PROVE  /\ sent[t] \in Nat /\ pending[t] \in Seq(Nat) /\ Len(pending[t]) \in 0..Cap
         /\ Floor(t) \in Nat /\ Floor(t) <= sent[t]
         /\ DOMAIN pending[t] = 1..Len(pending[t])
         /\ \A i \in 1..Len(pending[t]) : pending[t][i] = Floor(t) + i
<1>1. sent[t] \in Nat /\ pending[t] \in Seq(Nat) /\ Len(pending[t]) <= Cap
      /\ Len(pending[t]) <= sent[t]
  BY DEF OutTypes, OutboxIsNewest
<1>2. Len(pending[t]) \in Nat /\ DOMAIN pending[t] = 1..Len(pending[t])
  BY <1>1
<1> QED BY <1>1, <1>2, CapAssumption DEF Floor, OutboxIsNewest

\* A queue of consecutive numbers after b.
CountsFrom(q, b) == \A i \in 1..Len(q) : q[i] = b + i

\* It still is with the next number put into it, after b + 1 if the cap made
\* the oldest go.
LEMMA EnqueuedCounts ==
  ASSUME NEW q \in Seq(Nat), NEW b \in Nat, NEW n \in Nat,
         Len(q) <= Cap, CountsFrom(q, b), n = b + Len(q) + 1
  PROVE  /\ Enqueued(q, n) \in Seq(Nat)
         /\ Len(q) = Cap => Len(Enqueued(q, n)) = Cap /\ CountsFrom(Enqueued(q, n), b + 1)
         /\ Len(q) # Cap => Len(Enqueued(q, n)) = Len(q) + 1 /\ CountsFrom(Enqueued(q, n), b)
<1>1. PICK r : r = Enqueued(q, n)
  OBVIOUS
<1>2. /\ r \in Seq(Nat) /\ Len(r) = IF Len(q) = Cap THEN Cap ELSE Len(q) + 1
      /\ r[Len(r)] = n
      /\ \A i \in 1..(Len(r) - 1) : r[i] = IF Len(q) = Cap THEN q[i + 1] ELSE q[i]
  BY <1>1, EnqueuedFacts
<1>3. Len(q) \in Nat /\ Cap \in Nat \ {0}
  BY CapAssumption
<1>4. ASSUME Len(q) = Cap
      PROVE  Len(r) = Cap /\ CountsFrom(r, b + 1)
  <2>1. Len(r) = Cap
    BY <1>2, <1>4
  <2>2. ASSUME NEW i \in 1..Len(r), i # Len(r)
        PROVE  r[i] = (b + 1) + i
    <3>1. i \in 1..(Len(r) - 1) /\ i + 1 \in 1..Len(q) /\ i \in Nat
      BY <1>3, <1>4, <2>1, <2>2
    <3>2. r[i] = q[i + 1]
      BY <1>2, <1>4, <3>1
    <3>3. q[i + 1] = b + (i + 1)
      BY <3>1 DEF CountsFrom
    <3> QED BY <3>1, <3>2, <3>3
  <2>3. r[Len(r)] = (b + 1) + Len(r)
    BY <1>2, <1>3, <1>4, <2>1
  <2> QED BY <2>1, <2>2, <2>3 DEF CountsFrom
<1>5. ASSUME Len(q) # Cap
      PROVE  Len(r) = Len(q) + 1 /\ CountsFrom(r, b)
  <2>1. Len(r) = Len(q) + 1
    BY <1>2, <1>5
  <2>2. ASSUME NEW i \in 1..Len(r), i # Len(r)
        PROVE  r[i] = b + i
    <3>1. i \in 1..(Len(r) - 1) /\ i \in 1..Len(q)
      BY <1>3, <2>1, <2>2
    <3>2. r[i] = q[i]
      BY <1>2, <1>5, <3>1
    <3> QED BY <3>1, <3>2 DEF CountsFrom
  <2>3. r[Len(r)] = b + Len(r)
    BY <1>2, <1>3, <2>1
  <2> QED BY <2>1, <2>2, <2>3 DEF CountsFrom
<1> QED BY <1>1, <1>2, <1>4, <1>5

\* The outbox of a topic counts on from its floor.
Counted(t) ==
  /\ Len(pending[t]) <= Cap
  /\ Len(pending[t]) <= sent[t]
  /\ CountsFrom(pending[t], Floor(t))

LEMMA CountedOutbox ==
  ASSUME OutTypes
  PROVE  OutboxIsNewest <=> \A t \in Topics : Counted(t)
<1>1. \A t \in Topics : DOMAIN pending[t] = 1..Len(pending[t])
  BY DEF OutTypes
<1> QED BY <1>1 DEF OutboxIsNewest, Counted, CountsFrom, Floor

LEMMA CountedOutboxNext ==
  ASSUME OutTypes'
  PROVE  OutboxIsNewest' <=> \A t \in Topics : Counted(t)'
<1>1. \A t \in Topics : DOMAIN pending'[t] = 1..Len(pending'[t])
  BY DEF OutTypes
<1> QED BY <1>1 DEF OutboxIsNewest, Counted, CountsFrom, Floor

\* A frame put into the outbox is its newest; an older one goes only if the cap
\* makes it.
LEMMA QueueOne ==
  ASSUME OutTypes, OutTypes', OutboxIsNewest, NEW t \in Topics,
         sent' = [sent EXCEPT ![t] = sent[t] + 1],
         pending' = [pending EXCEPT ![t] = Enqueued(pending[t], sent[t] + 1)]
  PROVE  /\ OutboxIsNewest'
         /\ Floor(t)' = IF Len(pending[t]) = Cap THEN Floor(t) + 1 ELSE Floor(t)
         /\ \A x \in Topics \ {t} : Floor(x)' = Floor(x)
<1> DEFINE n == sent[t] + 1
<1>1. PICK b : b = Floor(t)
  OBVIOUS
<1>2. PICK c : c = IF Len(pending[t]) = Cap THEN b + 1 ELSE b
  OBVIOUS
<1>3. /\ sent[t] \in Nat /\ pending[t] \in Seq(Nat)
      /\ Len(pending[t]) \in Nat /\ Len(pending[t]) <= Cap
      /\ b \in Nat /\ c \in Nat /\ n \in Nat
      /\ n = b + Len(pending[t]) + 1
      /\ CountsFrom(pending[t], b)
  BY <1>1, <1>2, FloorType DEF Floor, CountsFrom
<1>4. /\ sent'[t] = n /\ pending'[t] = Enqueued(pending[t], n)
      /\ \A x \in Topics \ {t} : sent'[x] = sent[x] /\ pending'[x] = pending[x]
  BY DEF OutTypes
<1> HIDE DEF n
<1>5. /\ pending'[t] \in Seq(Nat) /\ Len(pending'[t]) <= Cap
      /\ c + Len(pending'[t]) = n
      /\ CountsFrom(pending'[t], c)
  <2>1. CASE Len(pending[t]) = Cap
    <3>1. Len(Enqueued(pending[t], n)) = Cap /\ CountsFrom(Enqueued(pending[t], n), b + 1)
      BY <1>3, <2>1, EnqueuedCounts
    <3>2. Enqueued(pending[t], n) \in Seq(Nat) /\ c = b + 1
      BY <1>2, <1>3, <2>1, EnqueuedCounts
    <3>3. Enqueued(pending[t], n) = pending'[t]
      BY <1>4
    <3>4. c + Cap = n /\ Cap <= Cap
      BY <1>3, <2>1, <3>2, CapAssumption
    <3> QED BY <3>1, <3>2, <3>3, <3>4
  <2>2. CASE Len(pending[t]) # Cap
    <3>1. /\ Len(Enqueued(pending[t], n)) = Len(pending[t]) + 1
          /\ CountsFrom(Enqueued(pending[t], n), b)
      BY <1>3, <2>2, EnqueuedCounts
    <3>2. Enqueued(pending[t], n) \in Seq(Nat) /\ c = b
      BY <1>2, <1>3, <2>2, EnqueuedCounts
    <3>3. Enqueued(pending[t], n) = pending'[t]
      BY <1>4
    <3>4. c + (Len(pending[t]) + 1) = n /\ Len(pending[t]) + 1 <= Cap
      BY <1>3, <2>2, <3>2, CapAssumption
    <3> QED BY <3>1, <3>2, <3>3, <3>4
  <2> QED BY <2>1, <2>2
<1>6. Len(pending'[t]) \in Nat
  BY <1>5
<1>7. Floor(t)' = c
  <2>1. Floor(t)' = n - Len(pending'[t])
    BY <1>4 DEF Floor
  <2> QED BY <1>3, <1>5, <1>6, <2>1
<1>8. Counted(t)'
  <2>1. Len(pending'[t]) <= sent'[t]
    BY <1>3, <1>4, <1>5, <1>6
  <2> QED BY <1>5, <1>7, <2>1 DEF Counted
<1>9. \A x \in Topics \ {t} : Floor(x)' = Floor(x)
  BY <1>4 DEF Floor
<1>10. \A x \in Topics \ {t} : Counted(x)'
  BY <1>4, <1>9, CountedOutbox DEF Counted
<1>11. OutboxIsNewest'
  BY <1>8, <1>10, CountedOutboxNext
<1> QED BY <1>1, <1>2, <1>7, <1>9, <1>11

LEMMA SendOutbox ==
  ASSUME OutTypes, OutTypes', OutboxIsNewest, NEW t \in Topics, Send(t),
         topicPeers[t] # {} => pending[t] = <<>>
  PROVE  /\ OutboxIsNewest'
         /\ topicPeers[t] # {} => pending' = pending
         /\ \A x \in Topics \ {t} : pending'[x] = pending[x]
<1>1. sent' = [sent EXCEPT ![t] = sent[t] + 1] /\ sent[t] \in Nat
  BY DEF Send, OutTypes
<1>2. CASE topicPeers[t] = {}
  <2>1. pending' = [pending EXCEPT ![t] = Enqueued(pending[t], sent[t] + 1)]
    BY <1>2 DEF Send
  <2> QED BY <1>1, <1>2, <2>1, QueueOne DEF OutTypes
<1>3. CASE topicPeers[t] # {}
  <2>1. pending' = pending
    BY <1>3 DEF Send
  <2> QED
    <3>1. \A x \in Topics : Len(pending[x]) <= sent'[x]
                            /\ (x # t => sent'[x] = sent[x])
      BY <1>1, <1>3 DEF OutTypes, OutboxIsNewest
    <3>2. pending[t] = <<>>
      BY <1>3
    <3> QED BY <2>1, <1>3, <3>1, <3>2 DEF OutboxIsNewest
<1> QED BY <1>2, <1>3

LEMMA OutboxSend ==
  ASSUME OutboxInv, TypeInv', NEW t \in Topics, Send(t), call = None,
         UNCHANGED <<net, call, batch, toFlush, topicPeers>>
  PROVE  OutboxInv'
<1>1. topicPeers[t] # {} => pending[t] = <<>>
  BY DEF OutboxInv, OutboxSound, MeshedMeansFlushed
<1>2. /\ OutboxIsNewest'
      /\ topicPeers[t] # {} => pending' = pending
      /\ \A x \in Topics \ {t} : pending'[x] = pending[x]
  BY <1>1, SendOutbox DEF OutboxInv, TypeInv, OutboxSound
<1>3. MeshedMeansFlushed'
  BY <1>2 DEF OutboxInv, OutboxSound, MeshedMeansFlushed
<1> QED BY <1>2, <1>3 DEF OutboxInv, IdleInv, OutboxSound

\* Steps that leave sending alone.
LEMMA OutboxQuiet ==
  ASSUME OutboxInv, TypeInv',
         UNCHANGED <<net, call, batch, toFlush, topicPeers, pending, sent>>
  PROVE  OutboxInv'
BY DEF OutboxInv, IdleInv, OutboxSound, MeshedMeansFlushed, OutboxIsNewest

\* A drained event takes nothing out of the outbox; it may add the topic of a
\* first peer to those to flush.
LEMMA OutboxDrained ==
  ASSUME OutboxInv, TypeInv', call # None, net,
         UNCHANGED <<net, call, pending, sent>>,
         \A t \in Topics : topicPeers'[t] # {} /\ topicPeers[t] = {} => t \in toFlush',
         toFlush \subseteq toFlush'
  PROVE  OutboxInv'
BY DEF OutboxInv, IdleInv, OutboxSound, MeshedMeansFlushed, OutboxIsNewest

LEMMA OutboxDraining ==
  ASSUME OutboxInv, TypeInv', Draining
  PROVE  OutboxInv'
<1>1. ASSUME NEW k, NextEvent(k)
      PROVE  call # None /\ net /\ UNCHANGED <<net, call, pending, sent>>
  BY <1>1 DEF NextEvent, OutboxInv, TypeInv, OutTypes, IdleInv, outHistory
<1>2. CASE DrainJoined
  <2>1. Head(batch).topic \in Topics
    BY <1>2, NextEventTypes, ShapedFields DEF DrainJoined, OutboxInv
  <2>2. /\ toFlush \subseteq toFlush'
        /\ \A t \in Topics : topicPeers'[t] # {} /\ topicPeers[t] = {} => t \in toFlush'
    BY <1>2, <2>1 DEF DrainJoined, OutboxInv, TypeInv, OutTypes
  <2>3. NextEvent("joined")
    BY <1>2 DEF DrainJoined
  <2> QED BY <1>1, <2>2, <2>3, OutboxDrained
<1>3. CASE DrainLeft
  <2>1. NextEvent("left") /\ toFlush' = toFlush
    BY <1>3 DEF DrainLeft
  <2>2. \A t \in Topics : topicPeers'[t] # {} => topicPeers[t] # {}
    BY <1>3 DEF DrainLeft, OutboxInv, TypeInv, OutTypes
  <2> QED BY <1>1, <2>1, <2>2, OutboxDrained
<1>4. CASE DrainPeerDown
  <2>1. NextEvent("down") /\ toFlush' = toFlush
    BY <1>4 DEF DrainPeerDown
  <2>2. \A t \in Topics : topicPeers'[t] # {} => topicPeers[t] # {}
    BY <1>4 DEF DrainPeerDown
  <2> QED BY <1>1, <2>1, <2>2, OutboxDrained
<1>5. CASE DrainChat \/ DrainIdentity \/ DrainOpaque \/ DrainError
  <2>1. /\ NextEvent("message") \/ NextEvent("error")
        /\ toFlush' = toFlush /\ topicPeers' = topicPeers
    BY <1>5 DEF DrainChat, DrainIdentity, DrainOpaque, DrainError
  <2> QED BY <1>1, <2>1, OutboxDrained
<1>6. ASSUME NEW t \in Topics, FlushTopic(t)
      PROVE  OutboxInv'
  <2>1. /\ call # None /\ UNCHANGED <<net, call, batch, topicPeers, sent>>
        /\ toFlush' = toFlush \ {t} /\ pending' = [pending EXCEPT ![t] = <<>>]
    BY <1>6 DEF FlushTopic, outHistory
  <2>2. pending'[t] = <<>> /\ \A x \in Topics \ {t} : pending'[x] = pending[x]
    BY <2>1 DEF OutboxInv, TypeInv, OutTypes
  <2>3. MeshedMeansFlushed'
    BY <2>1, <2>2 DEF OutboxInv, OutboxSound, MeshedMeansFlushed
  <2>4. sent[t] \in Nat
    BY DEF OutboxInv, TypeInv, OutTypes
  <2>5. OutboxIsNewest'
    BY <2>1, <2>2, <2>4, CapAssumption DEF OutboxInv, OutboxSound, OutboxIsNewest
  <2> QED BY <2>1, <2>3, <2>5 DEF OutboxInv, OutboxSound, IdleInv
<1>7. CASE ReturnPending \/ ReturnFrames
  <2>1. /\ call' = None /\ batch = <<>> /\ toFlush = {}
        /\ UNCHANGED <<net, batch, toFlush, topicPeers, pending, sent>>
    BY <1>7 DEF ReturnPending, ReturnFrames, tab, outHistory
  <2> QED BY <2>1 DEF OutboxInv, IdleInv, OutboxSound, MeshedMeansFlushed, OutboxIsNewest
<1> QED BY <1>2, <1>3, <1>4, <1>5, <1>6, <1>7 DEF Draining

LEMMA OutboxInit ==
  ASSUME Init
  PROVE  OutboxInv
<1>1. \A t \in Topics : pending[t] = <<>> /\ sent[t] = 0 /\ topicPeers[t] = {}
  BY DEF Init
<1>2. net = FALSE /\ call = None /\ batch = <<>> /\ toFlush = {}
  BY DEF Init
<1> QED BY <1>1, <1>2, TypeInit, CapAssumption
       DEF OutboxInv, IdleInv, OutboxSound, MeshedMeansFlushed, OutboxIsNewest

LEMMA OutboxStep ==
  ASSUME OutboxInv, [Next]_vars
  PROVE  OutboxInv'
<1> TypeInv'
  BY TypeStep DEF OutboxInv
<1>1. ASSUME NEW t \in HostTopics, PublishOpaque(t)
      PROVE  OutboxInv'
  BY <1>1, OutboxSend, TopicNames DEF PublishOpaque
<1>2. ASSUME NEW t \in HostTopics, SubscribeOpaque(t)
      PROVE  OutboxInv'
  BY <1>2, OutboxQuiet DEF SubscribeOpaque, tab, outHistory
<1>3. CASE PublishChat
  BY <1>3, OutboxSend, TopicNames DEF PublishChat
<1>4. CASE RepublishBindings
  BY <1>4, OutboxSend, TopicNames DEF RepublishBindings
<1>5. CASE InitNet
  <2>1. /\ net' = TRUE /\ \A t \in Topics : topicPeers[t] = {}
        /\ UNCHANGED <<call, batch, toFlush, topicPeers>>
    BY <1>5 DEF InitNet, OutboxInv, IdleInv
  <2>2. OutboxIsNewest'
    <3>1. CASE UNCHANGED <<sent, pending>>
      BY <3>1 DEF OutboxInv, OutboxSound, OutboxIsNewest
    <3>2. CASE /\ sent' = [sent EXCEPT ![Identity] = @ + 1]
               /\ pending' = [pending EXCEPT ![Identity] = Enqueued(@, sent[Identity] + 1)]
      <4>1. /\ sent' = [sent EXCEPT ![Identity] = sent[Identity] + 1]
            /\ pending' = [pending EXCEPT ![Identity] =
                             Enqueued(pending[Identity], sent[Identity] + 1)]
        BY <3>2
      <4> QED BY <4>1, QueueOne, TopicNames DEF OutboxInv, TypeInv, OutboxSound
    <3> QED BY <1>5, <3>1, <3>2 DEF InitNet
  <2> QED BY <2>1, <2>2 DEF OutboxInv, IdleInv, OutboxSound, MeshedMeansFlushed
<1>6. ASSUME NEW c \in HostTopics \cup {Poll}, StartDrain(c)
      PROVE  OutboxInv'
  <2>1. /\ call = None /\ net /\ c # None /\ call' = c
        /\ UNCHANGED <<net, toFlush, topicPeers, pending, sent>>
    BY <1>6, NamesAssumption, TopicNames DEF StartDrain, tab, outHistory
  <2> QED BY <2>1 DEF OutboxInv, IdleInv, OutboxSound, MeshedMeansFlushed, OutboxIsNewest
<1>7. CASE Swarming
  <2>1. UNCHANGED <<net, call, batch, toFlush, topicPeers, pending, sent>>
    BY <1>7 DEF Swarming, SwarmPublish, SwarmSubscribe, Connect, DialFails, Disconnect,
                PeerJoins, PeerLeaves, MessageArrives, SwarmEvent, tab, outHistory
  <2> QED BY <2>1, OutboxQuiet
<1>8. CASE Draining
  BY <1>8, OutboxDraining
<1>9. CASE UNCHANGED vars
  BY <1>9, OutboxQuiet DEF vars
<1> QED BY <1>1, <1>2, <1>3, <1>4, <1>5, <1>6, <1>7, <1>8, <1>9 DEF Next

\* The outbox of a topic holds its newest frames, and none once the topic is
\* believed to have a mesh (enqueue_send, publish_inner and drain_net_events in
\* crates/laye-p2p/src/wasm.rs).
THEOREM OutboxKept == Spec => []OutboxSound
<1>1. Init => OutboxInv
  BY OutboxInit
<1>2. OutboxInv /\ [Next]_vars => OutboxInv'
  BY OutboxStep
<1>3. OutboxInv => OutboxSound
  BY DEF OutboxInv
<1> QED BY <1>1, <1>2, <1>3, PTL DEF Spec

-----------------------------------------------------------------------------
(* The order of what is sent *)

\* The i-th command is a publish on t.
Sends(i, t) == i \in 1..Len(cmds) /\ cmds[i].cmd = "publish" /\ cmds[i].topic = t

\* What gossipsub got, then what is in the channel, then what the outbox holds
\* (after the floor) is increasing.
Ordered(t) ==
  /\ \A i, j \in 1..Len(published[t]) : i < j => published[t][i] < published[t][j]
  /\ \A i \in 1..Len(published[t]) : published[t][i] <= Floor(t)
  /\ \A n \in failed[t] : n <= Floor(t)
  /\ \A j : Sends(j, t) => cmds[j].frame <= Floor(t)
  /\ \A i \in 1..Len(published[t]) : \A j : Sends(j, t) => published[t][i] < cmds[j].frame
  /\ \A n \in failed[t] : \A j : Sends(j, t) => n < cmds[j].frame
  /\ \A i, j : Sends(i, t) /\ Sends(j, t) /\ i < j => cmds[i].frame < cmds[j].frame

OrderInv == OutboxInv /\ \A t \in Topics : Ordered(t)

LEMMA OrderTypes ==
  ASSUME OutboxInv, NEW t \in Topics
  PROVE  /\ sent[t] \in Nat /\ Floor(t) \in Nat /\ Floor(t) <= sent[t]
         /\ published[t] \in Seq(Nat) /\ failed[t] \subseteq Nat
         /\ \A i \in 1..Len(published[t]) : published[t][i] \in Nat
         /\ \A j \in 1..Len(cmds) : cmds[j].frame \in Nat
<1>1. \A j \in 1..Len(cmds) : cmds[j] \in Cmds
  BY DEF OutboxInv, TypeInv, OutTypes
<1> QED BY <1>1, FloorType, CommandFields DEF OutboxInv, TypeInv, OutTypes, OutboxSound

LEMMA FloorTypeNext ==
  ASSUME OutboxInv', NEW t \in Topics
  PROVE  Floor(t)' \in Nat
<1>1. /\ sent'[t] \in Nat /\ pending'[t] \in Seq(Nat)
      /\ Len(pending'[t]) <= sent'[t]
  BY DEF OutboxInv, TypeInv, OutTypes, OutboxSound, OutboxIsNewest
<1>2. Len(pending'[t]) \in Nat
  BY <1>1
<1> QED BY <1>1, <1>2 DEF Floor

\* Commands may go from the front of the channel, the frames of the outbox may
\* be fewer.
LEMMA OrderFewer ==
  ASSUME OrderInv, OutboxInv', NEW t \in Topics,
         Floor(t)' >= Floor(t), published'[t] = published[t], failed'[t] = failed[t],
         \/ cmds' = cmds
         \/ cmds # <<>> /\ cmds' = Tail(cmds)
  PROVE  Ordered(t)'
<1>1. Floor(t) \in Nat /\ Floor(t)' \in Nat
  BY OrderTypes, FloorTypeNext DEF OrderInv
<1>2. /\ \A i \in 1..Len(published[t]) : published[t][i] \in Nat
      /\ \A j \in 1..Len(cmds) : cmds[j].frame \in Nat
      /\ failed[t] \subseteq Nat
  BY OrderTypes DEF OrderInv
<1>3. Ordered(t)
  BY DEF OrderInv
<1>4. CASE cmds' = cmds
  BY <1>1, <1>2, <1>3, <1>4 DEF Ordered, Sends
<1>5. CASE cmds # <<>> /\ cmds' = Tail(cmds)
  <2>1. /\ Len(cmds') = Len(cmds) - 1
        /\ \A j \in 1..Len(cmds') : cmds'[j] = cmds[j + 1] /\ j + 1 \in 1..Len(cmds)
        /\ Len(cmds) \in Nat
    BY <1>5, HeadTail DEF OrderInv, OutboxInv, TypeInv, OutTypes
  <2>2. \A j : Sends(j, t)' => Sends(j + 1, t) /\ cmds'[j] = cmds[j + 1] /\ j \in Nat
    BY <2>1 DEF Sends
  <2>3. \A j : Sends(j, t)' => cmds'[j].frame <= Floor(t) /\ cmds'[j].frame \in Nat
    BY <1>2, <1>3, <2>2 DEF Ordered, Sends
  <2>4. \A i \in 1..Len(published[t]) : \A j : Sends(j, t)' => published[t][i] < cmds'[j].frame
    BY <1>3, <2>2 DEF Ordered
  <2>5. \A n \in failed[t] : \A j : Sends(j, t)' => n < cmds'[j].frame
    BY <1>3, <2>2 DEF Ordered
  <2>6. ASSUME NEW i, NEW j, Sends(i, t)', Sends(j, t)', i < j
        PROVE  cmds'[i].frame < cmds'[j].frame
    <3>1. i + 1 < j + 1
      BY <2>2, <2>6
    <3> QED BY <1>3, <2>2, <2>6, <3>1 DEF Ordered
  <2>7. \A j : Sends(j, t)' => cmds'[j].frame <= Floor(t)'
    BY <1>1, <2>3
  <2>8. /\ \A i \in 1..Len(published[t]) : published[t][i] <= Floor(t)'
        /\ \A n \in failed[t] : n <= Floor(t)'
    BY <1>1, <1>2, <1>3 DEF Ordered
  <2>9. \A i, j \in 1..Len(published[t]) : i < j => published[t][i] < published[t][j]
    BY <1>3 DEF Ordered
  <2> QED BY <2>4, <2>5, <2>6, <2>7, <2>8, <2>9 DEF Ordered
<1> QED BY <1>4, <1>5

\* The k-th of the commands s is a publish on t.
SendsIn(s, k, t) == k \in 1..Len(s) /\ s[k].cmd = "publish" /\ s[k].topic = t

\* Commands on t that join the channel come from beyond the floor.
LEMMA OrderMore ==
  ASSUME OrderInv, OutboxInv', NEW t \in Topics, NEW s \in Seq(Cmds),
         Floor(t)' >= Floor(t), published'[t] = published[t], failed'[t] = failed[t],
         cmds' = cmds \o s,
         \A k : SendsIn(s, k, t) => Floor(t) < s[k].frame /\ s[k].frame <= Floor(t)',
         \A k, l : SendsIn(s, k, t) /\ SendsIn(s, l, t) /\ k < l => s[k].frame < s[l].frame
  PROVE  Ordered(t)'
<1>1. Floor(t) \in Nat /\ Floor(t)' \in Nat
  BY OrderTypes, FloorTypeNext DEF OrderInv
<1>2. /\ \A i \in 1..Len(published[t]) : published[t][i] \in Nat
      /\ \A j \in 1..Len(cmds) : cmds[j].frame \in Nat
      /\ failed[t] \subseteq Nat
      /\ \A k \in 1..Len(s) : s[k].frame \in Nat
  BY OrderTypes, CommandFields DEF OrderInv
<1>3. Ordered(t)
  BY DEF OrderInv
<1>4. /\ Len(cmds) \in Nat /\ Len(s) \in Nat /\ Len(cmds') = Len(cmds) + Len(s)
      /\ \A j \in 1..Len(cmds) : cmds'[j] = cmds[j]
      /\ \A j \in (Len(cmds) + 1)..(Len(cmds) + Len(s)) : cmds'[j] = s[j - Len(cmds)]
  BY ConcatFacts DEF OrderInv, OutboxInv, TypeInv, OutTypes
<1>5. \A j : Sends(j, t)' => j \in Nat /\ j <= Len(cmds) + Len(s)
  BY <1>4 DEF Sends
<1>6. \A j : Sends(j, t)' /\ j <= Len(cmds) => Sends(j, t) /\ cmds'[j] = cmds[j]
  BY <1>4 DEF Sends
<1>7. ASSUME NEW j, Sends(j, t)', ~(j <= Len(cmds))
      PROVE  SendsIn(s, j - Len(cmds), t) /\ cmds'[j] = s[j - Len(cmds)]
  <2>1. j \in (Len(cmds) + 1)..(Len(cmds) + Len(s)) /\ j - Len(cmds) \in 1..Len(s)
    BY <1>4, <1>5, <1>7
  <2>2. cmds'[j] = s[j - Len(cmds)] /\ cmds'[j].cmd = "publish" /\ cmds'[j].topic = t
    BY <1>4, <1>7, <2>1 DEF Sends
  <2> QED BY <2>1, <2>2 DEF SendsIn
<1>8. \A j : Sends(j, t) => cmds[j].frame <= Floor(t) /\ cmds[j].frame \in Nat
  BY <1>2, <1>3 DEF Ordered, Sends
<1>9. \A k : SendsIn(s, k, t) => s[k].frame \in Nat
  BY <1>2 DEF SendsIn
<1>10. /\ \A i \in 1..Len(published[t]) : published[t][i] <= Floor(t)
       /\ \A n \in failed[t] : n <= Floor(t)
  BY <1>3 DEF Ordered
<1>11. ASSUME NEW j, Sends(j, t)'
       PROVE  /\ cmds'[j].frame <= Floor(t)'
              /\ \A i \in 1..Len(published[t]) : published[t][i] < cmds'[j].frame
              /\ \A n \in failed[t] : n < cmds'[j].frame
  <2>1. CASE j <= Len(cmds)
    <3>1. Sends(j, t) /\ cmds'[j].frame = cmds[j].frame
      BY <1>6, <1>11, <2>1
    <3>2. cmds[j].frame <= Floor(t)'
      BY <1>1, <1>8, <3>1
    <3> QED BY <1>3, <3>1, <3>2 DEF Ordered
  <2>2. CASE ~(j <= Len(cmds))
    <3>1. PICK k : SendsIn(s, k, t) /\ cmds'[j] = s[k]
      BY <1>7, <1>11, <2>2
    <3>2. Floor(t) < s[k].frame /\ s[k].frame <= Floor(t)' /\ s[k].frame \in Nat
      BY <1>9, <3>1
    <3> QED BY <1>1, <1>2, <1>10, <3>1, <3>2
  <2> QED BY <2>1, <2>2
<1>12. ASSUME NEW i, NEW j, Sends(i, t)', Sends(j, t)', i < j
       PROVE  cmds'[i].frame < cmds'[j].frame
  <2>1. i \in Nat /\ j \in Nat
    BY <1>5, <1>12
  <2>2. CASE j <= Len(cmds)
    <3>1. i <= Len(cmds)
      BY <1>4, <1>12, <2>1, <2>2
    <3>2. Sends(i, t) /\ Sends(j, t) /\ cmds'[i] = cmds[i] /\ cmds'[j] = cmds[j]
      BY <1>6, <1>12, <2>2, <3>1
    <3> QED BY <1>3, <1>12, <3>2 DEF Ordered
  <2>3. CASE i <= Len(cmds) /\ ~(j <= Len(cmds))
    <3>1. Sends(i, t) /\ cmds'[i] = cmds[i]
      BY <1>6, <1>12, <2>3
    <3>2. PICK k : SendsIn(s, k, t) /\ cmds'[j] = s[k]
      BY <1>7, <1>12, <2>3
    <3>3. Floor(t) < s[k].frame /\ s[k].frame \in Nat
      BY <1>9, <3>2
    <3>4. cmds[i].frame <= Floor(t) /\ cmds[i].frame \in Nat
      BY <1>8, <3>1
    <3> QED BY <1>1, <3>1, <3>2, <3>3, <3>4
  <2>4. CASE ~(i <= Len(cmds))
    <3>1. ~(j <= Len(cmds)) /\ i - Len(cmds) < j - Len(cmds)
      BY <1>4, <1>12, <2>1, <2>4
    <3>2. SendsIn(s, i - Len(cmds), t) /\ cmds'[i] = s[i - Len(cmds)]
      BY <1>7, <1>12, <2>4
    <3>3. SendsIn(s, j - Len(cmds), t) /\ cmds'[j] = s[j - Len(cmds)]
      BY <1>7, <1>12, <3>1
    <3> QED BY <3>1, <3>2, <3>3
  <2> QED BY <2>2, <2>3, <2>4
<1>13. /\ \A i \in 1..Len(published[t]) : published[t][i] <= Floor(t)'
       /\ \A n \in failed[t] : n <= Floor(t)'
  BY <1>1, <1>2, <1>10
<1>14. \A i, j \in 1..Len(published[t]) : i < j => published[t][i] < published[t][j]
  BY <1>3 DEF Ordered
<1> QED BY <1>11, <1>12, <1>13, <1>14 DEF Ordered

\* The first command is a publish: gossipsub takes its frame after all it has
\* taken or refused, and before all that are still in the channel.
LEMMA FirstSends ==
  ASSUME OrderInv, SwarmPublish, NEW t, t = Head(cmds).topic
  PROVE  /\ t \in Topics /\ Head(cmds).frame \in Nat /\ Head(cmds).frame <= Floor(t)
         /\ \A i \in 1..Len(published[t]) : published[t][i] < Head(cmds).frame
         /\ \A n \in failed[t] : n < Head(cmds).frame
         /\ \A j : Sends(j, t)' => /\ Head(cmds).frame < cmds'[j].frame
                                   /\ Sends(j + 1, t) /\ cmds'[j] = cmds[j + 1]
<1>1. /\ cmds \in Seq(Cmds) /\ cmds # <<>> /\ cmds' = Tail(cmds)
      /\ Head(cmds).cmd = "publish"
  BY DEF SwarmPublish, OrderInv, OutboxInv, TypeInv, OutTypes
<1>2. /\ Head(cmds) = cmds[1] /\ Head(cmds) \in Cmds
      /\ Len(cmds) \in Nat /\ Len(cmds) >= 1 /\ Len(cmds') = Len(cmds) - 1
      /\ \A j \in 1..Len(cmds') : cmds'[j] = cmds[j + 1]
  BY <1>1, HeadTail
<1>3. t \in Topics /\ Head(cmds).frame \in Nat /\ Sends(1, t)
  BY <1>1, <1>2, CommandFields DEF Sends
<1>4. \A j : Sends(j, t)' => Sends(j + 1, t) /\ cmds'[j] = cmds[j + 1] /\ 1 < j + 1
  BY <1>2 DEF Sends
<1>5. Ordered(t)
  BY <1>3 DEF OrderInv
<1>6. /\ cmds[1].frame <= Floor(t)
      /\ \A i \in 1..Len(published[t]) : published[t][i] < cmds[1].frame
      /\ \A n \in failed[t] : n < cmds[1].frame
  BY <1>3, <1>5 DEF Ordered
<1>7. \A j : Sends(j, t)' => cmds[1].frame < cmds'[j].frame
  BY <1>3, <1>4, <1>5 DEF Ordered
<1> QED BY <1>2, <1>3, <1>4, <1>6, <1>7

LEMMA OrderPublish ==
  ASSUME OrderInv, OutboxInv', SwarmPublish, NEW x \in Topics
  PROVE  Ordered(x)'
<1> DEFINE t == Head(cmds).topic
           n == Head(cmds).frame
<1>1. /\ cmds # <<>> /\ cmds' = Tail(cmds) /\ UNCHANGED <<sent, pending>>
      /\ \/ published' = [published EXCEPT ![t] = Append(@, n)] /\ failed' = failed
         \/ failed' = [failed EXCEPT ![t] = @ \cup {n}] /\ published' = published
  BY DEF SwarmPublish, tab
<1>2. \A y \in Topics : Floor(y)' = Floor(y) /\ Floor(y) \in Nat
  BY <1>1, OrderTypes DEF Floor, OrderInv
<1>3. CASE x # t
  <2>1. published'[x] = published[x] /\ failed'[x] = failed[x]
    BY <1>1, <1>3 DEF OrderInv, OutboxInv, TypeInv, OutTypes
  <2> QED BY <1>1, <1>2, <2>1, OrderFewer
<1>4. CASE x = t
  <2> HIDE DEF n, t
  <2>1. /\ n \in Nat /\ n <= Floor(x)
        /\ \A i \in 1..Len(published[x]) : published[x][i] < n
        /\ \A m \in failed[x] : m < n
        /\ \A j : Sends(j, x)' => /\ n < cmds'[j].frame
                                  /\ Sends(j + 1, x) /\ cmds'[j] = cmds[j + 1]
    BY <1>4, FirstSends DEF n, t
  <2>2. Ordered(x)
    BY DEF OrderInv
  <2>3. \A j : Sends(j, x)' => cmds'[j].frame <= Floor(x)'
    BY <1>2, <2>1, <2>2 DEF Ordered
  <2>4. /\ \A i \in 1..Len(published[x]) : \A j : Sends(j, x)' => published[x][i] < cmds'[j].frame
        /\ \A m \in failed[x] : \A j : Sends(j, x)' => m < cmds'[j].frame
    BY <2>1, <2>2 DEF Ordered
  <2>5. ASSUME NEW i, NEW j, Sends(i, x)', Sends(j, x)', i < j
        PROVE  cmds'[i].frame < cmds'[j].frame
    <3>1. i \in Int /\ j \in Int
      BY <2>5 DEF Sends
    <3>2. i + 1 < j + 1
      BY <2>5, <3>1
    <3> QED BY <2>1, <2>2, <2>5, <3>2 DEF Ordered
  <2>6. published[x] \in Seq(Nat)
    BY OrderTypes DEF OrderInv
  <2>7. CASE published'[x] = Append(published[x], n) /\ failed'[x] = failed[x]
    <3>1. /\ Len(published'[x]) = Len(published[x]) + 1
          /\ \A i \in 1..Len(published[x]) : published'[x][i] = published[x][i]
          /\ published'[x][Len(published[x]) + 1] = n
          /\ Len(published[x]) \in Nat
      BY <2>1, <2>6, <2>7, AppendFacts
    <3>2. \A i \in 1..Len(published'[x]) : i \in 1..Len(published[x]) \/ i = Len(published[x]) + 1
      BY <3>1
    <3>3. \A i \in 1..Len(published'[x]) : published'[x][i] <= Floor(x)'
      BY <1>2, <2>1, <2>2, <3>1, <3>2 DEF Ordered
    <3>4. \A i \in 1..Len(published'[x]) : \A j : Sends(j, x)' => published'[x][i] < cmds'[j].frame
      BY <2>1, <2>4, <3>1, <3>2
    <3>5. ASSUME NEW i \in 1..Len(published'[x]), NEW j \in 1..Len(published'[x]), i < j
          PROVE  published'[x][i] < published'[x][j]
      <4>1. i \in 1..Len(published[x])
        BY <3>1, <3>5
      <4>2. CASE j \in 1..Len(published[x])
        BY <2>2, <3>1, <3>5, <4>1, <4>2 DEF Ordered
      <4>3. CASE j = Len(published[x]) + 1
        BY <2>1, <3>1, <4>1, <4>3
      <4> QED BY <3>2, <4>2, <4>3
    <3>6. \A m \in failed'[x] : m <= Floor(x)'
      BY <1>2, <2>2, <2>7 DEF Ordered
    <3> QED BY <2>3, <2>4, <2>5, <2>7, <3>3, <3>4, <3>5, <3>6 DEF Ordered
  <2>8. CASE published'[x] = published[x] /\ failed'[x] = failed[x] \cup {n}
    <3>1. \A m \in failed'[x] : m <= Floor(x)' /\ \A j : Sends(j, x)' => m < cmds'[j].frame
      BY <1>2, <2>1, <2>2, <2>4, <2>8 DEF Ordered
    <3>2. \A i \in 1..Len(published[x]) : published[x][i] <= Floor(x)'
      BY <1>2, <2>2 DEF Ordered
    <3>3. \A i, j \in 1..Len(published[x]) : i < j => published[x][i] < published[x][j]
      BY <2>2 DEF Ordered
    <3> QED BY <2>3, <2>4, <2>5, <2>8, <3>1, <3>2, <3>3 DEF Ordered
  <2> QED BY <1>1, <1>4, <2>7, <2>8 DEF OrderInv, OutboxInv, TypeInv, OutTypes
<1> QED BY <1>3, <1>4

LEMMA AppendIsConcat ==
  ASSUME NEW S, NEW q \in Seq(S), NEW x \in S
  PROVE  /\ Append(q, x) = q \o <<x>> /\ <<x>> \in Seq(S)
         /\ Len(<<x>>) = 1 /\ <<x>>[1] = x
OBVIOUS

\* A frame that goes into the outbox leaves every order as it is.
LEMMA OrderQueue ==
  ASSUME OrderInv, OutboxInv', NEW t \in Topics,
         sent' = [sent EXCEPT ![t] = sent[t] + 1],
         pending' = [pending EXCEPT ![t] = Enqueued(pending[t], sent[t] + 1)],
         UNCHANGED <<cmds, published, failed>>, NEW x \in Topics
  PROVE  Ordered(x)'
<1>1. /\ Floor(t)' = IF Len(pending[t]) = Cap THEN Floor(t) + 1 ELSE Floor(t)
      /\ \A y \in Topics \ {t} : Floor(y)' = Floor(y)
  BY QueueOne DEF OrderInv, OutboxInv, TypeInv, OutboxSound
<1>2. \A y \in Topics : Floor(y) \in Nat
  BY OrderTypes DEF OrderInv
<1>3. Floor(x)' >= Floor(x)
  BY <1>1, <1>2
<1> QED BY <1>3, OrderFewer

LEMMA OrderSend ==
  ASSUME OrderInv, OutboxInv', NEW t \in Topics, Send(t), call = None,
         UNCHANGED <<published, failed>>, NEW x \in Topics
  PROVE  Ordered(x)'
<1>1. sent' = [sent EXCEPT ![t] = sent[t] + 1] /\ sent[t] \in Nat
  BY DEF Send, OrderInv, OutboxInv, TypeInv, OutTypes
<1>2. CASE topicPeers[t] = {}
  <2>1. /\ pending' = [pending EXCEPT ![t] = Enqueued(pending[t], sent[t] + 1)]
        /\ UNCHANGED cmds
    BY <1>2 DEF Send
  <2> QED BY <1>1, <2>1, OrderQueue
<1>3. CASE topicPeers[t] # {}
  <2> DEFINE c == Publish(t, sent[t] + 1)
  <2>1. cmds' = Append(cmds, c) /\ pending' = pending
    BY <1>3 DEF Send
  <2>2. pending[t] = <<>>
    BY <1>3 DEF OrderInv, OutboxInv, OutboxSound, MeshedMeansFlushed
  <2>3. Floor(t) = sent[t] /\ Floor(t)' = sent[t] + 1
    <3>1. sent'[t] = sent[t] + 1 /\ Len(pending[t]) = 0 /\ Len(pending'[t]) = 0
      BY <1>1, <2>1, <2>2 DEF OrderInv, OutboxInv, TypeInv, OutTypes
    <3> QED BY <1>1, <3>1 DEF Floor
  <2>4. \A y \in Topics \ {t} : Floor(y)' = Floor(y)
    BY <1>1, <2>1 DEF Floor, OrderInv, OutboxInv, TypeInv, OutTypes
  <2>5. c \in Cmds /\ c.cmd = "publish" /\ c.topic = t /\ c.frame = sent[t] + 1
    BY <1>1, CommandTypes, PublishFields
  <2> HIDE DEF c
  <2>6. cmds' = cmds \o <<c>> /\ <<c>> \in Seq(Cmds) /\ Len(<<c>>) = 1 /\ <<c>>[1] = c
    BY <2>1, <2>5, AppendIsConcat DEF OrderInv, OutboxInv, TypeInv, OutTypes
  <2>7. Floor(x)' >= Floor(x) /\ published'[x] = published[x] /\ failed'[x] = failed[x]
    BY <1>1, <2>3, <2>4, OrderTypes DEF OrderInv
  <2>8. \A k : SendsIn(<<c>>, k, x) => k = 1 /\ x = t /\ <<c>>[k].frame = sent[t] + 1
    BY <2>5, <2>6 DEF SendsIn
  <2>9. \A k : SendsIn(<<c>>, k, x) => /\ Floor(x) < <<c>>[k].frame
                                       /\ <<c>>[k].frame <= Floor(x)'
    BY <1>1, <2>3, <2>8
  <2>10. \A k, l : SendsIn(<<c>>, k, x) /\ SendsIn(<<c>>, l, x) /\ k < l
                     => <<c>>[k].frame < <<c>>[l].frame
    BY <2>8
  <2> QED BY <2>6, <2>7, <2>9, <2>10, OrderMore
<1> QED BY <1>2, <1>3

LEMMA OrderSubscribe ==
  ASSUME OrderInv, OutboxInv', NEW t \in Topics, cmds' = Append(cmds, Subscribe(t)),
         UNCHANGED <<sent, pending, published, failed>>, NEW x \in Topics
  PROVE  Ordered(x)'
<1> DEFINE c == Subscribe(t)
<1>1. c \in Cmds /\ c.cmd # "publish"
  BY CommandTypes, PublishFields
<1> HIDE DEF c
<1>2. cmds' = cmds \o <<c>> /\ <<c>> \in Seq(Cmds) /\ Len(<<c>>) = 1 /\ <<c>>[1] = c
  BY <1>1, AppendIsConcat DEF c, OrderInv, OutboxInv, TypeInv, OutTypes
<1>3. \A k : ~SendsIn(<<c>>, k, x)
  BY <1>1, <1>2 DEF SendsIn
<1>4. Floor(x)' = Floor(x) /\ Floor(x) \in Nat
  BY OrderTypes DEF Floor, OrderInv
<1>5. Floor(x)' >= Floor(x) /\ published'[x] = published[x] /\ failed'[x] = failed[x]
  BY <1>4
<1>6. \A k : SendsIn(<<c>>, k, x) => Floor(x) < <<c>>[k].frame /\ <<c>>[k].frame <= Floor(x)'
  BY <1>3
<1>7. \A k, l : SendsIn(<<c>>, k, x) /\ SendsIn(<<c>>, l, x) /\ k < l
                 => <<c>>[k].frame < <<c>>[l].frame
  BY <1>3
<1> QED BY <1>2, <1>5, <1>6, <1>7, OrderMore

LEMMA OrderFlush ==
  ASSUME OrderInv, OutboxInv', NEW t \in Topics, FlushTopic(t), NEW x \in Topics
  PROVE  Ordered(x)'
<1>1. /\ cmds' = cmds \o Flushed(t) /\ pending' = [pending EXCEPT ![t] = <<>>]
      /\ UNCHANGED <<sent, published, failed>>
  BY DEF FlushTopic, Flushed, outHistory
<1>2. pending[t] \in Seq(Nat) /\ sent[t] \in Nat
  BY DEF OrderInv, OutboxInv, TypeInv, OutTypes
<1>3. /\ Flushed(t) \in Seq(Cmds) /\ Len(Flushed(t)) = Len(pending[t])
      /\ \A i \in 1..Len(pending[t]) : Flushed(t)[i] = Publish(t, pending[t][i])
  BY <1>2, FlushedFacts
<1>4. /\ Floor(t) \in Nat /\ Floor(t) <= sent[t] /\ Floor(t) + Len(pending[t]) = sent[t]
      /\ \A i \in 1..Len(pending[t]) : pending[t][i] = Floor(t) + i
  BY <1>2, FloorType DEF OrderInv, OutboxInv, TypeInv, OutboxSound, Floor
<1>5. Floor(t)' = sent[t]
  <2>1. sent'[t] = sent[t] /\ Len(pending'[t]) = 0
    BY <1>1 DEF OrderInv, OutboxInv, TypeInv, OutTypes
  <2> QED BY <1>2, <2>1 DEF Floor
<1>6. \A y \in Topics \ {t} : Floor(y)' = Floor(y)
  BY <1>1 DEF Floor, OrderInv, OutboxInv, TypeInv, OutTypes
<1>7. \A k : SendsIn(Flushed(t), k, x) =>
        k \in 1..Len(pending[t]) /\ x = t /\ Flushed(t)[k].frame = Floor(t) + k
  BY <1>3, <1>4, PublishFields DEF SendsIn
<1>8. Floor(x)' >= Floor(x) /\ published'[x] = published[x] /\ failed'[x] = failed[x]
  BY <1>1, <1>2, <1>4, <1>5, <1>6, OrderTypes DEF OrderInv
<1>9. \A k : SendsIn(Flushed(t), k, x) => /\ Floor(x) < Flushed(t)[k].frame
                                          /\ Flushed(t)[k].frame <= Floor(x)'
  BY <1>2, <1>4, <1>5, <1>7
<1>10. \A k, l : SendsIn(Flushed(t), k, x) /\ SendsIn(Flushed(t), l, x) /\ k < l
                   => Flushed(t)[k].frame < Flushed(t)[l].frame
  BY <1>4, <1>7
<1> QED BY <1>1, <1>3, <1>8, <1>9, <1>10, OrderMore

LEMMA OrderQuiet ==
  ASSUME OrderInv, OutboxInv', cmds' = cmds, sent' = sent, pending' = pending,
         published' = published, failed' = failed, NEW x \in Topics
  PROVE  Ordered(x)'
<1>1. Floor(x)' = Floor(x) /\ Floor(x) \in Nat
  BY OrderTypes DEF Floor, OrderInv
<1> QED BY <1>1, OrderFewer

LEMMA OrderInit ==
  ASSUME Init
  PROVE  OrderInv
<1>1. /\ cmds = <<>> /\ \A t \in Topics : published[t] = <<>> /\ failed[t] = {}
  BY DEF Init
<1>2. \A t \in Topics : Ordered(t)
  BY <1>1 DEF Ordered, Sends
<1> QED BY <1>2, OutboxInit DEF OrderInv

LEMMA OrderStep ==
  ASSUME OrderInv, [Next]_vars
  PROVE  OrderInv'
<1>1. OutboxInv'
  BY OutboxStep DEF OrderInv
<1> SUFFICES ASSUME NEW x \in Topics
             PROVE  Ordered(x)'
  BY <1>1 DEF OrderInv
<1>2. ASSUME SwarmSubscribe
      PROVE  Ordered(x)'
  <2>1. /\ cmds # <<>> /\ cmds' = Tail(cmds)
        /\ UNCHANGED <<sent, pending, published, failed>>
    BY <1>2 DEF SwarmSubscribe, tab, outHistory
  <2>2. Floor(x)' = Floor(x) /\ Floor(x) \in Nat
    BY <2>1, OrderTypes DEF Floor, OrderInv
  <2> QED BY <1>1, <2>1, <2>2, OrderFewer
<1>3. ASSUME NEW t \in HostTopics, PublishOpaque(t)
      PROVE  Ordered(x)'
  BY <1>1, <1>3, OrderSend, TopicNames DEF PublishOpaque
<1>4. ASSUME NEW t \in HostTopics, SubscribeOpaque(t)
      PROVE  Ordered(x)'
  BY <1>1, <1>4, OrderSubscribe, TopicNames DEF SubscribeOpaque, tab, outHistory
<1>5. CASE PublishChat
  BY <1>1, <1>5, OrderSend, TopicNames DEF PublishChat
<1>6. CASE RepublishBindings
  BY <1>1, <1>6, OrderSend, TopicNames DEF RepublishBindings
<1>7. CASE InitNet
  <2>1. UNCHANGED <<cmds, published, failed>>
    BY <1>7 DEF InitNet
  <2>2. CASE UNCHANGED <<sent, pending>>
    BY <1>1, <2>1, <2>2, OrderQuiet
  <2>3. CASE /\ sent' = [sent EXCEPT ![Identity] = sent[Identity] + 1]
             /\ pending' = [pending EXCEPT ![Identity] =
                              Enqueued(pending[Identity], sent[Identity] + 1)]
    BY <1>1, <2>1, <2>3, OrderQueue, TopicNames
  <2> QED BY <1>7, <2>2, <2>3 DEF InitNet
<1>8. ASSUME NEW c \in HostTopics \cup {Poll}, StartDrain(c)
      PROVE  Ordered(x)'
  BY <1>1, <1>8, OrderQuiet DEF StartDrain, tab, outHistory
<1>9. CASE SwarmPublish
  BY <1>1, <1>9, OrderPublish
<1>10. CASE Swarming /\ ~SwarmPublish /\ ~SwarmSubscribe
  BY <1>1, <1>10, OrderQuiet
     DEF Swarming, Connect, DialFails, Disconnect, PeerJoins, PeerLeaves, MessageArrives,
         SwarmEvent, tab, outHistory
<1>11. ASSUME NEW t \in Topics, FlushTopic(t)
       PROVE  Ordered(x)'
  BY <1>1, <1>11, OrderFlush
<1>12. ASSUME NEW k, NextEvent(k)
       PROVE  Ordered(x)'
  BY <1>1, <1>12, OrderQuiet DEF NextEvent, outHistory
<1>13. CASE ReturnPending \/ ReturnFrames
  BY <1>1, <1>13, OrderQuiet DEF ReturnPending, ReturnFrames, tab, outHistory
<1>14. CASE Draining
  BY <1>11, <1>12, <1>13, <1>14
     DEF Draining, DrainJoined, DrainLeft, DrainPeerDown, DrainChat, DrainIdentity,
         DrainOpaque, DrainError
<1>15. CASE UNCHANGED vars
  BY <1>1, <1>15, OrderQuiet DEF vars
<1> QED BY <1>2, <1>3, <1>4, <1>5, <1>6, <1>7, <1>8, <1>9, <1>10, <1>14, <1>15 DEF Next

\* Through any number of joins, losses of the mesh, overflows and flushes,
\* gossipsub gets a topic's frames in the order they were sent (publish_inner
\* and flush_pending_for in wasm.rs, the command arm in crates/net/src/swarm.rs).
THEOREM OrderKept == Spec => []SentOrderKept
<1>1. Init => OrderInv
  BY OrderInit
<1>2. OrderInv /\ [Next]_vars => OrderInv'
  BY OrderStep
<1>3. OrderInv => SentOrderKept
  <2>1. OrderInv => \A t \in Topics : DOMAIN published[t] = 1..Len(published[t])
    BY DEF OrderInv, OutboxInv, TypeInv, OutTypes
  <2> QED BY <2>1 DEF OrderInv, Ordered, SentOrderKept
<1> QED BY <1>1, <1>2, <1>3, PTL DEF Spec

-----------------------------------------------------------------------------
(* What becomes of a frame *)

LEMMA RangeElements ==
  ASSUME NEW S, NEW q \in Seq(S)
  PROVE  \A e : e \in Range(q) <=> \E i \in 1..Len(q) : q[i] = e
<1>1. DOMAIN q = 1..Len(q)
  OBVIOUS
<1> QED BY <1>1 DEF Range

LEMMA RangeEmpty == \A e : e \notin Range(<<>>)
BY DEF Range

LEMMA RangeAppend ==
  ASSUME NEW S, NEW q \in Seq(S), NEW x \in S, NEW e
  PROVE  (e \in Range(q) \/ e = x) <=> e \in Range(Append(q, x))
<1> DEFINE a == Append(q, x)
<1>1. /\ a \in Seq(S) /\ Len(a) = Len(q) + 1 /\ Len(q) \in Nat
      /\ \A i \in 1..Len(q) : a[i] = q[i]
      /\ a[Len(q) + 1] = x
  BY AppendFacts
<1> HIDE DEF a
<1>2. \A i \in 1..Len(a) : i \in 1..Len(q) \/ i = Len(q) + 1
  BY <1>1
<1>3. \A f : f \in Range(q) <=> \E i \in 1..Len(q) : q[i] = f
  BY RangeElements
<1>4. \A f : f \in Range(a) <=> \E i \in 1..Len(a) : a[i] = f
  BY <1>1, RangeElements
<1>5. Len(q) + 1 \in 1..Len(a) /\ 1..Len(q) \subseteq 1..Len(a)
  BY <1>1
<1>6. e \in Range(q) => e \in Range(a)
  BY <1>1, <1>3, <1>4, <1>5
<1>7. x \in Range(a)
  BY <1>1, <1>4, <1>5
<1>8. e \in Range(a) => e \in Range(q) \/ e = x
  BY <1>1, <1>2, <1>3, <1>4
<1> QED BY <1>6, <1>7, <1>8 DEF a

LEMMA RangeTail ==
  ASSUME NEW S, NEW q \in Seq(S), q # <<>>, NEW e
  PROVE  e \in Range(q) => e = Head(q) \/ e \in Range(Tail(q))
<1>1. /\ Tail(q) \in Seq(S) /\ Head(q) = q[1] /\ Len(Tail(q)) = Len(q) - 1
      /\ \A i \in 1..(Len(q) - 1) : Tail(q)[i] = q[i + 1]
      /\ Len(q) \in Nat
  BY HeadTail
<1>2. \A f : f \in Range(q) <=> \E i \in 1..Len(q) : q[i] = f
  BY RangeElements
<1>3. \A f : f \in Range(Tail(q)) <=> \E i \in 1..Len(Tail(q)) : Tail(q)[i] = f
  BY <1>1, RangeElements
<1>4. ASSUME NEW i \in 1..Len(q), q[i] = e, i # 1
      PROVE  e \in Range(Tail(q))
  <2>1. i - 1 \in 1..Len(Tail(q)) /\ i - 1 \in 1..(Len(q) - 1) /\ (i - 1) + 1 = i
    BY <1>1, <1>4
  <2>2. Tail(q)[i - 1] = e
    BY <1>1, <1>4, <2>1
  <2> QED BY <1>3, <2>1, <2>2
<1> QED BY <1>1, <1>2, <1>4

\* A refusal that was reported stays so: its event goes from the buffer to the
\* batch, and from there to the error pipeline.
LEMMA ReportStays ==
  ASSUME OutboxInv, [Next]_vars, NEW t \in Topics, NEW n \in Nat, Reported(t, n)
  PROVE  Reported(t, n)'
<1> DEFINE e == Event("error", t, None, n)
<1>1. e.kind = "error" /\ e.topic = t /\ e.frame = n
  BY EventFields
<1>2. batch \in Seq(Shaped) /\ events \in Seq(Shaped)
  BY DEF OutboxInv, TypeInv, OutTypes
<1> HIDE DEF e
<1>3. n \in reported[t] \/ e \in Range(batch) \/ e \in Range(events)
  BY DEF Reported, e
<1>4. ASSUME n \in reported'[t] \/ e \in Range(batch') \/ e \in Range(events')
      PROVE  Reported(t, n)'
  BY <1>4 DEF Reported, e
<1>5. CASE batch' = batch /\ events' = events /\ reported' = reported
  BY <1>3, <1>4, <1>5
<1>6. ASSUME NEW x \in Shaped, batch' = batch, events' = Append(events, x), reported' = reported
      PROVE  Reported(t, n)'
  BY <1>2, <1>3, <1>4, <1>6, RangeAppend
<1>7. ASSUME NEW c, StartDrain(c)
      PROVE  Reported(t, n)'
  <2>1. batch = <<>> /\ batch' = events /\ reported' = reported
    BY <1>7 DEF StartDrain, OutboxInv, IdleInv
  <2>2. e \notin Range(batch)
    BY <2>1, RangeEmpty
  <2> QED BY <1>3, <1>4, <2>1, <2>2
<1>8. ASSUME NEW k, NextEvent(k), k # "error", reported' = reported
      PROVE  Reported(t, n)'
  <2>1. /\ batch # <<>> /\ Head(batch).kind = k /\ batch' = Tail(batch) /\ events' = events
    BY <1>8 DEF NextEvent
  <2>2. e # Head(batch)
    BY <1>1, <1>8, <2>1
  <2> QED BY <1>2, <1>3, <1>4, <1>8, <2>1, <2>2, RangeTail
<1>9. CASE DrainError
  <2>1. /\ batch # <<>> /\ batch' = Tail(batch) /\ events' = events
        /\ reported' = [reported EXCEPT ![Head(batch).topic] = @ \cup {Head(batch).frame}]
    BY <1>9 DEF DrainError, NextEvent
  <2>2. e = Head(batch) => n \in reported'[t]
    BY <1>1, <2>1 DEF OutboxInv, TypeInv, OutTypes
  <2>3. n \in reported[t] => n \in reported'[t]
    BY <2>1 DEF OutboxInv, TypeInv, OutTypes
  <2> QED BY <1>2, <1>3, <1>4, <2>1, <2>2, <2>3, RangeTail
<1>10. CASE SwarmPublish
  <2>1. Head(cmds).topic \in Topics /\ Head(cmds).frame \in Nat
    BY <1>10, HeadTail, CommandFields DEF SwarmPublish, OutboxInv, TypeInv, OutTypes
  <2>2. Event("error", Head(cmds).topic, None, Head(cmds).frame) \in Shaped
    BY <2>1, EventShaped
  <2> QED BY <1>5, <1>6, <1>10, <2>2 DEF SwarmPublish
<1>11. ASSUME NEW x \in Shaped, SwarmEvent(x)
       PROVE  Reported(t, n)'
  BY <1>6, <1>11 DEF SwarmEvent
<1>12. CASE Swarming
  <2>1. CASE SwarmSubscribe \/ \E p \in Peers : Connect(p) \/ DialFails(p)
    BY <1>5, <2>1 DEF SwarmSubscribe, Connect, DialFails
  <2>2. ASSUME NEW p \in Peers, Disconnect(p)
        PROVE  Reported(t, n)'
    BY <1>11, <2>2, EventShaped DEF Disconnect
  <2>3. ASSUME NEW p \in Peers, NEW y \in Topics, PeerJoins(p, y) \/ PeerLeaves(p, y)
        PROVE  Reported(t, n)'
    BY <1>11, <2>3, EventShaped DEF PeerJoins, PeerLeaves
  <2>4. ASSUME NEW y \in Topics, NEW r \in Remotes \cup {Self}, MessageArrives(y, r)
        PROVE  Reported(t, n)'
    <3>1. arrived[y] + 1 \in Nat
      BY DEF OutboxInv, TypeInv, InTypes
    <3> QED BY <1>11, <2>4, <3>1, EventShaped DEF MessageArrives
  <2> QED BY <1>10, <1>12, <2>1, <2>2, <2>3, <2>4 DEF Swarming
<1>13. CASE \/ \E y \in HostTopics : PublishOpaque(y) \/ SubscribeOpaque(y)
            \/ PublishChat \/ RepublishBindings \/ InitNet
  BY <1>5, <1>13 DEF PublishOpaque, SubscribeOpaque, PublishChat, RepublishBindings, InitNet
<1>14. CASE (\E y \in Topics : FlushTopic(y)) \/ ReturnPending \/ ReturnFrames
  BY <1>5, <1>14 DEF FlushTopic, ReturnPending, ReturnFrames
<1>15. CASE DrainJoined \/ DrainLeft \/ DrainPeerDown \/ DrainChat \/ DrainIdentity \/ DrainOpaque
  <2>1. reported' = reported
    BY <1>15 DEF DrainJoined, DrainLeft, DrainPeerDown, DrainChat, DrainIdentity, DrainOpaque
  <2>2. NextEvent("joined") \/ NextEvent("left") \/ NextEvent("down") \/ NextEvent("message")
    BY <1>15 DEF DrainJoined, DrainLeft, DrainPeerDown, DrainChat, DrainIdentity, DrainOpaque
  <2> QED BY <1>8, <2>1, <2>2
<1>16. CASE UNCHANGED vars
  BY <1>5, <1>16 DEF vars
<1> QED BY <1>7, <1>9, <1>12, <1>13, <1>14, <1>15, <1>16 DEF Next, Draining
\* The frame is in the command channel.
OnItsWay(t, n) == \E j : Sends(j, t) /\ cmds[j].frame = n

\* What can have become of a frame that has left the outbox.
Settled(t, n) ==
  \/ n \in Range(published[t])
  \/ OnItsWay(t, n)
  \/ n \in failed[t] /\ Reported(t, n)
  \/ n + Cap <= sent[t] /\ n \notin failed[t]

KeptInv == OrderInv /\ \A t \in Topics : \A n \in 1..Floor(t) : Settled(t, n)

LEMMA WayConcat ==
  ASSUME OrderInv, NEW s \in Seq(Cmds), cmds' = cmds \o s, NEW t, NEW n,
         \/ OnItsWay(t, n)
         \/ \E k : SendsIn(s, k, t) /\ s[k].frame = n
  PROVE  OnItsWay(t, n)'
<1>1. /\ Len(cmds) \in Nat /\ Len(s) \in Nat /\ Len(cmds') = Len(cmds) + Len(s)
      /\ \A j \in 1..Len(cmds) : cmds'[j] = cmds[j]
      /\ \A j \in (Len(cmds) + 1)..(Len(cmds) + Len(s)) : cmds'[j] = s[j - Len(cmds)]
  BY ConcatFacts DEF OrderInv, OutboxInv, TypeInv, OutTypes
<1>2. CASE OnItsWay(t, n)
  <2>1. PICK j : Sends(j, t) /\ cmds[j].frame = n
    BY <1>2 DEF OnItsWay
  <2>2. j \in 1..Len(cmds) /\ j \in 1..Len(cmds') /\ cmds'[j] = cmds[j]
    BY <1>1, <2>1 DEF Sends
  <2>3. Sends(j, t)' /\ cmds'[j].frame = n
    BY <2>1, <2>2 DEF Sends
  <2> QED BY <2>3 DEF OnItsWay
<1>3. ASSUME NEW k, SendsIn(s, k, t), s[k].frame = n
      PROVE  OnItsWay(t, n)'
  <2>1. PICK j \in (Len(cmds) + 1)..(Len(cmds) + Len(s)) :
          j \in 1..Len(cmds') /\ j - Len(cmds) = k
    BY <1>1, <1>3 DEF SendsIn
  <2>2. cmds'[j] = s[k]
    BY <1>1, <2>1
  <2>3. Sends(j, t)' /\ cmds'[j].frame = n
    BY <1>3, <2>1, <2>2 DEF Sends, SendsIn
  <2> QED BY <2>3 DEF OnItsWay
<1> QED BY <1>2, <1>3

LEMMA WayTail ==
  ASSUME OrderInv, cmds # <<>>, cmds' = Tail(cmds), NEW t, NEW n, OnItsWay(t, n),
         ~(Head(cmds).cmd = "publish" /\ Head(cmds).topic = t /\ Head(cmds).frame = n)
  PROVE  OnItsWay(t, n)'
<1>1. /\ Head(cmds) = cmds[1] /\ Len(cmds) \in Nat /\ Len(cmds') = Len(cmds) - 1
      /\ \A i \in 1..(Len(cmds) - 1) : cmds'[i] = cmds[i + 1]
  BY HeadTail DEF OrderInv, OutboxInv, TypeInv, OutTypes
<1>2. PICK j : Sends(j, t) /\ cmds[j].frame = n
  BY DEF OnItsWay
<1>3. j # 1 /\ j \in 1..Len(cmds)
  BY <1>1, <1>2 DEF Sends
<1> DEFINE i == j - 1
<1>4. i \in 1..(Len(cmds) - 1) /\ i \in 1..Len(cmds') /\ i + 1 = j
  BY <1>1, <1>3
<1> HIDE DEF i
<1>5. cmds'[i] = cmds[j]
  BY <1>1, <1>4
<1>6. Sends(i, t)' /\ cmds'[i].frame = n
  BY <1>2, <1>4, <1>5 DEF Sends
<1> QED BY <1>6 DEF OnItsWay

\* A step of the tab's own side: gossipsub neither takes nor refuses a frame.
LEMMA SettledQuiet ==
  ASSUME OrderInv, [Next]_vars, NEW t \in Topics, NEW n \in Nat, Settled(t, n),
         published'[t] = published[t], failed'[t] = failed[t],
         sent'[t] \in Nat, sent'[t] >= sent[t],
         OnItsWay(t, n) => OnItsWay(t, n)'
  PROVE  Settled(t, n)'
<1>1. sent[t] \in Nat /\ Cap \in Nat
  BY CapAssumption DEF OrderInv, OutboxInv, TypeInv, OutTypes
<1>2. Reported(t, n) => Reported(t, n)'
  BY ReportStays DEF OrderInv
<1>3. n + Cap <= sent[t] => n + Cap <= sent'[t]
  BY <1>1
<1> QED BY <1>2, <1>3 DEF Settled

LEMMA SettledPublish ==
  ASSUME OrderInv, SwarmPublish, NEW t \in Topics, NEW n \in Nat, Settled(t, n)
  PROVE  Settled(t, n)'
<1> DEFINE x == Head(cmds).topic
           m == Head(cmds).frame
           e == Event("error", x, None, m)
<1>1. /\ cmds \in Seq(Cmds) /\ events \in Seq(Shaped)
      /\ published \in [Topics -> Seq(Nat)] /\ failed \in [Topics -> SUBSET Nat]
      /\ sent \in [Topics -> Nat]
  BY DEF OrderInv, OutboxInv, TypeInv, OutTypes
<1>2. /\ cmds # <<>> /\ cmds' = Tail(cmds) /\ Head(cmds).cmd = "publish"
      /\ sent' = sent
      /\ \/ published' = [published EXCEPT ![x] = Append(@, m)] /\ failed' = failed
         \/ /\ failed' = [failed EXCEPT ![x] = @ \cup {m}] /\ published' = published
            /\ events' = Append(events, e)
  BY DEF SwarmPublish
<1>3. x \in Topics /\ m \in Nat /\ e \in Shaped
  BY <1>1, <1>2, HeadTail, CommandFields, EventShaped
<1>4. [Next]_vars
  BY DEF Next, Swarming
<1>5. Reported(t, n) => Reported(t, n)'
  BY <1>4, ReportStays DEF OrderInv
<1> HIDE DEF x, m, e
<1>6. OnItsWay(t, n) /\ ~(x = t /\ m = n) => OnItsWay(t, n)'
  BY <1>2, WayTail DEF x, m
<1>7. CASE published' = [published EXCEPT ![x] = Append(@, m)] /\ failed' = failed
  <2>1. CASE x = t
    <3>1. published'[t] = Append(published[t], m) /\ published[t] \in Seq(Nat)
      BY <1>1, <1>7, <2>1
    <3>2. n \in Range(published[t]) \/ n = m => n \in Range(published'[t])
      BY <1>3, <3>1, RangeAppend
    <3> QED BY <1>2, <1>5, <1>6, <1>7, <3>2 DEF Settled
  <2>2. CASE x # t
    <3>1. published'[t] = published[t]
      BY <1>1, <1>7, <2>2
    <3> QED BY <1>2, <1>5, <1>6, <1>7, <2>2, <3>1 DEF Settled
  <2> QED BY <2>1, <2>2
<1>8. CASE /\ failed' = [failed EXCEPT ![x] = @ \cup {m}] /\ published' = published
           /\ events' = Append(events, e)
  <2>1. CASE x = t /\ m = n
    <3>1. n \in failed'[t]
      BY <1>1, <1>8, <2>1
    <3>2. e \in Range(events')
      BY <1>1, <1>3, <1>8, RangeAppend
    <3>3. Reported(t, n)'
      BY <2>1, <3>2 DEF Reported, e
    <3> QED BY <3>1, <3>3 DEF Settled
  <2>2. CASE ~(x = t /\ m = n)
    <3>1. n \in failed'[t] <=> n \in failed[t]
      BY <1>1, <1>8, <2>2
    <3> QED BY <1>2, <1>5, <1>6, <1>8, <2>2, <3>1 DEF Settled
  <2> QED BY <2>1, <2>2
<1> QED BY <1>2, <1>7, <1>8

LEMMA KeptInit ==
  ASSUME Init
  PROVE  KeptInv
<1>1. \A t \in Topics : sent[t] = 0 /\ pending[t] = <<>>
  BY DEF Init
<1>2. \A t \in Topics : Floor(t) = 0
  BY <1>1 DEF Floor
<1> QED BY <1>2, OrderInit DEF KeptInv

\* A frame goes into a full outbox: the one it pushes out has Cap newer ones.
LEMMA KeptQueue ==
  ASSUME KeptInv, [Next]_vars, NEW t \in Topics,
         sent' = [sent EXCEPT ![t] = sent[t] + 1],
         pending' = [pending EXCEPT ![t] = Enqueued(pending[t], sent[t] + 1)],
         cmds' = cmds, published' = published, failed' = failed,
         NEW x \in Topics, NEW n \in 1..Floor(x)'
  PROVE  Settled(x, n)'
<1>1. /\ Floor(t)' = IF Len(pending[t]) = Cap THEN Floor(t) + 1 ELSE Floor(t)
      /\ \A y \in Topics \ {t} : Floor(y)' = Floor(y)
  <2>1. OutTypes'
    BY OrderStep DEF KeptInv, OrderInv, OutboxInv, TypeInv
  <2> QED BY <2>1, QueueOne DEF KeptInv, OrderInv, OutboxInv, TypeInv, OutboxSound
<1>2. Floor(x) \in Nat /\ failed[x] \subseteq Nat /\ n \in Nat
  BY <1>1, OrderTypes DEF KeptInv, OrderInv
<1>3. sent[x] \in Nat /\ sent'[x] \in Nat /\ sent'[x] >= sent[x] /\ sent'[t] = sent[t] + 1
  BY DEF KeptInv, OrderInv, OutboxInv, TypeInv, OutTypes
<1>4. CASE n \in 1..Floor(x)
  <2>1. Settled(x, n)
    BY <1>4 DEF KeptInv
  <2>2. OnItsWay(x, n) => OnItsWay(x, n)'
    BY DEF OnItsWay, Sends
  <2> QED BY <1>2, <1>3, <2>1, <2>2, SettledQuiet DEF KeptInv
<1>5. CASE ~(n \in 1..Floor(x))
  <2>1. x = t /\ Len(pending[t]) = Cap /\ n = Floor(t) + 1
    BY <1>1, <1>2, <1>5
  <2>2. n + Cap = sent'[t]
    BY <1>3, <2>1, CapAssumption DEF Floor
  <2>3. n \notin failed[t]
    BY <1>2, <2>1 DEF KeptInv, OrderInv, Ordered
  <2>4. n + Cap <= sent'[x] /\ n \notin failed'[x]
    BY <1>3, <2>1, <2>2, <2>3
  <2> QED BY <2>4 DEF Settled
<1> QED BY <1>4, <1>5

\* Commands join the channel, and with them every frame the floor passes.
LEMMA KeptMore ==
  ASSUME KeptInv, [Next]_vars, NEW s \in Seq(Cmds), cmds' = cmds \o s,
         published' = published, failed' = failed,
         NEW x \in Topics, sent'[x] \in Nat, sent'[x] >= sent[x],
         NEW n \in Nat,
         n \in 1..Floor(x) \/ \E k : SendsIn(s, k, x) /\ s[k].frame = n
  PROVE  Settled(x, n)'
<1>1. CASE n \in 1..Floor(x)
  <2>1. Settled(x, n)
    BY <1>1 DEF KeptInv
  <2>2. OnItsWay(x, n) => OnItsWay(x, n)'
    BY WayConcat DEF KeptInv
  <2> QED BY <2>1, <2>2, SettledQuiet DEF KeptInv
<1>2. CASE \E k : SendsIn(s, k, x) /\ s[k].frame = n
  <2>1. OnItsWay(x, n)'
    BY <1>2, WayConcat DEF KeptInv
  <2> QED BY <2>1 DEF Settled
<1> QED BY <1>1, <1>2

LEMMA KeptSend ==
  ASSUME KeptInv, [Next]_vars, NEW t \in Topics, Send(t), call = None,
         published' = published, failed' = failed,
         NEW x \in Topics, NEW n \in 1..Floor(x)'
  PROVE  Settled(x, n)'
<1>1. /\ sent' = [sent EXCEPT ![t] = sent[t] + 1] /\ sent[t] \in Nat
      /\ sent[x] \in Nat /\ sent'[x] \in Nat /\ sent'[x] >= sent[x]
  BY DEF Send, KeptInv, OrderInv, OutboxInv, TypeInv, OutTypes
<1>2. CASE topicPeers[t] = {}
  <2>1. /\ pending' = [pending EXCEPT ![t] = Enqueued(pending[t], sent[t] + 1)]
        /\ cmds' = cmds
    BY <1>2 DEF Send
  <2> QED BY <1>1, <2>1, KeptQueue
<1>3. CASE topicPeers[t] # {}
  <2> DEFINE c == Publish(t, sent[t] + 1)
  <2>1. cmds' = Append(cmds, c) /\ pending' = pending
    BY <1>3 DEF Send
  <2>2. pending[t] = <<>>
    BY <1>3 DEF KeptInv, OrderInv, OutboxInv, OutboxSound, MeshedMeansFlushed
  <2>3. Floor(t) = sent[t] /\ Floor(t)' = sent[t] + 1
    <3>1. sent'[t] = sent[t] + 1 /\ Len(pending[t]) = 0 /\ Len(pending'[t]) = 0
      BY <1>1, <2>1, <2>2 DEF KeptInv, OrderInv, OutboxInv, TypeInv, OutTypes
    <3> QED BY <1>1, <3>1 DEF Floor
  <2>4. \A y \in Topics \ {t} : Floor(y)' = Floor(y)
    BY <1>1, <2>1 DEF Floor, KeptInv, OrderInv, OutboxInv, TypeInv, OutTypes
  <2>5. c \in Cmds /\ c.cmd = "publish" /\ c.topic = t /\ c.frame = sent[t] + 1
    BY <1>1, CommandTypes, PublishFields
  <2> HIDE DEF c
  <2>6. cmds' = cmds \o <<c>> /\ <<c>> \in Seq(Cmds) /\ Len(<<c>>) = 1 /\ <<c>>[1] = c
    BY <2>1, <2>5, AppendIsConcat DEF KeptInv, OrderInv, OutboxInv, TypeInv, OutTypes
  <2>7. n \in 1..Floor(x) \/ (x = t /\ n = sent[t] + 1)
    <3>1. Floor(x) \in Nat /\ Floor(x)' \in Nat
      BY <1>1, <2>3, <2>4, OrderTypes DEF KeptInv, OrderInv
    <3>2. n \in Nat /\ n >= 1 /\ n <= Floor(x)'
      BY <3>1
    <3>3. CASE x = t
      <4>1. n <= Floor(x) \/ n = sent[t] + 1
        BY <1>1, <2>3, <3>1, <3>2, <3>3
      <4> QED BY <3>1, <3>2, <3>3, <4>1
    <3>4. CASE x # t
      BY <2>4, <3>1, <3>2, <3>4
    <3> QED BY <3>3, <3>4
  <2>8. SendsIn(<<c>>, 1, t) /\ <<c>>[1].frame = sent[t] + 1
    BY <2>5, <2>6 DEF SendsIn
  <2>9. n \in Nat /\ (n \in 1..Floor(x) \/ \E k : SendsIn(<<c>>, k, x) /\ <<c>>[k].frame = n)
    BY <1>1, <2>7, <2>8
  <2> QED BY <1>1, <2>6, <2>9, KeptMore
<1> QED BY <1>2, <1>3

LEMMA KeptFlush ==
  ASSUME KeptInv, [Next]_vars, NEW t \in Topics, FlushTopic(t),
         NEW x \in Topics, NEW n \in 1..Floor(x)'
  PROVE  Settled(x, n)'
<1>1. /\ cmds' = cmds \o Flushed(t) /\ pending' = [pending EXCEPT ![t] = <<>>]
      /\ sent' = sent /\ published' = published /\ failed' = failed
  BY DEF FlushTopic, Flushed, outHistory
<1>2. /\ pending[t] \in Seq(Nat) /\ sent[t] \in Nat
      /\ sent[x] \in Nat /\ sent'[x] \in Nat /\ sent'[x] >= sent[x]
  BY <1>1 DEF KeptInv, OrderInv, OutboxInv, TypeInv, OutTypes
<1>3. /\ Flushed(t) \in Seq(Cmds) /\ Len(Flushed(t)) = Len(pending[t])
      /\ \A i \in 1..Len(pending[t]) : Flushed(t)[i] = Publish(t, pending[t][i])
  BY <1>2, FlushedFacts
<1>4. /\ Floor(t) \in Nat /\ Floor(t) + Len(pending[t]) = sent[t] /\ Len(pending[t]) \in Nat
      /\ \A i \in 1..Len(pending[t]) : pending[t][i] = Floor(t) + i
  BY <1>2, FloorType DEF KeptInv, OrderInv, OutboxInv, TypeInv, OutboxSound, Floor
<1>5. Floor(t)' = sent[t]
  <2>1. sent'[t] = sent[t] /\ Len(pending'[t]) = 0
    BY <1>1 DEF KeptInv, OrderInv, OutboxInv, TypeInv, OutTypes
  <2> QED BY <1>2, <2>1 DEF Floor
<1>6. \A y \in Topics \ {t} : Floor(y)' = Floor(y)
  BY <1>1 DEF Floor, KeptInv, OrderInv, OutboxInv, TypeInv, OutTypes
<1>7. Floor(x)' \in Nat /\ n \in Nat
  BY <1>1, <1>5, <1>6, <1>2, OrderTypes DEF KeptInv, OrderInv
<1>8. CASE n \in 1..Floor(x)
  BY <1>1, <1>2, <1>3, <1>7, <1>8, KeptMore
<1>9. CASE ~(n \in 1..Floor(x))
  <2>1. x = t /\ n <= sent[t] /\ ~(n <= Floor(t))
    BY <1>2, <1>4, <1>5, <1>6, <1>7, <1>9
  <2>2. PICK k \in 1..Len(pending[t]) : Floor(t) + k = n
    <3>1. n - Floor(t) \in 1..Len(pending[t]) /\ Floor(t) + (n - Floor(t)) = n
      BY <1>2, <1>4, <1>7, <2>1
    <3> QED BY <3>1
  <2>3. Flushed(t)[k].cmd = "publish" /\ Flushed(t)[k].topic = t /\ Flushed(t)[k].frame = n
    BY <1>3, <1>4, <2>2, PublishFields
  <2>4. SendsIn(Flushed(t), k, x) /\ Flushed(t)[k].frame = n
    BY <1>3, <2>1, <2>2, <2>3 DEF SendsIn
  <2> QED BY <1>1, <1>2, <1>3, <1>7, <2>4, KeptMore
<1> QED BY <1>8, <1>9

LEMMA KeptQuiet ==
  ASSUME KeptInv, [Next]_vars, cmds' = cmds, sent' = sent, pending' = pending,
         published' = published, failed' = failed,
         NEW x \in Topics, NEW n \in 1..Floor(x)'
  PROVE  Settled(x, n)'
<1>1. Floor(x)' = Floor(x) /\ Floor(x) \in Nat /\ sent'[x] \in Nat /\ sent'[x] >= sent[x]
  BY OrderTypes DEF Floor, KeptInv, OrderInv, OutboxInv, TypeInv, OutTypes
<1>2. n \in Nat /\ Settled(x, n)
  BY <1>1 DEF KeptInv
<1>3. OnItsWay(x, n) => OnItsWay(x, n)'
  BY DEF OnItsWay, Sends
<1> QED BY <1>1, <1>2, <1>3, SettledQuiet DEF KeptInv

LEMMA KeptStep ==
  ASSUME KeptInv, [Next]_vars
  PROVE  KeptInv'
<1>1. OrderInv'
  BY OrderStep DEF KeptInv
<1> SUFFICES ASSUME NEW x \in Topics, NEW n \in 1..Floor(x)'
             PROVE  Settled(x, n)'
  BY <1>1 DEF KeptInv
<1>2. ASSUME sent' = sent, pending' = pending
      PROVE  n \in Nat /\ Settled(x, n) /\ sent'[x] \in Nat /\ sent'[x] >= sent[x]
  <2>1. Floor(x)' = Floor(x) /\ Floor(x) \in Nat
    BY <1>2, OrderTypes DEF Floor, KeptInv, OrderInv
  <2> QED BY <1>2, <2>1 DEF KeptInv, OrderInv, OutboxInv, TypeInv, OutTypes
<1>3. CASE SwarmSubscribe
  <2>1. /\ cmds # <<>> /\ cmds' = Tail(cmds) /\ Head(cmds).cmd = "subscribe"
        /\ sent' = sent /\ pending' = pending
        /\ published' = published /\ failed' = failed
    BY <1>3 DEF SwarmSubscribe, tab, outHistory
  <2>2. OnItsWay(x, n) => OnItsWay(x, n)'
    BY <2>1, WayTail DEF KeptInv
  <2> QED BY <1>2, <2>1, <2>2, SettledQuiet DEF KeptInv
<1>4. CASE SwarmPublish
  <2>1. sent' = sent /\ pending' = pending
    BY <1>4 DEF SwarmPublish, tab
  <2> QED BY <1>2, <1>4, <2>1, SettledPublish DEF KeptInv
<1>5. ASSUME NEW t \in HostTopics, PublishOpaque(t)
      PROVE  Settled(x, n)'
  BY <1>5, KeptSend, TopicNames DEF PublishOpaque
<1>6. ASSUME NEW t \in HostTopics, SubscribeOpaque(t)
      PROVE  Settled(x, n)'
  <2>1. /\ cmds' = Append(cmds, Subscribe(t)) /\ Subscribe(t) \in Cmds
        /\ sent' = sent /\ pending' = pending
        /\ published' = published /\ failed' = failed
    BY <1>6, CommandTypes, TopicNames DEF SubscribeOpaque, tab, outHistory
  <2>2. cmds' = cmds \o <<Subscribe(t)>> /\ <<Subscribe(t)>> \in Seq(Cmds)
    BY <2>1, AppendIsConcat DEF KeptInv, OrderInv, OutboxInv, TypeInv, OutTypes
  <2>3. OnItsWay(x, n) => OnItsWay(x, n)'
    BY <2>2, WayConcat DEF KeptInv
  <2> QED BY <1>2, <2>1, <2>3, SettledQuiet DEF KeptInv
<1>7. CASE PublishChat
  BY <1>7, KeptSend, TopicNames DEF PublishChat
<1>8. CASE RepublishBindings
  BY <1>8, KeptSend, TopicNames DEF RepublishBindings
<1>9. CASE InitNet
  <2>1. cmds' = cmds /\ published' = published /\ failed' = failed
    BY <1>9 DEF InitNet
  <2>2. CASE sent' = sent /\ pending' = pending
    BY <2>1, <2>2, KeptQuiet
  <2>3. CASE /\ sent' = [sent EXCEPT ![Identity] = sent[Identity] + 1]
             /\ pending' = [pending EXCEPT ![Identity] =
                              Enqueued(pending[Identity], sent[Identity] + 1)]
    BY <2>1, <2>3, KeptQueue, TopicNames
  <2> QED BY <1>9, <2>2, <2>3 DEF InitNet
<1>10. ASSUME NEW c \in HostTopics \cup {Poll}, StartDrain(c)
       PROVE  Settled(x, n)'
  BY <1>10, KeptQuiet DEF StartDrain, tab, outHistory
<1>11. CASE Swarming /\ ~SwarmPublish /\ ~SwarmSubscribe
  BY <1>11, KeptQuiet
     DEF Swarming, Connect, DialFails, Disconnect, PeerJoins, PeerLeaves, MessageArrives,
         SwarmEvent, tab, outHistory
<1>12. ASSUME NEW t \in Topics, FlushTopic(t)
       PROVE  Settled(x, n)'
  BY <1>12, KeptFlush
<1>13. ASSUME NEW k, NextEvent(k)
       PROVE  Settled(x, n)'
  <2>1. sent' = sent /\ pending' = pending /\ cmds' = cmds
        /\ published' = published /\ failed' = failed
    BY <1>13 DEF NextEvent, outHistory
  <2> QED BY <2>1, KeptQuiet
<1>14. CASE ReturnPending \/ ReturnFrames
  BY <1>14, KeptQuiet DEF ReturnPending, ReturnFrames, tab, outHistory
<1>15. CASE Draining
  BY <1>12, <1>13, <1>14, <1>15
     DEF Draining, DrainJoined, DrainLeft, DrainPeerDown, DrainChat, DrainIdentity,
         DrainOpaque, DrainError
<1>16. CASE UNCHANGED vars
  BY <1>16, KeptQuiet DEF vars
<1> QED BY <1>3, <1>4, <1>5, <1>6, <1>7, <1>8, <1>9, <1>10, <1>11, <1>15, <1>16 DEF Next

\* A frame the tab sent is in the outbox, in the channel, accepted by gossipsub,
\* refused by it with an error that reaches the pipeline, or was pushed out by
\* Cap newer ones (publish_inner, enqueue_send, flush_pending_for and the
\* PublishFailed arm of drain_net_events in wasm.rs): nothing else loses it.
THEOREM NothingLost == Spec => []LostOnlyByOverflow
<1>1. Init => KeptInv
  BY KeptInit
<1>2. KeptInv /\ [Next]_vars => KeptInv'
  BY KeptStep
<1>3. ASSUME KeptInv
      PROVE  LostOnlyByOverflow
  <2> SUFFICES ASSUME NEW t \in Topics, NEW n \in 1..sent[t]
               PROVE  \/ n \in Range(published[t]) \cup Range(pending[t])
                      \/ InCmds(t, n)
                      \/ n \in failed[t] /\ Reported(t, n)
                      \/ n + Cap <= sent[t] /\ n \notin failed[t]
    BY DEF LostOnlyByOverflow
  <2>1. /\ pending[t] \in Seq(Nat) /\ sent[t] \in Nat /\ cmds \in Seq(Cmds)
        /\ Len(pending[t]) \in Nat
    BY <1>3 DEF KeptInv, OrderInv, OutboxInv, TypeInv, OutTypes
  <2>2. /\ Floor(t) \in Nat /\ Floor(t) + Len(pending[t]) = sent[t]
        /\ \A i \in 1..Len(pending[t]) : pending[t][i] = Floor(t) + i
    BY <1>3, <2>1, FloorType
       DEF KeptInv, OrderInv, OutboxInv, TypeInv, OutboxSound, Floor
  <2>3. OnItsWay(t, n) => InCmds(t, n)
    <3>1. ASSUME NEW j, Sends(j, t), cmds[j].frame = n
          PROVE  j \in DOMAIN cmds /\ cmds[j] = Publish(t, n)
      <4>1. j \in DOMAIN cmds /\ cmds[j] \in Cmds
        BY <2>1, <3>1 DEF Sends
      <4> QED BY <3>1, <4>1, CommandEq DEF Sends
    <3> QED BY <3>1 DEF OnItsWay, InCmds
  <2>4. CASE n \in 1..Floor(t)
    BY <1>3, <2>3, <2>4 DEF KeptInv, Settled
  <2>5. CASE ~(n \in 1..Floor(t))
    <3>1. n - Floor(t) \in 1..Len(pending[t]) /\ Floor(t) + (n - Floor(t)) = n
      BY <2>1, <2>2, <2>5
    <3>2. pending[t][n - Floor(t)] = n
      BY <2>2, <3>1
    <3>3. n \in Range(pending[t])
      BY <2>1, <3>1, <3>2, RangeElements
    <3> QED BY <3>3
  <2> QED BY <2>4, <2>5
<1> QED BY <1>1, <1>2, <1>3, PTL DEF Spec

-----------------------------------------------------------------------------
(* The tab's view of the mesh *)

\* The event changes whether p counts as a peer of topic t.
Concerns(e, t, p) ==
  /\ e.peer = p
  /\ e.kind = "down" \/ (e.kind \in {"joined", "left"} /\ e.topic = t)

\* Looking at the events q makes the view right about p on t: the last of them
\* that concerns it tells what is real, or none does and the view is right now.
Tracks(q, view, real, t, p) ==
  \/ /\ \A i \in 1..Len(q) : ~Concerns(q[i], t, p)
     /\ p \in view <=> p \in real
  \/ \E i \in 1..Len(q) :
       /\ Concerns(q[i], t, p)
       /\ \A j \in 1..Len(q) : j > i => ~Concerns(q[j], t, p)
       /\ q[i].kind = "joined" <=> p \in real

ViewInv ==
  /\ OutboxInv
  /\ \A t \in Topics, p \in Peers : Tracks(batch \o events, topicPeers[t], subs[t], t, p)

LEMMA TracksAppend ==
  ASSUME NEW q \in Seq(Shaped), NEW e \in Shaped, NEW view, NEW real, NEW realNext,
         NEW t, NEW p, Tracks(q, view, real, t, p),
         Concerns(e, t, p) => (e.kind = "joined" <=> p \in realNext),
         ~Concerns(e, t, p) => (p \in realNext <=> p \in real)
  PROVE  Tracks(Append(q, e), view, realNext, t, p)
<1>1. PICK a : a = Append(q, e)
  OBVIOUS
<1>2. /\ a \in Seq(Shaped) /\ Len(a) = Len(q) + 1 /\ Len(q) \in Nat
      /\ \A i \in 1..Len(q) : a[i] = q[i]
      /\ a[Len(q) + 1] = e
  BY <1>1, AppendFacts
<1>3. /\ Len(q) + 1 \in 1..Len(a) /\ 1..Len(q) \subseteq 1..Len(a)
      /\ \A i \in 1..Len(a) : i \in 1..Len(q) \/ i = Len(q) + 1
  BY <1>2
<1>4. CASE Concerns(e, t, p)
  <2>1. \A j \in 1..Len(a) : ~(j > Len(q) + 1)
    BY <1>2
  <2> QED BY <1>1, <1>2, <1>3, <1>4, <2>1 DEF Tracks
<1>5. CASE ~Concerns(e, t, p)
  <2>1. CASE /\ \A i \in 1..Len(q) : ~Concerns(q[i], t, p)
             /\ p \in view <=> p \in real
    <3>1. \A i \in 1..Len(a) : ~Concerns(a[i], t, p)
      BY <1>2, <1>3, <1>5, <2>1
    <3> QED BY <1>1, <1>5, <2>1, <3>1 DEF Tracks
  <2>2. ASSUME NEW i \in 1..Len(q), Concerns(q[i], t, p),
               \A j \in 1..Len(q) : j > i => ~Concerns(q[j], t, p),
               q[i].kind = "joined" <=> p \in real
        PROVE  Tracks(a, view, realNext, t, p)
    <3>1. \A j \in 1..Len(a) : j > i => ~Concerns(a[j], t, p)
      BY <1>2, <1>3, <1>5, <2>2
    <3>2. i \in 1..Len(a) /\ a[i] = q[i]
      BY <1>2, <1>3
    <3>3. a[i].kind = "joined" <=> p \in realNext
      BY <1>5, <2>2, <3>2
    <3> QED BY <2>2, <3>1, <3>2, <3>3 DEF Tracks
  <2> QED BY <1>1, <2>1, <2>2 DEF Tracks
<1> QED BY <1>4, <1>5

LEMMA TracksTail ==
  ASSUME NEW q \in Seq(Shaped), q # <<>>, NEW view, NEW viewNext, NEW real,
         NEW t, NEW p, Tracks(q, view, real, t, p),
         Concerns(Head(q), t, p) => (p \in viewNext <=> Head(q).kind = "joined"),
         ~Concerns(Head(q), t, p) => (p \in viewNext <=> p \in view)
  PROVE  Tracks(Tail(q), viewNext, real, t, p)
<1>1. PICK a : a = Tail(q)
  OBVIOUS
<1>2. /\ Head(q) = q[1] /\ Len(a) = Len(q) - 1 /\ Len(q) \in Nat /\ Len(q) >= 1
      /\ \A i \in 1..Len(a) : a[i] = q[i + 1] /\ i + 1 \in 1..Len(q) /\ i + 1 > 1
      /\ a \in Seq(Shaped)
  BY <1>1, HeadTail
<1>3. CASE /\ \A i \in 1..Len(q) : ~Concerns(q[i], t, p)
           /\ p \in view <=> p \in real
  <2>1. \A i \in 1..Len(a) : ~Concerns(a[i], t, p)
    BY <1>2, <1>3
  <2>2. ~Concerns(Head(q), t, p)
    BY <1>2, <1>3
  <2> QED BY <1>1, <1>3, <2>1, <2>2 DEF Tracks
<1>4. ASSUME NEW i \in 1..Len(q), Concerns(q[i], t, p),
             \A j \in 1..Len(q) : j > i => ~Concerns(q[j], t, p),
             q[i].kind = "joined" <=> p \in real
      PROVE  Tracks(a, viewNext, real, t, p)
  <2>1. CASE i = 1
    <3>1. \A k \in 1..Len(a) : ~Concerns(a[k], t, p)
      BY <1>2, <1>4, <2>1
    <3>2. Concerns(Head(q), t, p) /\ (Head(q).kind = "joined" <=> p \in real)
      BY <1>2, <1>4, <2>1
    <3> QED BY <3>1, <3>2 DEF Tracks
  <2>2. CASE i # 1
    <3>1. PICK k \in 1..Len(a) : k + 1 = i
      <4>1. i - 1 \in 1..Len(a) /\ (i - 1) + 1 = i
        BY <1>2, <2>2
      <4> QED BY <4>1
    <3>2. a[k] = q[i]
      BY <1>2, <3>1
    <3>3. \A j \in 1..Len(a) : j > k => ~Concerns(a[j], t, p)
      <4>1. \A j \in 1..Len(a) : j > k => j + 1 > i
        BY <3>1
      <4> QED BY <1>2, <1>4, <4>1
    <3> QED BY <1>4, <3>1, <3>2, <3>3 DEF Tracks
  <2> QED BY <2>1, <2>2
<1> QED BY <1>1, <1>3, <1>4 DEF Tracks

LEMMA ConcatParts ==
  ASSUME NEW p \in Seq(Shaped), NEW q \in Seq(Shaped)
  PROVE  /\ p \o q \in Seq(Shaped)
         /\ \A e \in Shaped : p \o Append(q, e) = Append(p \o q, e)
         /\ p # <<>> => /\ p \o q # <<>> /\ Head(p \o q) = Head(p)
                        /\ Tail(p \o q) = Tail(p) \o q
         /\ p = <<>> => p \o q = q
         /\ q = <<>> => p \o q = p
OBVIOUS

\* What is left to look at and the view stay as they are.
LEMMA ViewQuiet ==
  ASSUME ViewInv, batch' \o events' = batch \o events,
         topicPeers' = topicPeers, subs' = subs, NEW t \in Topics, NEW p \in Peers
  PROVE  Tracks(batch \o events, topicPeers[t], subs[t], t, p)'
BY DEF ViewInv, Tracks

\* The drive task adds an event and learns what it tells.
LEMMA ViewMore ==
  ASSUME ViewInv, NEW e \in Shaped, batch' = batch, events' = Append(events, e),
         topicPeers' = topicPeers, NEW t \in Topics, NEW p \in Peers,
         Concerns(e, t, p) => (e.kind = "joined" <=> p \in subs'[t]),
         ~Concerns(e, t, p) => (p \in subs'[t] <=> p \in subs[t])
  PROVE  Tracks(batch \o events, topicPeers[t], subs[t], t, p)'
<1>1. batch \in Seq(Shaped) /\ events \in Seq(Shaped)
  BY DEF ViewInv, OutboxInv, TypeInv, OutTypes
<1>2. /\ batch \o events \in Seq(Shaped)
      /\ batch' \o events' = Append(batch \o events, e)
  BY <1>1, ConcatParts
<1>3. Tracks(batch \o events, topicPeers[t], subs[t], t, p)
  BY DEF ViewInv
<1>4. Tracks(Append(batch \o events, e), topicPeers[t], subs'[t], t, p)
  BY <1>2, <1>3, TracksAppend
<1>5. topicPeers'[t] = topicPeers[t]
  OBVIOUS
<1>6. Tracks(batch' \o events', topicPeers'[t], subs'[t], t, p)
  BY <1>2, <1>4, <1>5
<1> QED BY <1>6 DEF Tracks

\* The tab looks at the next event.
LEMMA ViewLess ==
  ASSUME ViewInv, batch # <<>>, batch' = Tail(batch), events' = events, subs' = subs,
         NEW t \in Topics, NEW p \in Peers,
         Concerns(Head(batch), t, p) =>
           (p \in topicPeers'[t] <=> Head(batch).kind = "joined"),
         ~Concerns(Head(batch), t, p) => (p \in topicPeers'[t] <=> p \in topicPeers[t])
  PROVE  Tracks(batch \o events, topicPeers[t], subs[t], t, p)'
<1>1. batch \in Seq(Shaped) /\ events \in Seq(Shaped)
  BY DEF ViewInv, OutboxInv, TypeInv, OutTypes
<1>2. /\ batch \o events \in Seq(Shaped) /\ batch \o events # <<>>
      /\ Head(batch \o events) = Head(batch)
      /\ batch' \o events' = Tail(batch \o events)
  BY <1>1, ConcatParts
<1>3. Tracks(batch \o events, topicPeers[t], subs[t], t, p)
  BY DEF ViewInv
<1>4. Tracks(Tail(batch \o events), topicPeers'[t], subs[t], t, p)
  BY <1>2, <1>3, TracksTail
<1>5. Tracks(batch' \o events', topicPeers'[t], subs'[t], t, p)
  BY <1>2, <1>4
<1> QED BY <1>5 DEF Tracks

LEMMA ViewSwarming ==
  ASSUME ViewInv, Swarming, NEW t \in Topics, NEW p \in Peers
  PROVE  Tracks(batch \o events, topicPeers[t], subs[t], t, p)'
<1>1. subs \in [Topics -> SUBSET Peers]
  BY DEF ViewInv, OutboxInv, TypeInv, OutTypes
<1>2. CASE SwarmPublish
  <2> DEFINE e == Event("error", Head(cmds).topic, None, Head(cmds).frame)
  <2>1. Head(cmds).topic \in Topics /\ Head(cmds).frame \in Nat
    BY <1>2, HeadTail, CommandFields
       DEF SwarmPublish, ViewInv, OutboxInv, TypeInv, OutTypes
  <2>2. e \in Shaped /\ ~Concerns(e, t, p)
    BY <2>1, EventShaped, EventFields DEF Concerns
  <2>3. /\ batch' = batch /\ topicPeers' = topicPeers /\ subs' = subs
        /\ events' = events \/ events' = Append(events, e)
    BY <1>2 DEF SwarmPublish, tab, link
  <2> HIDE DEF e
  <2>4. CASE events' = events
    BY <2>3, <2>4, ViewQuiet
  <2>5. CASE events' = Append(events, e)
    BY <2>2, <2>3, <2>5, ViewMore
  <2> QED BY <2>3, <2>4, <2>5
<1>3. CASE SwarmSubscribe \/ \E q \in Peers : Connect(q) \/ DialFails(q)
  BY <1>3, ViewQuiet DEF SwarmSubscribe, Connect, DialFails, tab
<1>4. ASSUME NEW q \in Peers, Disconnect(q)
      PROVE  Tracks(batch \o events, topicPeers[t], subs[t], t, p)'
  <2> DEFINE e == Event("down", None, q, 0)
  <2>1. e \in Shaped /\ e.kind = "down" /\ e.peer = q
    BY EventShaped, EventFields
  <2>2. /\ batch' = batch /\ topicPeers' = topicPeers /\ events' = Append(events, e)
        /\ subs'[t] = subs[t] \ {q}
    BY <1>4 DEF Disconnect, SwarmEvent, tab
  <2> HIDE DEF e
  <2>3. Concerns(e, t, p) <=> p = q
    BY <2>1 DEF Concerns
  <2> QED BY <2>1, <2>2, <2>3, ViewMore
<1>5. ASSUME NEW q \in Peers, NEW y \in Topics, PeerJoins(q, y)
      PROVE  Tracks(batch \o events, topicPeers[t], subs[t], t, p)'
  <2> DEFINE e == Event("joined", y, q, 0)
  <2>1. e \in Shaped /\ e.kind = "joined" /\ e.peer = q /\ e.topic = y
    BY EventShaped, EventFields
  <2>2. /\ batch' = batch /\ topicPeers' = topicPeers /\ events' = Append(events, e)
        /\ subs' = [subs EXCEPT ![y] = @ \cup {q}]
    BY <1>5 DEF PeerJoins, SwarmEvent, tab
  <2> HIDE DEF e
  <2>3. Concerns(e, t, p) <=> p = q /\ t = y
    BY <2>1 DEF Concerns
  <2>4. CASE p = q /\ t = y
    BY <1>1, <2>1, <2>2, <2>3, <2>4, ViewMore
  <2>5. CASE ~(p = q /\ t = y)
    <3>1. p \in subs'[t] <=> p \in subs[t]
      BY <1>1, <2>2, <2>5
    <3> QED BY <2>1, <2>2, <2>3, <2>5, <3>1, ViewMore
  <2> QED BY <2>4, <2>5
<1>6. ASSUME NEW q \in Peers, NEW y \in Topics, PeerLeaves(q, y)
      PROVE  Tracks(batch \o events, topicPeers[t], subs[t], t, p)'
  <2> DEFINE e == Event("left", y, q, 0)
  <2>1. e \in Shaped /\ e.kind = "left" /\ e.peer = q /\ e.topic = y
    BY EventShaped, EventFields
  <2>2. /\ batch' = batch /\ topicPeers' = topicPeers /\ events' = Append(events, e)
        /\ subs' = [subs EXCEPT ![y] = @ \ {q}]
    BY <1>6 DEF PeerLeaves, SwarmEvent, tab
  <2> HIDE DEF e
  <2>3. Concerns(e, t, p) <=> p = q /\ t = y
    BY <2>1 DEF Concerns
  <2>4. CASE p = q /\ t = y
    BY <1>1, <2>1, <2>2, <2>3, <2>4, ViewMore
  <2>5. CASE ~(p = q /\ t = y)
    <3>1. p \in subs'[t] <=> p \in subs[t]
      BY <1>1, <2>2, <2>5
    <3> QED BY <2>1, <2>2, <2>3, <2>5, <3>1, ViewMore
  <2> QED BY <2>4, <2>5
<1>7. ASSUME NEW y \in Topics, NEW r \in Remotes \cup {Self}, MessageArrives(y, r)
      PROVE  Tracks(batch \o events, topicPeers[t], subs[t], t, p)'
  <2> DEFINE e == Event("message", y, r, arrived[y] + 1)
  <2>1. arrived[y] + 1 \in Nat
    BY DEF ViewInv, OutboxInv, TypeInv, InTypes
  <2>2. e \in Shaped /\ ~Concerns(e, t, p)
    BY <2>1, EventShaped, EventFields DEF Concerns
  <2>3. /\ batch' = batch /\ topicPeers' = topicPeers /\ subs' = subs
        /\ events' = Append(events, e)
    BY <1>7 DEF MessageArrives, SwarmEvent, tab
  <2> HIDE DEF e
  <2> QED BY <2>2, <2>3, ViewMore
<1> QED BY <1>2, <1>3, <1>4, <1>5, <1>6, <1>7 DEF Swarming

LEMMA ViewDraining ==
  ASSUME ViewInv, Draining, NEW t \in Topics, NEW p \in Peers
  PROVE  Tracks(batch \o events, topicPeers[t], subs[t], t, p)'
<1>1. topicPeers \in [Topics -> SUBSET Peers] /\ batch \in Seq(Shaped)
  BY DEF ViewInv, OutboxInv, TypeInv, OutTypes
<1>2. ASSUME NEW k, NextEvent(k)
      PROVE  /\ batch # <<>> /\ batch' = Tail(batch) /\ events' = events /\ subs' = subs
             /\ Head(batch).kind = k /\ Head(batch) \in Shaped
  BY <1>1, <1>2, HeadTail DEF NextEvent, link
<1>3. CASE DrainJoined
  <2>1. Head(batch).kind = "joined" /\ Head(batch).topic \in Topics
    BY <1>2, <1>3, ShapedFields DEF DrainJoined
  <2>2. topicPeers' = [topicPeers EXCEPT ![Head(batch).topic] = @ \cup {Head(batch).peer}]
    BY <1>3 DEF DrainJoined
  <2>3. Concerns(Head(batch), t, p) <=> p = Head(batch).peer /\ t = Head(batch).topic
    BY <2>1 DEF Concerns
  <2>4. Concerns(Head(batch), t, p) => p \in topicPeers'[t]
    BY <1>1, <2>1, <2>2, <2>3
  <2>5. ~Concerns(Head(batch), t, p) => (p \in topicPeers'[t] <=> p \in topicPeers[t])
    BY <1>1, <2>1, <2>2, <2>3
  <2> QED BY <1>2, <1>3, <2>1, <2>4, <2>5, ViewLess DEF DrainJoined
<1>4. CASE DrainLeft
  <2>1. Head(batch).kind = "left" /\ Head(batch).topic \in Topics
    BY <1>2, <1>4, ShapedFields DEF DrainLeft
  <2>2. topicPeers' = [topicPeers EXCEPT ![Head(batch).topic] = @ \ {Head(batch).peer}]
    BY <1>4 DEF DrainLeft
  <2>3. Concerns(Head(batch), t, p) <=> p = Head(batch).peer /\ t = Head(batch).topic
    BY <2>1 DEF Concerns
  <2>4. Concerns(Head(batch), t, p) => p \notin topicPeers'[t]
    BY <1>1, <2>1, <2>2, <2>3
  <2>5. ~Concerns(Head(batch), t, p) => (p \in topicPeers'[t] <=> p \in topicPeers[t])
    BY <1>1, <2>1, <2>2, <2>3
  <2> QED BY <1>2, <1>4, <2>1, <2>4, <2>5, ViewLess DEF DrainLeft
<1>5. CASE DrainPeerDown
  <2>1. Head(batch).kind = "down"
    BY <1>2, <1>5 DEF DrainPeerDown
  <2>2. topicPeers'[t] = topicPeers[t] \ {Head(batch).peer}
    BY <1>5 DEF DrainPeerDown
  <2>3. Concerns(Head(batch), t, p) <=> p = Head(batch).peer
    BY <2>1 DEF Concerns
  <2> QED BY <1>2, <1>5, <2>1, <2>2, <2>3, ViewLess DEF DrainPeerDown
<1>6. CASE DrainChat \/ DrainIdentity \/ DrainOpaque \/ DrainError
  <2>1. /\ topicPeers' = topicPeers
        /\ NextEvent("message") \/ NextEvent("error")
    BY <1>6 DEF DrainChat, DrainIdentity, DrainOpaque, DrainError
  <2>2. ~Concerns(Head(batch), t, p)
    BY <2>1 DEF NextEvent, Concerns
  <2> QED BY <1>2, <2>1, <2>2, ViewLess
<1>7. CASE (\E y \in Topics : FlushTopic(y)) \/ ReturnPending \/ ReturnFrames
  BY <1>7, ViewQuiet DEF FlushTopic, ReturnPending, ReturnFrames, tab, link
<1> QED BY <1>3, <1>4, <1>5, <1>6, <1>7 DEF Draining

LEMMA ViewInit ==
  ASSUME Init
  PROVE  ViewInv
<1>1. /\ batch = <<>> /\ events = <<>>
      /\ \A t \in Topics : topicPeers[t] = {} /\ subs[t] = {}
  BY DEF Init
<1>2. batch \o events = <<>>
  BY <1>1
<1>3. ASSUME NEW t \in Topics, NEW p \in Peers
      PROVE  Tracks(<<>>, topicPeers[t], subs[t], t, p)
  BY <1>1 DEF Tracks
<1> QED BY <1>2, <1>3, OutboxInit DEF ViewInv

LEMMA ViewStep ==
  ASSUME ViewInv, [Next]_vars
  PROVE  ViewInv'
<1>1. OutboxInv'
  BY OutboxStep DEF ViewInv
<1> SUFFICES ASSUME NEW t \in Topics, NEW p \in Peers
             PROVE  Tracks(batch \o events, topicPeers[t], subs[t], t, p)'
  BY <1>1 DEF ViewInv
<1>2. CASE \/ \E y \in HostTopics : PublishOpaque(y) \/ SubscribeOpaque(y)
           \/ PublishChat \/ RepublishBindings \/ InitNet
  BY <1>2, ViewQuiet
     DEF PublishOpaque, SubscribeOpaque, PublishChat, RepublishBindings, InitNet, tab, link
<1>3. ASSUME NEW c \in HostTopics \cup {Poll}, StartDrain(c)
      PROVE  Tracks(batch \o events, topicPeers[t], subs[t], t, p)'
  <2>1. /\ batch = <<>> /\ batch' = events /\ events' = <<>>
        /\ topicPeers' = topicPeers /\ subs' = subs
    BY <1>3 DEF StartDrain, tab, link, ViewInv, OutboxInv, IdleInv
  <2>2. events \in Seq(Shaped) /\ batch \in Seq(Shaped) /\ <<>> \in Seq(Shaped)
    BY EmptyIsSeq DEF ViewInv, OutboxInv, TypeInv, OutTypes
  <2>3. batch \o events = events /\ batch' \o events' = events
    BY <2>1, <2>2, ConcatParts
  <2> QED BY <2>1, <2>3, ViewQuiet
<1>4. CASE Swarming
  BY <1>4, ViewSwarming
<1>5. CASE Draining
  BY <1>5, ViewDraining
<1>6. CASE UNCHANGED vars
  BY <1>6, ViewQuiet DEF vars
<1> QED BY <1>2, <1>3, <1>4, <1>5, <1>6 DEF Next

\* Once no event waits, the tab takes for a topic's mesh exactly the peers that
\* gossipsub knows to be subscribed: however joins, leaves and lost connections
\* interleave with the drains, none is missed and no peer lingers
\* (drain_net_events in wasm.rs, the swarm's events in crates/net/src/swarm.rs).
THEOREM ViewRight == Spec => []ViewCatchesUp
<1>1. Init => ViewInv
  BY ViewInit
<1>2. ViewInv /\ [Next]_vars => ViewInv'
  BY ViewStep
<1>3. ASSUME ViewInv
      PROVE  ViewCatchesUp
  <2> SUFFICES ASSUME call = None, events = <<>>
               PROVE  topicPeers = subs
    BY DEF ViewCatchesUp
  <2>1. /\ batch = <<>>
        /\ topicPeers \in [Topics -> SUBSET Peers] /\ subs \in [Topics -> SUBSET Peers]
    BY <1>3 DEF ViewInv, OutboxInv, IdleInv, TypeInv, OutTypes
  <2>2. batch \o events = <<>> /\ Len(<<>>) = 0
    BY <2>1
  <2>3. ASSUME NEW t \in Topics, NEW p \in Peers
        PROVE  p \in topicPeers[t] <=> p \in subs[t]
    <3>1. Tracks(<<>>, topicPeers[t], subs[t], t, p)
      BY <1>3, <2>2 DEF ViewInv
    <3>2. \A i : i \notin 1..Len(<<>>)
      BY <2>2
    <3> QED BY <3>1, <3>2 DEF Tracks
  <2>4. \A t \in Topics : topicPeers[t] = subs[t]
    BY <2>1, <2>3
  <2> QED BY <2>1, <2>4
<1> QED BY <1>1, <1>2, <1>3, PTL DEF Spec

-----------------------------------------------------------------------------
(* The messages of a topic among events *)

\* A set of numbers has a least one.
LEMMA MinIn ==
  ASSUME NEW T \in SUBSET Nat, T # {}
  PROVE  \E i \in T : \A j \in T : i <= j
<1>1. PICK x \in T : \A y \in T : ~(<<y, x>> \in OpToRel(<, Nat))
  <2>1. IsWellFoundedOn(OpToRel(<, Nat), Nat)
    BY NatLessThanWellFounded
  <2> QED  BY <2>1, WFMin
<1>2. \A y \in T : ~(y < x)
  BY <1>1 DEF OpToRel
<1> QED  BY <1>2

\* How many members of a set of indices are no greater than the i-th position.
LEMMA RankFacts ==
  ASSUME NEW n \in Nat, NEW S \in SUBSET (1..n)
  PROVE  /\ IsFiniteSet(S) /\ Cardinality(S) \in Nat
         /\ \A i \in Int : Rank(S, i) \in Nat
         /\ Rank(S, 0) = 0
         /\ \A i \in Nat : i >= n => Rank(S, i) = Cardinality(S)
         /\ \A i \in 1..n : Rank(S, i) = IF i \in S THEN Rank(S, i - 1) + 1 ELSE Rank(S, i - 1)
         /\ \A i, j \in Int : i <= j => Rank(S, i) <= Rank(S, j)
<1>0. \A j \in S : j \in Nat /\ 1 <= j /\ j <= n
  OBVIOUS
<1>1. IsFiniteSet(S) /\ Cardinality(S) \in Nat
  <2>1. IsFiniteSet(1..n)
    BY FS_Interval
  <2> QED  BY <2>1, FS_Subset, FS_CardinalityType
<1>2. \A i : IsFiniteSet({j \in S : j <= i}) /\ Rank(S, i) \in Nat
  <2> SUFFICES ASSUME NEW i PROVE IsFiniteSet({j \in S : j <= i}) /\ Rank(S, i) \in Nat
    OBVIOUS
  <2>1. {j \in S : j <= i} \subseteq S
    OBVIOUS
  <2>2. IsFiniteSet({j \in S : j <= i})
    BY <1>1, <2>1, FS_Subset
  <2> QED  BY <2>2, FS_CardinalityType DEF Rank
<1>3. Rank(S, 0) = 0
  <2>1. {j \in S : j <= 0} = {}
    <3>1. \A j \in S : ~(j <= 0)
      BY <1>0
    <3> QED  BY <3>1
  <2> QED  BY <2>1, FS_EmptySet DEF Rank
<1>4. \A i \in Nat : i >= n => Rank(S, i) = Cardinality(S)
  <2> SUFFICES ASSUME NEW i \in Nat, i >= n PROVE Rank(S, i) = Cardinality(S)
    OBVIOUS
  <2>1. {j \in S : j <= i} = S
    <3>1. \A j \in S : j <= i
      BY <1>0
    <3> QED  BY <3>1
  <2> QED  BY <2>1 DEF Rank
<1>5. ASSUME NEW i \in 1..n
      PROVE  Rank(S, i) = IF i \in S THEN Rank(S, i - 1) + 1 ELSE Rank(S, i - 1)
  <2>1. PICK T : T = {j \in S : j <= i - 1}
    OBVIOUS
  <2>2. {j \in S : j <= i} = IF i \in S THEN T \cup {i} ELSE T
    <3>1. \A j \in S : j <= i <=> j <= i - 1 \/ j = i
      BY <1>0
    <3> QED  BY <2>1, <3>1
  <2>3. i \notin T
    BY <2>1
  <2>4. IsFiniteSet(T)
    BY <1>2, <2>1
  <2>5. Cardinality(T \cup {i}) = Cardinality(T) + 1
    BY <2>3, <2>4, FS_AddElement
  <2> QED  BY <2>1, <2>2, <2>5 DEF Rank
<1>6. ASSUME NEW i \in Int, NEW j \in Int, i <= j PROVE Rank(S, i) <= Rank(S, j)
  <2>1. {k \in S : k <= i} \subseteq {k \in S : k <= j}
    <3>1. \A k \in S : k <= i => k <= j
      BY <1>0, <1>6
    <3> QED  BY <3>1
  <2> QED  BY <1>2, <2>1, FS_Subset DEF Rank
<1> QED  BY <1>1, <1>2, <1>3, <1>4, <1>5, <1>6

\* The members of a set of indices have the ranks from 1 to their number, each
\* one its own.
LEMMA Ranks ==
  ASSUME NEW n \in Nat, NEW S \in SUBSET (1..n)
  PROVE  /\ \A i \in S : Rank(S, i) \in 1..Cardinality(S)
         /\ \A i, j \in S : Rank(S, i) = Rank(S, j) => i = j
         /\ \A k \in 1..Cardinality(S) : \E i \in S : Rank(S, i) = k
<1>0. PICK r : r = [i \in Int |-> Rank(S, i)]
  OBVIOUS
<1>1. /\ \A i \in Int : Rank(S, i) = r[i] /\ r[i] \in Nat
      /\ Cardinality(S) \in Nat /\ r[0] = 0 /\ r[n] = Cardinality(S)
      /\ \A i \in 1..n : r[i] = IF i \in S THEN r[i - 1] + 1 ELSE r[i - 1]
      /\ \A i, j \in Int : i <= j => r[i] <= r[j]
  BY <1>0, RankFacts
<1>2. \A i \in S : r[i] \in 1..Cardinality(S)
  <2> SUFFICES ASSUME NEW i \in S PROVE r[i] \in 1..Cardinality(S)
    OBVIOUS
  <2>1. i \in 1..n /\ i \in Int /\ n \in Int /\ i - 1 \in Int /\ i <= n
    OBVIOUS
  <2>2. r[i] <= r[n] /\ r[i] = r[i - 1] + 1 /\ r[i - 1] \in Nat /\ r[i] \in Nat
    BY <1>1, <2>1
  <2> QED  BY <1>1, <2>2
<1>3. \A i, j \in S : i < j => r[i] < r[j]
  <2> SUFFICES ASSUME NEW i \in S, NEW j \in S, i < j PROVE r[i] < r[j]
    OBVIOUS
  <2>1. i \in Int /\ j \in 1..n /\ j - 1 \in Int /\ i <= j - 1
    OBVIOUS
  <2>2. r[i] <= r[j - 1] /\ r[j] = r[j - 1] + 1 /\ r[i] \in Nat /\ r[j - 1] \in Nat
    BY <1>1, <2>1
  <2> QED  BY <2>2
<1>4. \A i, j \in S : r[i] = r[j] => i = j
  <2> SUFFICES ASSUME NEW i \in S, NEW j \in S, r[i] = r[j], i # j PROVE FALSE
    OBVIOUS
  <2>1. i \in Int /\ j \in Int /\ r[i] \in Nat /\ r[j] \in Nat
    BY <1>1
  <2>2. i < j \/ j < i
    BY <2>1
  <2>3. r[i] < r[j] \/ r[j] < r[i]
    BY <1>3, <2>2
  <2> QED  BY <2>1, <2>3
<1>5. ASSUME NEW k \in 1..Cardinality(S) PROVE \E i \in S : r[i] = k
  <2>1. PICK T : T = {i \in 1..n : r[i] >= k}
    OBVIOUS
  <2>2. n \in T
    <3>1. n # 0
      BY <1>1
    <3> QED  BY <1>1, <2>1, <3>1
  <2>3. PICK i \in T : \A j \in T : i <= j
    <3>1. T \in SUBSET Nat /\ T # {}
      BY <2>1, <2>2
    <3> QED  BY <3>1, MinIn
  <2>4. i \in 1..n /\ r[i] >= k /\ i - 1 \in Int /\ r[i] \in Nat /\ r[i - 1] \in Nat
    BY <1>1, <2>1
  <2>5. r[i - 1] < k
    <3>1. CASE i = 1
      BY <1>1, <3>1
    <3>2. CASE i # 1
      <4>1. i - 1 \in 1..n /\ ~(i <= i - 1)
        BY <2>4, <3>2
      <4>2. ~(r[i - 1] >= k)
        BY <2>1, <2>3, <4>1
      <4> QED  BY <2>4, <4>2
    <3> QED  BY <3>1, <3>2
  <2>6. i \in S /\ r[i] = k
    <3>1. r[i] = IF i \in S THEN r[i - 1] + 1 ELSE r[i - 1]
      BY <1>1, <2>4
    <3> QED  BY <2>4, <2>5, <3>1
  <2> QED  BY <2>6
<1>6. \A i \in S : Rank(S, i) = r[i]
  BY <1>1
<1> QED  BY <1>2, <1>4, <1>5, <1>6

IsMessage(e, t) == e.kind = "message" /\ e.topic = t

LEMMA PlacesFacts ==
  ASSUME NEW q \in Seq(Shaped), NEW t
  PROVE  /\ Len(q) \in Nat /\ PlacesOf(t, q) \in SUBSET (1..Len(q))
         /\ \A i \in 1..Len(q) : i \in PlacesOf(t, q) <=> IsMessage(q[i], t)
         /\ \A i \in 1..Len(q) : q[i].frame \in Nat
         /\ IsFiniteSet(PlacesOf(t, q)) /\ Cardinality(PlacesOf(t, q)) \in Nat
<1>1. Len(q) \in Nat /\ DOMAIN q = 1..Len(q)
  OBVIOUS
<1>2. \A i \in 1..Len(q) : q[i] \in Shaped
  OBVIOUS
<1>3. PlacesOf(t, q) \in SUBSET (1..Len(q))
  BY <1>1 DEF PlacesOf
<1>4. \A i \in 1..Len(q) : q[i].frame \in Nat
  BY <1>2, ShapedFields
<1>5. \A i \in 1..Len(q) : i \in PlacesOf(t, q) <=> IsMessage(q[i], t)
  BY <1>1 DEF PlacesOf, IsMessage
<1> QED  BY <1>1, <1>3, <1>4, <1>5, RankFacts

\* The frames on t, one for each message, in the order of the messages ...
LEMMA MessagesAre ==
  ASSUME NEW q \in Seq(Shaped), NEW t
  PROVE  /\ MessagesOn(t, q) \in Seq(Nat)
         /\ Len(MessagesOn(t, q)) = Cardinality(PlacesOf(t, q))
         /\ \A i \in PlacesOf(t, q) : MessagesOn(t, q)[Rank(PlacesOf(t, q), i)] = q[i].frame
<1>1. PICK S : S = PlacesOf(t, q)
  OBVIOUS
<1>2. /\ Len(q) \in Nat /\ S \in SUBSET (1..Len(q)) /\ Cardinality(S) \in Nat
      /\ \A i \in S : q[i].frame \in Nat
  BY <1>1, PlacesFacts
<1>3. /\ \A i \in S : Rank(S, i) \in 1..Cardinality(S)
      /\ \A i, j \in S : Rank(S, i) = Rank(S, j) => i = j
      /\ \A k \in 1..Cardinality(S) : \E i \in S : Rank(S, i) = k
  BY <1>2, Ranks
<1>4. PICK f : f = [k \in 1..Cardinality(S) |-> CHOOSE i \in S : Rank(S, i) = k]
  OBVIOUS
<1>5. \A k \in 1..Cardinality(S) : f[k] \in S /\ Rank(S, f[k]) = k
  BY <1>3, <1>4
<1>6. MessagesOn(t, q) = [k \in 1..Cardinality(S) |-> q[f[k]].frame]
  BY <1>1, <1>4 DEF MessagesOn
<1>7. \A i \in S : f[Rank(S, i)] = i
  BY <1>3, <1>5
<1>8. \A i \in S : MessagesOn(t, q)[Rank(S, i)] = q[i].frame
  BY <1>3, <1>6, <1>7
<1>9. \A k \in 1..Cardinality(S) : q[f[k]].frame \in Nat
  BY <1>2, <1>5
<1> QED  BY <1>1, <1>2, <1>6, <1>8, <1>9

\* ... and no other sequence is.
LEMMA MessagesOnly ==
  ASSUME NEW q \in Seq(Shaped), NEW t, NEW m \in Seq(Nat),
         Len(m) = Cardinality(PlacesOf(t, q)),
         \A i \in PlacesOf(t, q) : m[Rank(PlacesOf(t, q), i)] = q[i].frame
  PROVE  MessagesOn(t, q) = m
<1>1. PICK S : S = PlacesOf(t, q)
  OBVIOUS
<1>2. PICK n : n = MessagesOn(t, q)
  OBVIOUS
<1>3. n \in Seq(Nat) /\ Len(n) = Cardinality(S) /\ \A i \in S : n[Rank(S, i)] = q[i].frame
  BY <1>1, <1>2, MessagesAre
<1>4. \A k \in 1..Cardinality(S) : \E i \in S : Rank(S, i) = k
  <2>1. Len(q) \in Nat /\ S \in SUBSET (1..Len(q))
    BY <1>1, PlacesFacts
  <2> QED  BY <2>1, Ranks
<1>5. \A k \in 1..Cardinality(S) : n[k] = m[k]
  BY <1>1, <1>3, <1>4
<1>6. Len(n) = Len(m)
  BY <1>1, <1>3
<1> QED  BY <1>1, <1>2, <1>3, <1>5, <1>6

LEMMA MessagesNone == ASSUME NEW t PROVE MessagesOn(t, <<>>) = <<>>
<1>1. PlacesOf(t, <<>>) = {}
  BY DEF PlacesOf
<1>2. Cardinality(PlacesOf(t, <<>>)) = 0 /\ <<>> \in Seq(Nat) /\ <<>> \in Seq(Shaped)
  BY <1>1, FS_EmptySet
<1> QED  BY <1>1, <1>2, MessagesOnly

\* A message that joins the end is the last frame ...
LEMMA MessagesAppend ==
  ASSUME NEW q \in Seq(Shaped), NEW e \in Shaped, NEW t
  PROVE  MessagesOn(t, Append(q, e)) =
           IF IsMessage(e, t) THEN Append(MessagesOn(t, q), e.frame) ELSE MessagesOn(t, q)
<1>1. PICK r, S, T, m : r = Append(q, e) /\ S = PlacesOf(t, q) /\ T = PlacesOf(t, r) /\ m = MessagesOn(t, q)
  OBVIOUS
<1>2. PICK n : n = Len(q)
  OBVIOUS
<1>3. /\ r \in Seq(Shaped) /\ Len(r) = n + 1 /\ n \in Nat
      /\ r[n + 1] = e /\ \A i \in 1..n : r[i] = q[i]
  BY <1>1, <1>2, AppendFacts
<1>4. /\ S \in SUBSET (1..n) /\ IsFiniteSet(S) /\ Cardinality(S) \in Nat
      /\ \A i \in 1..n : i \in S <=> IsMessage(q[i], t)
  BY <1>1, <1>2, PlacesFacts
<1>5. /\ T \in SUBSET (1..(n + 1))
      /\ \A i \in 1..(n + 1) : i \in T <=> IsMessage(r[i], t)
  BY <1>1, <1>3, PlacesFacts
<1>6. /\ m \in Seq(Nat) /\ Len(m) = Cardinality(S)
      /\ \A i \in S : m[Rank(S, i)] = q[i].frame
  BY <1>1, MessagesAre
<1>7. T = IF IsMessage(e, t) THEN S \cup {n + 1} ELSE S
  <2>1. \A i \in 1..(n + 1) : i \in 1..n \/ i = n + 1
    BY <1>3
  <2>2. \A i \in 1..n : i \in 1..(n + 1) /\ i # n + 1
    BY <1>3
  <2>3. \A i \in 1..n : i \in T <=> i \in S
    BY <1>3, <1>4, <1>5, <2>2
  <2>4. n + 1 \in T <=> IsMessage(e, t)
    BY <1>3, <1>5
  <2> QED  BY <1>4, <1>5, <2>1, <2>3, <2>4
<1>8. CASE IsMessage(e, t)
  <2>1. n + 1 \notin S
    BY <1>3, <1>4
  <2>2. T = S \cup {n + 1} /\ Cardinality(T) = Cardinality(S) + 1
    BY <1>4, <1>7, <1>8, <2>1, FS_AddElement
  <2>3. Rank(T, n + 1) = Cardinality(T)
    BY <1>3, <1>5, RankFacts
  <2>4. \A i \in S : Rank(T, i) = Rank(S, i)
    <3> SUFFICES ASSUME NEW i \in S PROVE Rank(T, i) = Rank(S, i)
      OBVIOUS
    <3>1. i \in 1..n /\ ~(n + 1 <= i)
      BY <1>3, <1>4
    <3>2. {j \in T : j <= i} = {j \in S : j <= i}
      BY <2>2, <3>1
    <3> QED  BY <3>2 DEF Rank
  <2>5. PICK a : a = Append(m, e.frame)
    OBVIOUS
  <2>6. e.frame \in Nat
    BY ShapedFields
  <2>7. /\ a \in Seq(Nat) /\ Len(a) = Cardinality(T) /\ a[Cardinality(T)] = e.frame
        /\ \A k \in 1..Cardinality(S) : a[k] = m[k]
    BY <1>6, <2>2, <2>5, <2>6, AppendFacts
  <2>8. \A i \in S : Rank(S, i) \in 1..Cardinality(S)
    BY <1>3, <1>4, Ranks
  <2>9. \A i \in S : r[i].frame = q[i].frame
    BY <1>3, <1>4
  <2>10. \A i \in T : a[Rank(T, i)] = r[i].frame
    BY <1>3, <1>6, <2>2, <2>3, <2>4, <2>7, <2>8, <2>9
  <2>11. MessagesOn(t, r) = a
    BY <1>1, <1>3, <2>7, <2>10, MessagesOnly
  <2> QED  BY <1>1, <1>8, <2>5, <2>11
<1>9. CASE ~IsMessage(e, t)
  <2>1. T = S
    BY <1>7, <1>9
  <2>2. \A i \in S : r[i].frame = q[i].frame
    BY <1>3, <1>4
  <2>3. Len(m) = Cardinality(PlacesOf(t, r)) /\ \A i \in PlacesOf(t, r) : m[Rank(PlacesOf(t, r), i)] = r[i].frame
    BY <1>1, <1>6, <2>1, <2>2
  <2>4. MessagesOn(t, r) = m
    BY <1>3, <1>6, <2>3, MessagesOnly
  <2> QED  BY <1>1, <1>9, <2>4
<1> QED  BY <1>8, <1>9

\* ... and the one that leaves was the first.
LEMMA MessagesTail ==
  ASSUME NEW q \in Seq(Shaped), q # <<>>, NEW t
  PROVE  MessagesOn(t, q) =
           IF IsMessage(Head(q), t) THEN <<Head(q).frame>> \o MessagesOn(t, Tail(q))
           ELSE MessagesOn(t, Tail(q))
<1>1. PICK r, S, T, m, e : /\ r = Tail(q) /\ S = PlacesOf(t, q) /\ T = PlacesOf(t, r)
                           /\ m = MessagesOn(t, r) /\ e = Head(q)
  OBVIOUS
<1>2. PICK n : n = Len(r)
  OBVIOUS
<1>3. /\ r \in Seq(Shaped) /\ Len(q) = n + 1 /\ n \in Nat
      /\ q[1] = e /\ e \in Shaped /\ \A i \in 1..n : r[i] = q[i + 1]
  BY <1>1, <1>2, HeadTail
<1>4. /\ S \in SUBSET (1..(n + 1))
      /\ \A i \in 1..(n + 1) : i \in S <=> IsMessage(q[i], t)
  BY <1>1, <1>3, PlacesFacts
<1>5. /\ T \in SUBSET (1..n) /\ IsFiniteSet(T) /\ Cardinality(T) \in Nat
      /\ \A i \in 1..n : i \in T <=> IsMessage(r[i], t)
  BY <1>1, <1>2, <1>3, PlacesFacts
<1>6. /\ m \in Seq(Nat) /\ Len(m) = Cardinality(T)
      /\ \A i \in T : m[Rank(T, i)] = r[i].frame
  BY <1>1, <1>3, MessagesAre
<1>7. PICK c : c = IF IsMessage(e, t) THEN 1 ELSE 0
  OBVIOUS
<1>8. /\ 1 \in S <=> c = 1
      /\ \A i \in 1..n : i + 1 \in S <=> i \in T
  <2>1. 1 \in 1..(n + 1) /\ \A i \in 1..n : i + 1 \in 1..(n + 1)
    BY <1>3
  <2> QED  BY <1>3, <1>4, <1>5, <1>7, <2>1
<1>9. \A i \in 0..n : Rank(S, i + 1) = Rank(T, i) + c
  <2> SUFFICES ASSUME NEW i \in 0..n PROVE Rank(S, i + 1) = Rank(T, i) + c
    OBVIOUS
  <2>1. PICK A, B : A = {j \in T : j <= i} /\ B = {j \in S : j <= i + 1 /\ j # 1}
    OBVIOUS
  <2>2. IsFiniteSet(A) /\ Cardinality(A) \in Nat
    BY <1>5, <2>1, FS_Subset, FS_CardinalityType
  <2>3. IsFiniteSet(B) /\ Cardinality(B) = Cardinality(A)
    <3>1. PICK f : f = [j \in A |-> j + 1]
      OBVIOUS
    <3>2. \A j \in A : j \in 1..n /\ j + 1 \in B
      <4> SUFFICES ASSUME NEW j \in A PROVE j \in 1..n /\ j + 1 \in B
        OBVIOUS
      <4>1. j \in 1..n /\ j \in T /\ j <= i
        BY <1>5, <2>1
      <4>2. j + 1 \in S /\ j + 1 <= i + 1 /\ j + 1 # 1
        BY <1>8, <4>1
      <4> QED  BY <2>1, <4>1, <4>2
    <3>3. f \in [A -> B] /\ \A j, k \in A : f[j] = f[k] => j = k
      BY <3>1, <3>2
    <3>4. \A k \in B : k - 1 \in A /\ f[k - 1] = k
      <4> SUFFICES ASSUME NEW k \in B PROVE k - 1 \in A /\ f[k - 1] = k
        OBVIOUS
      <4>1. k \in S /\ k \in 1..(n + 1) /\ k # 1 /\ k <= i + 1
        BY <1>4, <2>1
      <4>2. k - 1 \in 1..n /\ (k - 1) + 1 = k /\ k - 1 <= i
        BY <1>3, <4>1
      <4>3. k - 1 \in A
        BY <1>8, <2>1, <4>1, <4>2
      <4> QED  BY <3>1, <4>2, <4>3
    <3>5. f \in Bijection(A, B)
      BY <3>3, <3>4 DEF Bijection, Injection, Surjection, IsInjective
    <3> QED  BY <2>2, <3>5, FS_Bijection DEF ExistsBijection
  <2>4. {j \in S : j <= i + 1} = IF c = 1 THEN B \cup {1} ELSE B
    <3>1. 1 <= i + 1
      OBVIOUS
    <3> QED  BY <1>8, <2>1, <3>1
  <2>5. Cardinality(B \cup {1}) = Cardinality(B) + 1
    <3>1. 1 \notin B
      BY <2>1
    <3> QED  BY <2>3, <3>1, FS_AddElement
  <2>6. Rank(T, i) = Cardinality(A) /\ Rank(S, i + 1) = Cardinality({j \in S : j <= i + 1})
    BY <2>1 DEF Rank
  <2>7. Rank(S, i + 1) = IF c = 1 THEN Cardinality(B) + 1 ELSE Cardinality(B)
    BY <2>4, <2>5, <2>6
  <2> QED  BY <1>7, <2>2, <2>3, <2>6, <2>7
<1>10. Cardinality(S) = Cardinality(T) + c
  <2>1. Rank(S, n + 1) = Cardinality(S) /\ Rank(T, n) = Cardinality(T)
    <3>1. n + 1 \in Nat /\ n + 1 >= n + 1 /\ n >= n
      BY <1>3
    <3>2. \A i \in Nat : i >= n + 1 => Rank(S, i) = Cardinality(S)
      BY <1>4, <3>1, RankFacts
    <3>3. \A i \in Nat : i >= n => Rank(T, i) = Cardinality(T)
      BY <1>3, <1>5, RankFacts
    <3> QED  BY <1>3, <3>1, <3>2, <3>3
  <2>2. n \in 0..n
    BY <1>3
  <2> QED  BY <1>9, <2>1, <2>2
<1>11. \A i \in T : Rank(S, i + 1) = Rank(T, i) + c /\ r[i].frame = q[i + 1].frame
  <2>1. \A i \in T : i \in 0..n /\ i \in 1..n
    BY <1>3, <1>5
  <2> QED  BY <1>3, <1>9, <2>1
<1>12. \A j \in S : j = 1 \/ (j - 1 \in T /\ (j - 1) + 1 = j)
  <2> SUFFICES ASSUME NEW j \in S, j # 1 PROVE j - 1 \in T /\ (j - 1) + 1 = j
    OBVIOUS
  <2>1. j \in 1..(n + 1)
    BY <1>4
  <2>2. j - 1 \in 1..n /\ (j - 1) + 1 = j
    BY <1>3, <2>1
  <2> QED  BY <1>8, <2>2
<1>13. \A i \in T : Rank(T, i) \in 1..Cardinality(T)
  BY <1>3, <1>5, Ranks
<1>14. PICK a : a = IF c = 1 THEN <<e.frame>> \o m ELSE m
  OBVIOUS
<1>15. e.frame \in Nat
  BY <1>3, ShapedFields
<1>16. /\ a \in Seq(Nat) /\ Len(a) = Cardinality(S)
       /\ c = 1 => a[1] = e.frame
       /\ \A k \in 1..Cardinality(T) : a[k + c] = m[k]
  <2>1. CASE c = 1
    <3>1. PICK f : f = <<e.frame>>
      OBVIOUS
    <3>2. f \in Seq(Nat) /\ Len(f) = 1 /\ f[1] = e.frame
      BY <1>15, <3>1
    <3>3. /\ a \in Seq(Nat) /\ Len(a) = 1 + Len(m) /\ a[1] = e.frame
          /\ \A k \in 2..(1 + Len(m)) : a[k] = m[k - 1]
      BY <1>6, <1>14, <2>1, <3>1, <3>2, ConcatFacts
    <3>4. \A k \in 1..Cardinality(T) : k + 1 \in 2..(1 + Len(m)) /\ (k + 1) - 1 = k
      BY <1>5, <1>6
    <3> QED  BY <1>6, <1>10, <2>1, <3>3, <3>4
  <2>2. CASE c # 1
    <3>1. c = 0 /\ a = m
      BY <1>7, <1>14, <2>2
    <3> QED  BY <1>5, <1>6, <1>10, <3>1
  <2> QED  BY <2>1, <2>2
<1>17. ASSUME NEW j \in S PROVE a[Rank(S, j)] = q[j].frame
  <2>1. CASE j = 1
    <3>1. c = 1
      BY <1>8, <2>1
    <3>2. Rank(S, 1) = 1
      <4>1. Rank(T, 0) = 0
        BY <1>3, <1>5, RankFacts
      <4>2. 0 \in 0..n /\ 0 + 1 = 1 /\ 0 + 1 \in Nat
        BY <1>3
      <4> QED  BY <1>9, <3>1, <4>1, <4>2
    <3> QED  BY <1>3, <1>16, <2>1, <3>1, <3>2
  <2>2. CASE j - 1 \in T /\ (j - 1) + 1 = j
    <3>1. PICK i \in T : i + 1 = j
      BY <2>2
    <3>2. a[Rank(T, i) + c] = m[Rank(T, i)]
      BY <1>13, <1>16
    <3> QED  BY <1>6, <1>11, <3>1, <3>2
  <2> QED  BY <1>12, <2>1, <2>2
<1>18. MessagesOn(t, q) = a
  BY <1>1, <1>16, <1>17, MessagesOnly
<1> QED  BY <1>1, <1>7, <1>14, <1>18

-----------------------------------------------------------------------------
(* Each host topic is a FrameChannel *)

LEMMA ConcatAppend ==
  ASSUME NEW p \in Seq(Nat), NEW q \in Seq(Nat), NEW n \in Nat
  PROVE  /\ p \o Append(q, n) = Append(p \o q, n)
         /\ Append(p, n) \o q = p \o (<<n>> \o q)
OBVIOUS

\* A drain takes the whole buffer, and nothing joins it before the call returns.
DrainInv == OutboxInv /\ (call # None => events = <<>>)

Stutters(t) == UNCHANGED <<WaitingOn(t), handed[t]>>

LEMMA DrainInit ==
  ASSUME Init
  PROVE  DrainInv
BY OutboxInit DEF DrainInv, Init

LEMMA DrainStep ==
  ASSUME DrainInv, [Next]_vars
  PROVE  DrainInv'
<1>1. OutboxInv'
  BY OutboxStep DEF DrainInv
<1>2. Poll # None
  BY NamesAssumption
<1>3. CASE Draining
  BY <1>1, <1>3
     DEF DrainInv, Draining, DrainJoined, DrainLeft, DrainPeerDown, DrainChat, DrainIdentity,
         DrainOpaque, DrainError, NextEvent, FlushTopic, ReturnPending, ReturnFrames
<1>4. CASE Swarming
  BY <1>1, <1>4
     DEF DrainInv, Swarming, SwarmPublish, SwarmSubscribe, Connect, DialFails, Disconnect,
         PeerJoins, PeerLeaves, MessageArrives, SwarmEvent
<1>5. CASE \/ \E t \in HostTopics : PublishOpaque(t) \/ SubscribeOpaque(t)
           \/ PublishChat \/ RepublishBindings \/ InitNet
           \/ \E c \in HostTopics \cup {Poll} : StartDrain(c)
           \/ UNCHANGED vars
  BY <1>1, <1>5
     DEF DrainInv, PublishOpaque, SubscribeOpaque, PublishChat, RepublishBindings, InitNet,
         StartDrain, vars
<1> QED BY <1>3, <1>4, <1>5 DEF Next

LEMMA WaitingTypes ==
  ASSUME DrainInv, NEW t \in HostTopics
  PROVE  /\ t \in Topics /\ rx[t] \in Seq(Nat)
         /\ batch \in Seq(Shaped) /\ events \in Seq(Shaped) /\ batch \o events \in Seq(Shaped)
         /\ MessagesOn(t, batch \o events) \in Seq(Nat)
<1>1. t \in Topics /\ rx \in [Topics -> Seq(Nat)] /\ batch \in Seq(Shaped) /\ events \in Seq(Shaped)
  BY TopicNames DEF DrainInv, OutboxInv, TypeInv, OutTypes, InTypes
<1>2. batch \o events \in Seq(Shaped)
  BY <1>1, ConcatParts
<1> QED BY <1>1, <1>2, MessagesAre

LEMMA WaitingNext ==
  ASSUME NEW t
  PROVE  WaitingOn(t)' = rx'[t] \o MessagesOn(t, batch' \o events')
BY DEF WaitingOn, MessagesOn, PlacesOf, Rank

LEMMA ChannelSame ==
  ASSUME NEW t, rx'[t] = rx[t], handed'[t] = handed[t],
         MessagesOn(t, batch' \o events') = MessagesOn(t, batch \o events)
  PROVE  Stutters(t)
BY WaitingNext DEF Stutters, WaitingOn

\* The drive task adds an event that is no message on t.
LEMMA ChannelOther ==
  ASSUME DrainInv, NEW t \in HostTopics, NEW e \in Shaped, ~IsMessage(e, t),
         UNCHANGED <<rx, batch, handed>>, events' = Append(events, e)
  PROVE  Stutters(t)
<1>1. batch' \o events' = Append(batch \o events, e)
  BY WaitingTypes, ConcatParts
<1>2. batch \o events \in Seq(Shaped)
  BY WaitingTypes
<1>3. MessagesOn(t, batch' \o events') = MessagesOn(t, batch \o events)
  BY <1>1, <1>2, MessagesAppend
<1> QED BY <1>3, ChannelSame

LEMMA ChannelArrive ==
  ASSUME DrainInv, NEW t \in HostTopics, NEW e \in Shaped, IsMessage(e, t),
         e.frame \in 1..MaxArrived[t],
         UNCHANGED <<rx, batch, handed>>, events' = Append(events, e)
  PROVE  Channel(t)!Next
<1>1. batch' \o events' = Append(batch \o events, e)
  BY WaitingTypes, ConcatParts
<1>2. MessagesOn(t, batch' \o events') = Append(MessagesOn(t, batch \o events), e.frame)
  BY <1>1, WaitingTypes, MessagesAppend
<1>3. PICK m : m = MessagesOn(t, batch \o events)
  OBVIOUS
<1>4. m \in Seq(Nat) /\ rx[t] \in Seq(Nat) /\ e.frame \in Nat
  BY <1>3, WaitingTypes, ShapedFields
<1>5. rx[t] \o Append(m, e.frame) = Append(rx[t] \o m, e.frame)
  BY <1>4, ConcatAppend
<1>6. WaitingOn(t)' = Append(WaitingOn(t), e.frame)
  BY <1>2, <1>3, <1>5, WaitingNext DEF WaitingOn
<1>7. Channel(t)!Arrive(e.frame)
  BY <1>6 DEF Channel!Arrive
<1> QED BY <1>7 DEF Channel!Next

LEMMA ChannelSwarming ==
  ASSUME DrainInv, Swarming, NEW t \in HostTopics
  PROVE  Channel(t)!Next \/ Stutters(t)
<1>1. CASE SwarmPublish
  <2> DEFINE e == Event("error", Head(cmds).topic, None, Head(cmds).frame)
  <2>1. Head(cmds).topic \in Topics /\ Head(cmds).frame \in Nat
    BY <1>1, HeadTail, CommandFields
       DEF SwarmPublish, DrainInv, OutboxInv, TypeInv, OutTypes
  <2>2. e \in Shaped /\ ~IsMessage(e, t)
    BY <2>1, EventShaped, EventFields DEF IsMessage
  <2>3. /\ UNCHANGED <<rx, batch, handed>>
        /\ events' = events \/ events' = Append(events, e)
    BY <1>1 DEF SwarmPublish, tab, inHistory
  <2> HIDE DEF e
  <2> QED BY <2>2, <2>3, ChannelOther, ChannelSame
<1>2. CASE SwarmSubscribe \/ \E q \in Peers : Connect(q) \/ DialFails(q)
  <2>1. UNCHANGED <<rx, batch, events, handed>>
    BY <1>2 DEF SwarmSubscribe, Connect, DialFails, tab, inHistory
  <2> QED BY <2>1, ChannelSame
<1>3. ASSUME NEW q \in Peers, NEW y \in Topics, Disconnect(q) \/ PeerJoins(q, y) \/ PeerLeaves(q, y)
      PROVE  Stutters(t)
  <2>1. PICK e \in {Event("down", None, q, 0), Event("joined", y, q, 0), Event("left", y, q, 0)} :
          UNCHANGED <<rx, batch, handed>> /\ events' = Append(events, e)
    BY <1>3 DEF Disconnect, PeerJoins, PeerLeaves, SwarmEvent, tab
  <2>2. e \in Shaped /\ ~IsMessage(e, t)
    BY <2>1, EventShaped, EventFields DEF IsMessage
  <2> QED BY <2>1, <2>2, ChannelOther
<1>4. ASSUME NEW y \in Topics, NEW r \in Remotes \cup {Self}, MessageArrives(y, r)
      PROVE  Channel(t)!Next \/ Stutters(t)
  <2> DEFINE e == Event("message", y, r, arrived[y] + 1)
  <2>1. arrived[y] + 1 \in Nat /\ arrived[y] + 1 \in 1..MaxArrived[y]
    <3>1. arrived[y] \in Nat /\ MaxArrived[y] \in Nat
      BY BoundsAssumption DEF DrainInv, OutboxInv, TypeInv, InTypes
    <3>2. arrived[y] < MaxArrived[y]
      BY <1>4 DEF MessageArrives
    <3> QED BY <3>1, <3>2
  <2>2. e \in Shaped /\ (IsMessage(e, t) <=> t = y) /\ e.frame = arrived[y] + 1
    BY <2>1, EventShaped, EventFields DEF IsMessage
  <2>3. UNCHANGED <<rx, batch, handed>> /\ events' = Append(events, e)
    BY <1>4 DEF MessageArrives, SwarmEvent, tab
  <2> HIDE DEF e
  <2>4. CASE t = y
    BY <2>1, <2>2, <2>3, <2>4, ChannelArrive
  <2>5. CASE t # y
    BY <2>2, <2>3, <2>5, ChannelOther
  <2> QED BY <2>4, <2>5
<1>5. \A q \in Peers : Disconnect(q) => Stutters(t)
  BY <1>3, TopicNames
<1> QED BY <1>1, <1>2, <1>3, <1>4, <1>5 DEF Swarming

\* The tab looks at an event: one of t moves to the end of its queue.
LEMMA ChannelLook ==
  ASSUME DrainInv, NEW t \in HostTopics, batch # <<>>, batch' = Tail(batch),
         UNCHANGED <<events, handed>>,
         rx'[t] = IF IsMessage(Head(batch), t) THEN Append(rx[t], Head(batch).frame) ELSE rx[t]
  PROVE  Stutters(t)
<1>1. PICK q, m : q = batch \o events /\ m = MessagesOn(t, Tail(q))
  OBVIOUS
<1>2. /\ q \in Seq(Shaped) /\ q # <<>> /\ Head(q) = Head(batch) /\ batch' \o events' = Tail(q)
      /\ Head(q) \in Shaped /\ Tail(q) \in Seq(Shaped)
  BY <1>1, WaitingTypes, ConcatParts, HeadTail
<1>3. m \in Seq(Nat) /\ rx[t] \in Seq(Nat) /\ Head(batch).frame \in Nat
  BY <1>1, <1>2, WaitingTypes, MessagesAre, ShapedFields
<1>4. MessagesOn(t, q) = IF IsMessage(Head(batch), t) THEN <<Head(batch).frame>> \o m ELSE m
  BY <1>1, <1>2, MessagesTail
<1>5. Append(rx[t], Head(batch).frame) \o m = rx[t] \o (<<Head(batch).frame>> \o m)
  BY <1>3, ConcatAppend
<1>6. WaitingOn(t)' = WaitingOn(t)
  BY <1>1, <1>2, <1>4, <1>5, WaitingNext DEF WaitingOn
<1> QED BY <1>6 DEF Stutters

LEMMA ChannelDraining ==
  ASSUME DrainInv, Draining, NEW t \in HostTopics
  PROVE  Channel(t)!Next \/ Stutters(t)
<1>1. rx \in [Topics -> Seq(Nat)] /\ t \in Topics /\ t \notin {Chat, Identity}
  BY TopicNames, NamesAssumption DEF DrainInv, OutboxInv, TypeInv, InTypes
<1>2. CASE DrainJoined \/ DrainLeft \/ DrainPeerDown \/ DrainError
  <2>1. /\ batch # <<>> /\ batch' = Tail(batch) /\ UNCHANGED <<events, handed, rx>>
        /\ ~IsMessage(Head(batch), t)
    BY <1>2 DEF DrainJoined, DrainLeft, DrainPeerDown, DrainError, NextEvent, inHistory, IsMessage
  <2> QED BY <2>1, ChannelLook
<1>3. CASE DrainChat \/ DrainIdentity
  <2>1. /\ batch # <<>> /\ batch' = Tail(batch) /\ UNCHANGED <<events, handed, rx>>
        /\ ~IsMessage(Head(batch), t)
    BY <1>1, <1>3 DEF DrainChat, DrainIdentity, NextEvent, inHistory, IsMessage
  <2> QED BY <2>1, ChannelLook
<1>4. CASE DrainOpaque
  <2>1. /\ batch # <<>> /\ batch' = Tail(batch) /\ UNCHANGED <<events, handed>>
        /\ Head(batch).kind = "message"
        /\ rx' = [rx EXCEPT ![Head(batch).topic] =
                    Append(rx[Head(batch).topic], Head(batch).frame)]
    BY <1>4 DEF DrainOpaque, NextEvent, inHistory
  <2>2. rx'[t] = IF IsMessage(Head(batch), t) THEN Append(rx[t], Head(batch).frame) ELSE rx[t]
    BY <1>1, <2>1 DEF IsMessage
  <2> QED BY <2>1, <2>2, ChannelLook
<1>5. CASE (\E y \in Topics : FlushTopic(y)) \/ ReturnPending
  <2>1. UNCHANGED <<rx, batch, events, handed>>
    BY <1>5 DEF FlushTopic, ReturnPending, tab, inHistory
  <2> QED BY <2>1, ChannelSame
<1>6. CASE ReturnFrames
  <2>1. /\ call \in HostTopics /\ call \in Topics /\ batch = <<>> /\ events = <<>>
        /\ batch' = <<>> /\ events' = <<>>
        /\ rx' = [rx EXCEPT ![call] = <<>>] /\ handed' = [handed EXCEPT ![call] = rx[call]]
        /\ handed \in [Topics -> Seq(Nat)]
    BY <1>6, TopicNames DEF ReturnFrames, DrainInv, OutboxInv, TypeInv, InTypes
  <2>2. MessagesOn(t, batch \o events) = <<>> /\ MessagesOn(t, batch' \o events') = <<>>
    BY <2>1, MessagesNone
  <2>3. CASE t = call
    <3>1. WaitingOn(t) = rx[t]
      BY <1>1, <2>2 DEF WaitingOn
    <3>2. WaitingOn(t)' = <<>>
      BY <1>1, <2>1, <2>2, <2>3, WaitingNext
    <3>3. handed'[t] = rx[t]
      BY <1>1, <2>1, <2>3
    <3> QED BY <3>1, <3>2, <3>3 DEF Channel!Take, Channel!Next
  <2>4. CASE t # call
    BY <1>1, <2>1, <2>2, <2>4, ChannelSame
  <2> QED BY <2>3, <2>4
<1> QED BY <1>2, <1>3, <1>4, <1>5, <1>6 DEF Draining

LEMMA ChannelStep ==
  ASSUME DrainInv, [Next]_vars, NEW t \in HostTopics
  PROVE  Channel(t)!Next \/ Stutters(t)
<1>1. CASE \/ \E y \in HostTopics : PublishOpaque(y) \/ SubscribeOpaque(y)
           \/ PublishChat \/ RepublishBindings \/ InitNet \/ UNCHANGED vars
  <2>1. UNCHANGED <<rx, batch, events, handed>>
    BY <1>1 DEF PublishOpaque, SubscribeOpaque, PublishChat, RepublishBindings, InitNet, tab,
                inHistory, vars
  <2> QED BY <2>1, ChannelSame
<1>2. ASSUME NEW c \in HostTopics \cup {Poll}, StartDrain(c)
      PROVE  Channel(t)!Next
  <2>1. /\ batch = <<>> /\ batch' = events /\ events' = <<>> /\ UNCHANGED rx
        /\ handed' = [y \in Topics |-> <<>>]
    BY <1>2 DEF StartDrain, tab, DrainInv, OutboxInv, IdleInv
  <2>2. batch' \o events' = batch \o events
    BY <2>1, WaitingTypes, ConcatParts, EmptyIsSeq
  <2>3. WaitingOn(t)' = WaitingOn(t)
    BY <2>1, <2>2, WaitingNext DEF WaitingOn
  <2>4. handed'[t] = <<>>
    BY <2>1, TopicNames
  <2> QED BY <2>3, <2>4 DEF Channel!Done, Channel!Next
<1>3. CASE Swarming
  BY <1>3, ChannelSwarming
<1>4. CASE Draining
  BY <1>4, ChannelDraining
<1> QED BY <1>1, <1>2, <1>3, <1>4 DEF Next

\* Between the wire and recv_bytes no frame of a host topic is lost, doubled or
\* moved before another, however many drains the calls for other topics cause
\* (drain_net_events and RxState in crates/laye-p2p/src/{wasm,state}.rs): each
\* host topic is a FrameChannel.
THEOREM ChannelImplemented == Spec => ImplementsChannel
<1>1. ASSUME Init, NEW t \in HostTopics
      PROVE  Channel(t)!Init
  <2>1. rx[t] = <<>> /\ handed[t] = <<>> /\ batch = <<>> /\ events = <<>>
    BY <1>1, TopicNames DEF Init
  <2>2. WaitingOn(t) = <<>>
    BY <2>1, MessagesNone DEF WaitingOn
  <2> QED BY <2>1, <2>2 DEF Channel!Init
<1>2. Init => \A t \in HostTopics : Channel(t)!Init
  BY <1>1
<1>3. DrainInv /\ [Next]_vars =>
        [\A t \in HostTopics :
           Channel(t)!Next \/ UNCHANGED <<WaitingOn(t), handed[t]>>]_vars
  BY ChannelStep DEF Stutters
<1>4. Init => DrainInv
  BY DrainInit
<1>5. DrainInv /\ [Next]_vars => DrainInv'
  BY DrainStep
<1> QED BY <1>2, <1>3, <1>4, <1>5, PTL DEF Spec, ImplementsChannel
=============================================================================
