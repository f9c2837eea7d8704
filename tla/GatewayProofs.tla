--------------------------- MODULE GatewayProofs ---------------------------
(* Proofs about the module Gateway, for every set of connections and topics,  *)
(* every sink capacity and every amount of traffic.                           *)
EXTENDS Gateway, TLAPS

\* A connection in the middle of its read turn has a frame in hand.
FrameInHand == \A c \in Conns : Reading(c) => made[c] > 0

TypeInv == TypeOK /\ FrameInHand

\* The n-th frame of a source is a frame.
LEMMA FrameIsFrame ==
  ASSUME NEW s \in Sources, NEW n \in 1..Budget[s]
  PROVE  <<s, n>> \in Frames
BY DEF Frames

LEMMA HeadTail ==
  ASSUME NEW S, NEW q \in Seq(S), q # <<>>
  PROVE  Head(q) \in S /\ Tail(q) \in Seq(S) /\ Len(q) > 0
OBVIOUS

LEMMA AppendType ==
  ASSUME NEW S, NEW q \in Seq(S), NEW x \in S
  PROVE  Append(q, x) \in Seq(S)
OBVIOUS

\* What the fields of the broadcast under way are.
LEMMA FanFields ==
  ASSUME fan \in Fans
  PROVE  /\ fan.by \in Sources \cup {None} /\ fan.topic \in Topics \cup {None}
         /\ fan.frame \in Frames \cup {None}
         /\ fan.rest \in Seq(Conns) /\ fan.kept \in Seq(Conns)
BY DEF Fans

LEMMA FreeFields ==
  /\ Free \in Fans
  /\ Free.by = None /\ Free.topic = None /\ Free.frame = None
  /\ Free.rest = <<>> /\ Free.kept = <<>>
BY DEF Free, Fans

\* A sink is visited: it leaves the list of those still to visit, and stays
\* registered if its connection lives.
LEMMA VisitLive ==
  ASSUME fan \in Fans, fan.rest # <<>>,
         fan' = [fan EXCEPT !.rest = Tail(@), !.kept = Append(@, Head(fan.rest))]
  PROVE  /\ fan' \in Fans
         /\ fan'.by = fan.by /\ fan'.topic = fan.topic /\ fan'.frame = fan.frame
         /\ fan'.rest = Tail(fan.rest) /\ fan'.kept = Append(fan.kept, Head(fan.rest))
<1>1. Tail(fan.rest) \in Seq(Conns) /\ Append(fan.kept, Head(fan.rest)) \in Seq(Conns)
  BY FanFields, HeadTail, AppendType
<1>2. fan' \in Fans
  BY <1>1 DEF Fans
<1> QED BY <1>1, <1>2 DEF Fans

LEMMA VisitDead ==
  ASSUME fan \in Fans, fan.rest # <<>>, fan' = [fan EXCEPT !.rest = Tail(@)]
  PROVE  /\ fan' \in Fans
         /\ fan'.by = fan.by /\ fan'.topic = fan.topic /\ fan'.frame = fan.frame
         /\ fan'.rest = Tail(fan.rest) /\ fan'.kept = fan.kept
<1>1. Tail(fan.rest) \in Seq(Conns)
  BY FanFields, HeadTail
<1>2. fan' \in Fans
  BY <1>1 DEF Fans
<1> QED BY <1>1, <1>2 DEF Fans

LEMMA FreeIsNotHeld == fan.rest # <<>> => fan # Free
BY FreeFields

\* Pushing to a full sink drops a frame first: the cap is never exceeded.
LEMMA PushedBound ==
  ASSUME NEW S, NEW q \in Seq(S), Len(q) <= Cap, NEW f \in S
  PROVE  Pushed(q, f) \in Seq(S) /\ Len(Pushed(q, f)) <= Cap
BY CapAssumption DEF Pushed

LEMMA TypeInit == Init => TypeInv
<1> SUFFICES ASSUME Init PROVE TypeInv
  OBVIOUS
<1> USE CapAssumption, BudgetAssumption, NamesAssumption
<1>1. TypeOK
  BY FreeFields DEF Init, TypeOK, Sources
<1>2. FrameInHand
  BY FreeFields DEF Init, FrameInHand, Reading, Sources
<1> QED BY <1>1, <1>2 DEF TypeInv

LEMMA TypeStep == TypeInv /\ [Next]_vars => TypeInv'
<1> SUFFICES ASSUME TypeInv, [Next]_vars PROVE TypeInv'
  OBVIOUS
<1> USE DEF TypeInv, TypeOK, FrameInHand, Reading, history, sinkVars
<1>1. ASSUME NEW c \in Conns, Accept(c) PROVE TypeInv'
  <2>1. registry' \in [Topics -> Seq(Conns)]
    BY <1>1, TopicAssumption, AppendType DEF Accept, Subscribe
  <2> QED BY <1>1, <2>1 DEF Accept
<1>2. ASSUME NEW c \in Conns, HandshakeFails(c) PROVE TypeInv'
  BY <1>2 DEF HandshakeFails
<1>3. ASSUME NEW c \in Conns, Collapse(c) PROVE TypeInv'
  BY <1>3, CapAssumption DEF Collapse
<1>4. ASSUME NEW s \in Sources, NEW t \in Topics, BroadcastFrom(s, t),
             UNCHANGED <<registry, conn, queue, permit, writer, owes, cmds, meshTopics,
                         taken, published, refused>>
      PROVE TypeInv'
  <2> DEFINE f == <<s, made[s] + 1>>
  <2>1. f \in Frames
    <3>1. made[s] \in Nat /\ Budget[s] \in Nat /\ made[s] < Budget[s]
      BY <1>4, BudgetAssumption DEF BroadcastFrom
    <3>2. made[s] + 1 \in 1..Budget[s]
      BY <3>1
    <3> QED BY <3>2, FrameIsFrame
  <2>2. made' \in [Sources -> Nat] /\ (\A x \in Sources : made'[x] <= Budget[x])
    <3>1. /\ made[s] \in Nat /\ Budget[s] \in Nat /\ made[s] < Budget[s]
          /\ made' = [made EXCEPT ![s] = made[s] + 1]
      BY <1>4, BudgetAssumption DEF BroadcastFrom
    <3>2. made[s] + 1 \in Nat /\ made[s] + 1 <= Budget[s]
      BY <3>1
    <3> QED BY <3>1, <3>2
  <2>3. log' \in [Topics -> Seq(Frames)]
    BY <1>4, <2>1, AppendType DEF BroadcastFrom
  <2>4. fan' = [by |-> s, topic |-> t, frame |-> f, rest |-> registry[t], kept |-> <<>>]
    BY <1>4 DEF BroadcastFrom
  <2>5. fan' \in Fans /\ fan'.by = s /\ fan'.topic = t /\ fan'.frame = f
    <3> HIDE DEF f
    <3> QED BY <2>1, <2>4 DEF Fans
  <2>6. FrameInHand'
    BY <1>4, <2>5 DEF BroadcastFrom, Sources
  <2> QED BY <1>4, <2>1, <2>2, <2>3, <2>5, <2>6
<1>5. ASSUME FanLive PROVE TypeInv'
  <2> DEFINE c == Head(fan.rest)
  <2>1. c \in Conns /\ fan.frame \in Frames /\ fan # Free
    BY <1>5, FreeIsNotHeld, FanFields, HeadTail DEF FanLive
  <2>2. queue' \in [Conns -> Seq(Frames)] /\ (\A x \in Conns : Len(queue'[x]) <= Cap)
    BY <1>5, <2>1, PushedBound DEF FanLive, Push
  <2>3. /\ permit' \in [Conns -> BOOLEAN]
        /\ writer' \in [Conns -> {"check", "park", "waiting", "sending"}]
    BY <1>5, <2>1 DEF FanLive, Push, NotifyOne
  <2>4. /\ fan' \in Fans
        /\ fan'.by = fan.by /\ fan'.topic = fan.topic /\ fan'.frame = fan.frame
    BY <1>5, VisitLive DEF FanLive
  <2> QED BY <1>5, <2>1, <2>2, <2>3, <2>4 DEF FanLive
<1>6. ASSUME FanDead PROVE TypeInv'
  <2>1. /\ fan' \in Fans
        /\ fan'.by = fan.by /\ fan'.topic = fan.topic /\ fan'.frame = fan.frame
    BY <1>6, VisitDead DEF FanDead
  <2> QED BY <1>6, <2>1, FreeIsNotHeld DEF FanDead
<1>7. ASSUME FanDone PROVE TypeInv'
  <2>1. registry' \in [Topics -> Seq(Conns)] /\ owes' \subseteq Conns
    BY <1>7, FanFields DEF FanDone
  <2>2. fan' = Free /\ fan'.by = None
    BY <1>7, FreeFields DEF FanDone
  <2>3. FrameInHand'
    BY <1>7, <2>2, NamesAssumption DEF FanDone, Sources
  <2> QED BY <1>7, <2>1, <2>2, <2>3, FreeFields DEF FanDone
<1>8. ASSUME NEW c \in Conns, SendCmd(c) PROVE TypeInv'
  <2> DEFINE m == [topic |-> TopicOf[c], bytes |-> <<c, made[c]>>]
  <2>1. <<c, made[c]>> \in Frames
    <3>1. c \in Sources /\ made[c] \in 1..Budget[c]
      BY <1>8, BudgetAssumption DEF SendCmd, Sources
    <3> QED BY <3>1, FrameIsFrame
  <2>2. m \in Cmds
    BY <2>1, TopicAssumption DEF Cmds
  <2>3. cmds' \in Seq(Cmds)
    BY <1>8, <2>2, AppendType DEF SendCmd
  <2> QED BY <1>8, <2>3 DEF SendCmd
<1>9. ASSUME SwarmPublish PROVE TypeInv'
  <2>1. Head(cmds) \in Cmds /\ cmds' \in Seq(Cmds)
    BY <1>9, HeadTail DEF SwarmPublish
  <2>2. Head(cmds).bytes \in Frames
    BY <2>1 DEF Cmds
  <2> DEFINE f == Head(cmds).bytes
  <2>3. published' \in Seq(Frames) /\ refused' \subseteq Frames
    <3>1. Append(published, f) \in Seq(Frames) /\ refused \cup {f} \subseteq Frames
      BY <2>2, AppendType
    <3>2. \/ published' = Append(published, f) /\ refused' = refused
          \/ published' = published /\ refused' = refused \cup {f}
      BY <1>9 DEF SwarmPublish
    <3> HIDE DEF f
    <3> QED BY <3>1, <3>2
  <2> QED BY <1>9, <2>1, <2>3 DEF SwarmPublish
<1>10. ASSUME NEW c \in Conns, Pop(c) PROVE TypeInv'
  <2>1. queue' \in [Conns -> Seq(Frames)] /\ (\A x \in Conns : Len(queue'[x]) <= Cap)
    BY <1>10, CapAssumption DEF Pop
  <2>2. taken' \in [Conns -> Seq(Frames)]
    BY <1>10, HeadTail, AppendType DEF Pop
  <2> QED BY <1>10, <2>1, <2>2 DEF Pop
<1>11. ASSUME NEW c \in Conns, FindEmpty(c) \/ Park(c) \/ Sent(c) PROVE TypeInv'
  BY <1>11 DEF FindEmpty, Park, Sent
<1>12. CASE UNCHANGED vars
  BY <1>12 DEF vars
<1> QED
  <2> HIDE DEF TypeInv, TypeOK, FrameInHand, Reading
  <2>1. ASSUME NEW c \in Conns, ReadBinary(c) PROVE TypeInv'
    BY <2>1, <1>4, TopicAssumption DEF ReadBinary, Sources
  <2>2. ASSUME NEW t \in Topics, MeshMessage(t) PROVE TypeInv'
    BY <2>2, <1>4 DEF MeshMessage, Sources
  <2> QED BY <1>1, <1>2, <1>3, <1>5, <1>6, <1>7, <1>8, <1>9, <1>10, <1>11, <1>12, <2>1, <2>2
             DEF Next, ReadEnds, SendFails

\* The type invariant of the gateway; with it, no sink ever holds more than Cap
\* frames (GATEWAY_SINK_CAPACITY).
THEOREM TypeCorrect == Spec => []TypeOK
<1>1. Spec => []TypeInv
  BY TypeInit, TypeStep, PTL DEF Spec
<1> QED BY <1>1, PTL DEF TypeInv

-----------------------------------------------------------------------------
(* No lost wakeup *)

\* NoLostWakeup speaks of live connections only.  A connection that becomes
\* live must bring an empty queue, or it could be parked on a frame from the
\* start: nothing is pushed to a sink that does not exist yet.
WakeupInv ==
  /\ NoLostWakeup
  /\ \A c \in Conns : conn[c] = "new" => queue[c] = <<>>

LEMMA WakeupStep == TypeOK /\ WakeupInv /\ [Next]_vars => WakeupInv'
<1> SUFFICES ASSUME TypeOK, WakeupInv, [Next]_vars PROVE WakeupInv'
  OBVIOUS
<1> USE DEF TypeOK, WakeupInv, NoLostWakeup, history, sinkVars
<1>1. ASSUME NEW c \in Conns, Accept(c) PROVE WakeupInv'
  BY <1>1 DEF Accept
<1>2. ASSUME NEW c \in Conns, HandshakeFails(c) PROVE WakeupInv'
  BY <1>2 DEF HandshakeFails
<1>3. ASSUME NEW c \in Conns, Collapse(c) PROVE WakeupInv'
  BY <1>3 DEF Collapse
<1>4. ASSUME UNCHANGED <<conn, queue, permit, writer>> PROVE WakeupInv'
  BY <1>4
<1>5. ASSUME FanLive PROVE WakeupInv'
  <2> DEFINE c == Head(fan.rest)
  <2>1. /\ c \in Conns /\ conn[c] = "live"
        /\ queue' = [queue EXCEPT ![c] = Pushed(@, fan.frame)]
        /\ NotifyOne(c) /\ conn' = conn
    BY <1>5, FanFields, HeadTail DEF FanLive, Push
  <2> HIDE DEF c
  <2>2. ASSUME NEW x \in Conns, x # c
        PROVE  queue'[x] = queue[x] /\ permit'[x] = permit[x] /\ writer'[x] = writer[x]
    BY <2>1, <2>2 DEF NotifyOne
  <2>3. writer'[c] # "waiting" /\ (writer'[c] = "park" => permit'[c])
    BY <2>1 DEF NotifyOne
  <2> QED BY <2>1, <2>2, <2>3
<1>6. ASSUME NEW c \in Conns, Pop(c) PROVE WakeupInv'
  BY <1>6 DEF Pop, Writing
<1>7. ASSUME NEW c \in Conns, FindEmpty(c) \/ Sent(c) PROVE WakeupInv'
  BY <1>7 DEF FindEmpty, Sent
<1>8. ASSUME NEW c \in Conns, Park(c) PROVE WakeupInv'
  BY <1>8 DEF Park, Writing
<1> QED
  <2> HIDE DEF WakeupInv, TypeOK
  <2>1. ASSUME NEW c \in Conns, ReadBinary(c) \/ SendCmd(c) PROVE WakeupInv'
    BY <2>1, <1>4 DEF ReadBinary, SendCmd
  <2>2. ASSUME NEW t \in Topics, MeshMessage(t) PROVE WakeupInv'
    BY <2>2, <1>4 DEF MeshMessage
  <2>3. ASSUME FanDead \/ FanDone \/ SwarmPublish \/ UNCHANGED vars PROVE WakeupInv'
    BY <2>3, <1>4 DEF FanDead, FanDone, SwarmPublish, vars
  <2> QED BY <1>1, <1>2, <1>3, <1>5, <1>6, <1>7, <1>8, <2>1, <2>2, <2>3
             DEF Next, ReadEnds, SendFails

\* A write pump never sleeps on a queue that holds a frame: the gap between
\* the unlock and notified() in BroadcastSink::next is closed by the permit
\* that notify_one leaves behind.
THEOREM NoWakeupLost == Spec => []NoLostWakeup
<1>1. Init => WakeupInv
  BY DEF Init, WakeupInv, NoLostWakeup
<1>2. Spec => []WakeupInv
  BY <1>1, WakeupStep, TypeCorrect, PTL DEF Spec
<1> QED BY <1>2, PTL DEF WakeupInv

-----------------------------------------------------------------------------
(* One client's frames keep their order on the way to the mesh *)

LEMMA FrameNumber ==
  ASSUME NEW f \in Frames
  PROVE  f[1] \in Sources /\ f[2] \in Nat
BY BudgetAssumption DEF Frames

\* What has been published is in order, what waits in the channel is in order
\* behind it, and a frame in a read pump's hands is newer than both.
ChannelOrdered ==
  \A i, j \in DOMAIN cmds :
    i < j /\ cmds[i].bytes[1] = cmds[j].bytes[1] => cmds[i].bytes[2] < cmds[j].bytes[2]

PublishedFirst ==
  \A i \in DOMAIN published, j \in DOMAIN cmds :
    published[i][1] = cmds[j].bytes[1] => published[i][2] < cmds[j].bytes[2]

\* A frame of c that has left its read pump is one c made, and not the one in hand.
Behind(c, f) == f[1] = c => f[2] <= made[c] /\ (Reading(c) => f[2] < made[c])

InHandIsNewest ==
  \A c \in Conns :
    /\ \A i \in DOMAIN published : Behind(c, published[i])
    /\ \A i \in DOMAIN cmds : Behind(c, cmds[i].bytes)

OneTurn == \A c \in Conns : fan.by = c => c \notin owes

OrderInv == ClientOrderKept /\ ChannelOrdered /\ PublishedFirst /\ InHandIsNewest /\ OneTurn

LEMMA OrderInit == Init => OrderInv
BY FreeFields, NamesAssumption
   DEF Init, OrderInv, ClientOrderKept, ChannelOrdered, PublishedFirst, InHandIsNewest, OneTurn, Sources

LEMMA OrderStep == TypeInv /\ OrderInv /\ [Next]_vars => OrderInv'
<1> SUFFICES ASSUME TypeInv, OrderInv, [Next]_vars PROVE OrderInv'
  OBVIOUS
<1> USE DEF OrderInv
<1>a. /\ cmds \in Seq(Cmds) /\ published \in Seq(Frames) /\ made \in [Sources -> Nat]
      /\ fan \in Fans /\ owes \subseteq Conns
  BY DEF TypeInv, TypeOK
<1>b. ASSUME NEW i \in DOMAIN cmds
      PROVE  /\ cmds[i] \in Cmds
             /\ cmds[i].bytes[1] \in Sources /\ cmds[i].bytes[2] \in Nat
  <2>1. cmds[i] \in Cmds
    BY <1>a
  <2> QED BY <2>1, FrameNumber DEF Cmds
<1>c. ASSUME NEW i \in DOMAIN published
      PROVE  published[i][1] \in Sources /\ published[i][2] \in Nat
  BY <1>a, FrameNumber
<1>1. ASSUME UNCHANGED <<published, cmds, made, owes>>, fan'.by = fan.by PROVE OrderInv'
  BY <1>1 DEF ClientOrderKept, ChannelOrdered, PublishedFirst, InHandIsNewest, Behind, OneTurn, Reading
<1>2. ASSUME NEW s \in Sources, NEW t \in Topics, BroadcastFrom(s, t),
             s \in Conns => ~Reading(s), UNCHANGED <<published, cmds, owes>>
      PROVE  OrderInv'
  <2>1. fan'.by = s /\ made' = [made EXCEPT ![s] = @ + 1]
    BY <1>2 DEF BroadcastFrom
  <2>2. \A c \in Conns : Reading(c)' => c = s \/ Reading(c)
    BY <1>2, <2>1 DEF Reading
  <2>3. ClientOrderKept' /\ ChannelOrdered' /\ PublishedFirst'
    BY <1>2 DEF ClientOrderKept, ChannelOrdered, PublishedFirst
  <2>4. ASSUME NEW c \in Conns, NEW f, f[2] \in Nat, Behind(c, f) PROVE Behind(c, f)'
    <3>1. made[c] \in Nat /\ made[s] \in Nat
      BY <1>a DEF Sources
    <3>2. CASE c = s
      BY <2>1, <2>4, <3>1, <3>2, <1>a DEF Behind
    <3>3. CASE c # s
      BY <2>1, <2>2, <2>4, <3>1, <3>3, <1>a DEF Behind, Sources
    <3> QED BY <3>2, <3>3
  <2>5. InHandIsNewest'
    BY <1>2, <1>b, <1>c, <2>4 DEF InHandIsNewest
  <2>6. OneTurn'
    BY <1>2, <2>1 DEF OneTurn, Reading
  <2> QED BY <2>3, <2>5, <2>6
<1>3. ASSUME FanDone PROVE OrderInv'
  <2>1. /\ fan'.by = None /\ UNCHANGED <<published, cmds, made>>
        /\ owes' = IF fan.by \in Conns THEN owes \cup {fan.by} ELSE owes
    BY <1>3, FreeFields DEF FanDone, history
  <2>2. \A c \in Conns : Reading(c)' <=> Reading(c)
    BY <2>1, NamesAssumption DEF Reading, Sources
  <2> QED BY <2>1, <2>2, NamesAssumption
          DEF ClientOrderKept, ChannelOrdered, PublishedFirst, InHandIsNewest, Behind, OneTurn, Sources
<1>4. ASSUME NEW c \in Conns, SendCmd(c) PROVE OrderInv'
  <2> DEFINE m == [topic |-> TopicOf[c], bytes |-> <<c, made[c]>>]
  <2>1. /\ cmds' = Append(cmds, m) /\ owes' = owes \ {c} /\ c \in owes
        /\ UNCHANGED <<published, made, fan>>
    BY <1>4 DEF SendCmd, history
  <2>2. m.bytes[1] = c /\ m.bytes[2] = made[c] /\ made[c] \in Nat
    BY <1>a DEF Sources
  <2> HIDE DEF m
  <2>3. /\ DOMAIN cmds' = DOMAIN cmds \cup {Len(cmds) + 1}
        /\ \A i \in DOMAIN cmds : cmds'[i] = cmds[i] /\ i < Len(cmds) + 1
        /\ cmds'[Len(cmds) + 1] = m
    BY <1>a, <2>1
  <2>4. /\ \A i \in DOMAIN published : published[i][1] = c => published[i][2] < made[c]
        /\ \A i \in DOMAIN cmds : cmds[i].bytes[1] = c => cmds[i].bytes[2] < made[c]
    BY <2>1 DEF InHandIsNewest, Behind, Reading
  <2>5. ClientOrderKept'
    BY <2>1 DEF ClientOrderKept
  <2>6. ChannelOrdered'
    <3>1. ASSUME NEW i \in DOMAIN cmds', NEW j \in DOMAIN cmds', i < j
          PROVE  i \in DOMAIN cmds /\ (j \in DOMAIN cmds \/ j = Len(cmds) + 1)
      <4>1. i # Len(cmds) + 1
        BY <1>a, <2>3, <3>1
      <4> QED BY <2>3, <4>1
    <3> QED BY <2>2, <2>3, <2>4, <3>1 DEF ChannelOrdered
  <2>7. PublishedFirst'
    BY <2>1, <2>2, <2>3, <2>4 DEF PublishedFirst
  <2>8. /\ ~Reading(c)'
        /\ \A x \in Conns : Reading(x)' => Reading(x)
    BY <2>1 DEF Reading, OneTurn
  <2>9. InHandIsNewest'
    BY <2>1, <2>2, <2>3, <2>8 DEF InHandIsNewest, Behind
  <2>10. OneTurn'
    BY <2>1 DEF OneTurn
  <2> QED BY <2>5, <2>6, <2>7, <2>9, <2>10
<1>5. ASSUME SwarmPublish PROVE OrderInv'
  <2> DEFINE f == Head(cmds).bytes
  <2>1. /\ cmds # <<>> /\ cmds' = Tail(cmds) /\ UNCHANGED <<made, owes, fan>>
        /\ published' = published \/ published' = Append(published, f)
    BY <1>5 DEF SwarmPublish
  <2>2. /\ 1 \in DOMAIN cmds /\ f = cmds[1].bytes
        /\ \A i \in DOMAIN cmds' : i + 1 \in DOMAIN cmds /\ cmds'[i] = cmds[i + 1] /\ i \in Nat \ {0}
    BY <1>a, <2>1
  <2> HIDE DEF f
  <2>3. f[1] \in Sources /\ f[2] \in Nat
    BY <1>b, <2>2
  <2>4. ChannelOrdered'
    <3>1. ASSUME NEW i \in DOMAIN cmds', NEW j \in DOMAIN cmds', i < j
          PROVE  i + 1 < j + 1
      BY <2>2, <3>1
    <3> QED BY <2>2, <3>1 DEF ChannelOrdered
  <2>5. \A j \in DOMAIN cmds' : f[1] = cmds'[j].bytes[1] => f[2] < cmds'[j].bytes[2]
    <3>1. \A j \in DOMAIN cmds' : 1 < j + 1
      BY <2>2
    <3> QED BY <2>2, <3>1 DEF ChannelOrdered
  <2>6. \A i \in DOMAIN published, j \in DOMAIN cmds' :
          published[i][1] = cmds'[j].bytes[1] => published[i][2] < cmds'[j].bytes[2]
    BY <2>2 DEF PublishedFirst
  <2>7. \A c \in Conns : /\ Reading(c)' <=> Reading(c)
                         /\ \A i \in DOMAIN cmds' : Behind(c, cmds[i + 1].bytes)
                         /\ Behind(c, f)
    BY <2>1, <2>2 DEF Reading, InHandIsNewest
  <2>8. OneTurn'
    BY <2>1 DEF OneTurn
  <2>9. CASE published' = published
    BY <2>1, <2>2, <2>4, <2>6, <2>7, <2>8, <2>9
       DEF ClientOrderKept, PublishedFirst, InHandIsNewest, Behind
  <2>10. CASE published' = Append(published, f)
    <3>1. /\ DOMAIN published' = DOMAIN published \cup {Len(published) + 1}
          /\ \A i \in DOMAIN published : published'[i] = published[i] /\ i < Len(published) + 1
          /\ published'[Len(published) + 1] = f
      BY <1>a, <2>10
    <3>2. \A i \in DOMAIN published : published[i][1] = f[1] => published[i][2] < f[2]
      BY <2>2 DEF PublishedFirst
    <3>3. ClientOrderKept'
      BY <3>1, <3>2, <1>a DEF ClientOrderKept
    <3>4. PublishedFirst'
      BY <3>1, <2>5, <2>6 DEF PublishedFirst
    <3>5. InHandIsNewest'
      BY <3>1, <2>1, <2>2, <2>7 DEF InHandIsNewest, Behind
    <3> QED BY <2>4, <2>8, <3>3, <3>4, <3>5
  <2> QED BY <2>1, <2>9, <2>10
<1> QED
  <2> HIDE DEF OrderInv
  <2>1. ASSUME NEW c \in Conns, ReadBinary(c) PROVE OrderInv'
    BY <2>1, <1>2, TopicAssumption DEF ReadBinary, Sources
  <2>2. ASSUME NEW t \in Topics, MeshMessage(t) PROVE OrderInv'
    BY <2>2, <1>2, NamesAssumption DEF MeshMessage, Sources
  <2>3. ASSUME FanLive PROVE OrderInv'
    BY <2>3, <1>1, <1>a, VisitLive DEF FanLive, history
  <2>4. ASSUME FanDead PROVE OrderInv'
    BY <2>4, <1>1, <1>a, VisitDead DEF FanDead, history
  <2>5. ASSUME NEW c \in Conns, Accept(c) \/ HandshakeFails(c) \/ Collapse(c) \/ FindEmpty(c)
                              \/ Park(c) \/ Sent(c) \/ Pop(c)
        PROVE OrderInv'
    BY <2>5, <1>1 DEF Accept, HandshakeFails, Collapse, FindEmpty, Park, Sent, Pop, history
  <2>6. CASE UNCHANGED vars
    BY <2>6, <1>1 DEF vars
  <2> QED BY <1>3, <1>4, <1>5, <2>1, <2>2, <2>3, <2>4, <2>5, <2>6
             DEF Next, ReadEnds, SendFails

\* Frames of one client reach gossipsub in the order the client sent them.
THEOREM OrderKept == Spec => []ClientOrderKept
<1>1. Spec => []TypeInv
  BY TypeInit, TypeStep, PTL DEF Spec
<1>2. Spec => []OrderInv
  BY <1>1, OrderInit, OrderStep, PTL DEF Spec
<1> QED BY <1>2, PTL DEF OrderInv
-----------------------------------------------------------------------------
(* No frame of a client disappears between its read pump and the mesh *)

\* Where the n-th frame of c can be: gossipsub has taken or refused it, its
\* command is in the channel, or it is the one in c's hands.
OnWay(c, n) ==
  \/ <<c, n>> \in Items(published) \cup refused
  \/ \E i \in DOMAIN cmds : cmds[i].bytes = <<c, n>>
  \/ n = made[c] /\ Reading(c)

\* Every frame a client sent is at every moment on its way to gossipsub or has
\* been there: a connection that closes, a sink that overflows and a publish
\* that fails lose none of them.  (handle_client's read pump: broadcast, then
\* gateway_cmd; the main loop's command arm.)  What OfferedToMesh adds is that
\* the way ends.
OnItsWay == \A c \in Conns : \A n \in 1..made[c] : OnWay(c, n)

LEMMA OnItsWayInit == Init => OnItsWay
<1> SUFFICES ASSUME Init, NEW c \in Conns PROVE 1..made[c] = {}
  BY DEF OnItsWay
<1>1. made[c] = 0
  BY DEF Init, Sources
<1> QED BY <1>1

LEMMA OnItsWayStep == TypeInv /\ OneTurn /\ OnItsWay /\ [Next]_vars => OnItsWay'
<1> SUFFICES ASSUME TypeInv, OneTurn, OnItsWay, [Next]_vars PROVE OnItsWay'
  OBVIOUS
<1>a. /\ cmds \in Seq(Cmds) /\ published \in Seq(Frames) /\ made \in [Sources -> Nat]
      /\ fan \in Fans
  BY DEF TypeInv, TypeOK
<1>1. ASSUME UNCHANGED <<published, refused, cmds, made, owes>>, fan'.by = fan.by
      PROVE OnItsWay'
  <2>1. \A c \in Conns : Reading(c) => Reading(c)'
    BY <1>1 DEF Reading
  <2>2. Items(published)' = Items(published)
    BY <1>1 DEF Items
  <2>3. ASSUME NEW c \in Conns, NEW n \in 1..made[c], OnWay(c, n) PROVE OnWay(c, n)'
    BY <1>1, <2>1, <2>2, <2>3 DEF OnWay
  <2> QED BY <1>1, <2>3 DEF OnItsWay
<1>2. ASSUME NEW s \in Sources, NEW t \in Topics, BroadcastFrom(s, t),
             s \in Conns => ~Reading(s), UNCHANGED <<published, refused, cmds, owes>>
      PROVE  OnItsWay'
  <2>1. fan'.by = s /\ made' = [made EXCEPT ![s] = made[s] + 1] /\ fan.by = None
    BY <1>2, FreeFields DEF BroadcastFrom
  <2>2. ASSUME NEW c \in Conns, NEW n \in 1..made'[c] PROVE OnWay(c, n)'
    <3>1. made[c] \in Nat /\ c \in Sources
      BY <1>a DEF Sources
    <3>2. CASE c = s /\ n = made[c] + 1
      <4>1. n = made'[c] /\ Reading(c)'
        BY <1>a, <2>1, <3>1, <3>2 DEF Reading
      <4> QED BY <4>1 DEF OnWay
    <3>3. CASE ~(c = s /\ n = made[c] + 1)
      <4>1. n \in 1..made[c]
        <5>1. made'[c] = IF c = s THEN made[c] + 1 ELSE made[c]
          BY <1>a, <2>1, <3>1
        <5> QED BY <3>1, <3>3, <5>1
      <4>2. OnWay(c, n)
        BY <4>1 DEF OnItsWay
      <4>3. ~(n = made[c] /\ Reading(c)) \/ c # s
        BY <1>2
      <4>4. c # s => (made'[c] = made[c] /\ (Reading(c) => Reading(c)'))
        BY <1>2, <2>1, <1>a, <3>1, NamesAssumption DEF Reading
      <4> QED BY <1>2, <4>2, <4>3, <4>4 DEF OnWay, Items
    <3> QED BY <3>2, <3>3
  <2> QED BY <2>2 DEF OnItsWay
<1>3. ASSUME FanDone PROVE OnItsWay'
  <2>1. /\ fan'.by = None /\ UNCHANGED <<published, refused, cmds, made>>
        /\ owes' = IF fan.by \in Conns THEN owes \cup {fan.by} ELSE owes
    BY <1>3, FreeFields DEF FanDone, history
  <2>2. \A c \in Conns : Reading(c) => Reading(c)'
    BY <2>1 DEF Reading
  <2>3. Items(published)' = Items(published)
    BY <2>1 DEF Items
  <2>4. ASSUME NEW c \in Conns, NEW n \in 1..made[c], OnWay(c, n) PROVE OnWay(c, n)'
    BY <2>1, <2>2, <2>3, <2>4 DEF OnWay
  <2> QED BY <2>1, <2>4 DEF OnItsWay
<1>4. ASSUME NEW c \in Conns, SendCmd(c) PROVE OnItsWay'
  <2> DEFINE m == [topic |-> TopicOf[c], bytes |-> <<c, made[c]>>]
  <2>1. /\ cmds' = Append(cmds, m) /\ owes' = owes \ {c}
        /\ UNCHANGED <<published, refused, made, fan>>
    BY <1>4 DEF SendCmd, history
  <2>2. m.bytes = <<c, made[c]>>
    OBVIOUS
  <2> HIDE DEF m
  <2>3. /\ \A i \in DOMAIN cmds : i \in DOMAIN cmds' /\ cmds'[i] = cmds[i]
        /\ Len(cmds) + 1 \in DOMAIN cmds' /\ cmds'[Len(cmds) + 1] = m
    BY <1>a, <2>1
  <2>4. ASSUME NEW d \in Conns, NEW n \in 1..made[d] PROVE OnWay(d, n)'
    <3>1. OnWay(d, n)
      BY DEF OnItsWay
    <3>2. CASE d = c /\ n = made[d]
      BY <2>2, <2>3, <3>2 DEF OnWay
    <3>3. CASE n = made[d] /\ d # c
      <4>1. Reading(d) => Reading(d)'
        BY <2>1, <3>3 DEF Reading
      <4> QED BY <2>1, <2>3, <3>1, <4>1 DEF OnWay, Items
    <3>4. CASE n # made[d]
      BY <2>1, <2>3, <3>1, <3>4 DEF OnWay, Items
    <3> QED BY <3>2, <3>3, <3>4
  <2> QED BY <2>1, <2>4 DEF OnItsWay
<1>5. ASSUME SwarmPublish PROVE OnItsWay'
  <2>0. PICK f : f = Head(cmds).bytes
    OBVIOUS
  <2>1. /\ cmds # <<>> /\ cmds' = Tail(cmds) /\ UNCHANGED <<made, owes, fan>>
        /\ (published' = Append(published, f) /\ refused' = refused)
           \/ (refused' = refused \cup {f} /\ published' = published)
    BY <1>5, <2>0 DEF SwarmPublish
  <2>2. /\ cmds[1].bytes = f
        /\ \A i \in DOMAIN cmds : i # 1 => i - 1 \in DOMAIN cmds' /\ cmds'[i - 1] = cmds[i]
    BY <1>a, <2>0, <2>1
  <2>3. f \in Items(published)' \cup refused'
    <3>1. CASE published' = Append(published, f)
      <4>1. Len(published) + 1 \in DOMAIN published' /\ published'[Len(published) + 1] = f
        BY <1>a, <3>1
      <4> QED BY <4>1 DEF Items
    <3> QED BY <2>1, <3>1
  <2>4. Items(published) \subseteq Items(published)' /\ refused \subseteq refused'
    <3>1. CASE published' = Append(published, f)
      <4>1. \A i \in DOMAIN published : i \in DOMAIN published' /\ published'[i] = published[i]
        BY <1>a, <3>1
      <4> QED BY <2>1, <4>1 DEF Items
    <3> QED BY <2>1, <3>1 DEF Items
  <2>5. ASSUME NEW d \in Conns, NEW n \in 1..made[d] PROVE OnWay(d, n)'
    <3>1. OnWay(d, n)
      BY DEF OnItsWay
    <3>2. CASE <<d, n>> \in Items(published) \cup refused
      BY <2>4, <3>2 DEF OnWay
    <3>3. ASSUME NEW i \in DOMAIN cmds, cmds[i].bytes = <<d, n>> PROVE OnWay(d, n)'
      <4>1. CASE i = 1
        BY <2>2, <2>3, <3>3, <4>1 DEF OnWay
      <4>2. CASE i # 1
        <5>1. i - 1 \in DOMAIN cmds' /\ cmds'[i - 1].bytes = <<d, n>>
          BY <2>2, <3>3, <4>2
        <5> QED BY <5>1 DEF OnWay
      <4> QED BY <4>1, <4>2
    <3>4. CASE n = made[d] /\ Reading(d)
      BY <2>1, <3>4 DEF OnWay, Reading
    <3> QED BY <3>1, <3>2, <3>3, <3>4 DEF OnWay
  <2> QED BY <2>1, <2>5 DEF OnItsWay
<1> QED
  <2>1. ASSUME NEW c \in Conns, ReadBinary(c) PROVE OnItsWay'
    BY <2>1, <1>2, TopicAssumption DEF ReadBinary, Sources
  <2>2. ASSUME NEW t \in Topics, MeshMessage(t) PROVE OnItsWay'
    BY <2>2, <1>2, NamesAssumption DEF MeshMessage, Sources
  <2>3. ASSUME FanLive PROVE OnItsWay'
    BY <2>3, <1>1, <1>a, VisitLive DEF FanLive, history
  <2>4. ASSUME FanDead PROVE OnItsWay'
    BY <2>4, <1>1, <1>a, VisitDead DEF FanDead, history
  <2>5. ASSUME NEW c \in Conns, Accept(c) \/ HandshakeFails(c) \/ Collapse(c) \/ FindEmpty(c)
                              \/ Park(c) \/ Sent(c) \/ Pop(c)
        PROVE OnItsWay'
    BY <2>5, <1>1 DEF Accept, HandshakeFails, Collapse, FindEmpty, Park, Sent, Pop, history
  <2>6. CASE UNCHANGED vars
    BY <2>6, <1>1 DEF vars
  <2> QED BY <1>3, <1>4, <1>5, <2>1, <2>2, <2>3, <2>4, <2>5, <2>6
             DEF Next, ReadEnds, SendFails

\* No frame of a client is lost between its read pump and gossipsub.
THEOREM NoFrameLost == Spec => []OnItsWay
<1>1. Spec => [](TypeInv /\ OneTurn)
  <2>1. Spec => []TypeInv
    BY TypeInit, TypeStep, PTL DEF Spec
  <2>2. Spec => []OrderInv
    BY <2>1, OrderInit, OrderStep, PTL DEF Spec
  <2>3. OrderInv => OneTurn
    BY DEF OrderInv
  <2> QED BY <2>1, <2>2, <2>3, PTL
<1> QED BY <1>1, OnItsWayInit, OnItsWayStep, PTL DEF Spec
-----------------------------------------------------------------------------
(* Every live connection is registered once *)

Injective(s) == \A i, j \in DOMAIN s : s[i] = s[j] => i = j

\* Each connection is in the lists of its own topic at most once, dead or alive,
\* and not before it was accepted; a live one is in them.
RegisteredInv ==
  /\ \A t \in Topics :
       /\ Injective(Listed(t))
       /\ \A i \in DOMAIN Listed(t) : TopicOf[Listed(t)[i]] = t /\ conn[Listed(t)[i]] # "new"
  /\ \A c \in Conns : conn[c] = "live" => c \in Items(Listed(TopicOf[c]))

LEMMA ConcatFacts ==
  ASSUME NEW S, NEW p \in Seq(S), NEW q \in Seq(S)
  PROVE  /\ p \o q \in Seq(S) /\ Len(p \o q) = Len(p) + Len(q)
         /\ \A i \in 1..Len(p) : (p \o q)[i] = p[i]
         /\ \A i \in (Len(p) + 1)..(Len(p) + Len(q)) : (p \o q)[i] = q[i - Len(p)]
OBVIOUS

\* The list under way when its next sink is kept ...
LEMMA KeptList ==
  ASSUME NEW S, NEW p \in Seq(S), NEW q \in Seq(S), q # <<>>
  PROVE  Append(p, Head(q)) \o Tail(q) = p \o q
OBVIOUS

\* ... and when it is dropped.
LEMMA DroppedList ==
  ASSUME NEW S, NEW p \in Seq(S), NEW q \in Seq(S), q # <<>>
  PROVE  /\ p \o Tail(q) \in Seq(S) /\ p \o q \in Seq(S)
         /\ Len(p \o q) = Len(p) + Len(q) /\ Len(p \o Tail(q)) = Len(p) + Len(q) - 1
         /\ Len(p) \in Nat /\ Len(q) \in Nat \ {0}
         /\ (p \o q)[Len(p) + 1] = Head(q)
         /\ \A i \in 1..Len(p) : (p \o Tail(q))[i] = (p \o q)[i]
         /\ \A i \in (Len(p) + 1)..(Len(p) + Len(q) - 1) : (p \o Tail(q))[i] = (p \o q)[i + 1]
<1>1. /\ Tail(q) \in Seq(S) /\ Len(Tail(q)) = Len(q) - 1 /\ Len(q) \in Nat \ {0}
      /\ \A i \in 1..(Len(q) - 1) : Tail(q)[i] = q[i + 1]
      /\ Head(q) = q[1] /\ Len(p) \in Nat
  OBVIOUS
<1>2. /\ p \o q \in Seq(S) /\ Len(p \o q) = Len(p) + Len(q)
      /\ \A i \in 1..Len(p) : (p \o q)[i] = p[i]
      /\ \A i \in (Len(p) + 1)..(Len(p) + Len(q)) : (p \o q)[i] = q[i - Len(p)]
  BY ConcatFacts
<1>3. /\ p \o Tail(q) \in Seq(S) /\ Len(p \o Tail(q)) = Len(p) + (Len(q) - 1)
      /\ \A i \in 1..Len(p) : (p \o Tail(q))[i] = p[i]
      /\ \A i \in (Len(p) + 1)..(Len(p) + (Len(q) - 1)) : (p \o Tail(q))[i] = Tail(q)[i - Len(p)]
  BY <1>1, ConcatFacts
<1>4. ASSUME NEW i \in (Len(p) + 1)..(Len(p) + Len(q) - 1)
      PROVE  (p \o Tail(q))[i] = (p \o q)[i + 1]
  <2>1. /\ i \in (Len(p) + 1)..(Len(p) + (Len(q) - 1)) /\ i - Len(p) \in 1..(Len(q) - 1)
        /\ i + 1 \in (Len(p) + 1)..(Len(p) + Len(q)) /\ (i - Len(p)) + 1 = (i + 1) - Len(p)
    BY <1>1
  <2> QED BY <1>1, <1>2, <1>3, <2>1
<1>5. Len(p) + 1 \in (Len(p) + 1)..(Len(p) + Len(q)) /\ (Len(p) + 1) - Len(p) = 1
  BY <1>1
<1> QED BY <1>1, <1>2, <1>3, <1>4, <1>5

LEMMA ListedType ==
  ASSUME TypeOK, NEW t \in Topics
  PROVE  Listed(t) \in Seq(Conns)
BY FanFields DEF TypeOK, Listed
\* A step that moves no list and only lets connections go.
LEMMA RegisteredQuiet ==
  ASSUME RegisteredInv, \A t \in Topics : Listed(t)' = Listed(t),
         \A c \in Conns : /\ conn'[c] = "live" => conn[c] = "live"
                          /\ conn'[c] = "new" => conn[c] = "new",
         TypeOK
  PROVE  RegisteredInv'
<1>1. \A t \in Topics : \A i \in DOMAIN Listed(t) : Listed(t)[i] \in Conns
  BY ListedType
<1>2. \A t \in Topics :
        /\ Injective(Listed(t)')
        /\ \A i \in DOMAIN Listed(t)' :
             TopicOf[Listed(t)'[i]] = t /\ conn'[Listed(t)'[i]] # "new"
  BY <1>1 DEF RegisteredInv
<1>3. \A c \in Conns : conn'[c] = "live" => c \in Items(Listed(TopicOf[c])')
  BY TopicAssumption DEF RegisteredInv
<1> QED BY <1>2, <1>3 DEF RegisteredInv, Injective, Items

LEMMA ListedFree ==
  ASSUME NEW t \in Topics
  PROVE  /\ fan = Free => Listed(t) = registry[t]
         /\ fan' = Free => Listed(t)' = registry'[t]
BY FreeFields, NamesAssumption DEF Listed

LEMMA RegisteredAccept ==
  ASSUME TypeOK, RegisteredInv, NEW c \in Conns, Accept(c)
  PROVE  RegisteredInv'
<1>1. /\ fan = Free /\ fan' = Free /\ conn[c] = "new"
      /\ registry \in [Topics -> Seq(Conns)] /\ conn \in [Conns -> {"new", "live", "gone"}]
      /\ registry' = [registry EXCEPT ![TopicOf[c]] = Append(@, c)]
      /\ conn' = [conn EXCEPT ![c] = "live"] /\ TopicOf[c] \in Topics
  BY TopicAssumption DEF TypeOK, Accept, Subscribe
<1>2. \A t \in Topics : Listed(t) = registry[t] /\ Listed(t)' = registry'[t]
  BY <1>1, ListedFree
<1>3. \A t \in Topics : c \notin Items(registry[t])
  BY <1>1, <1>2 DEF RegisteredInv, Items
<1>4. ASSUME NEW t \in Topics
      PROVE  /\ Injective(registry'[t])
             /\ \A i \in DOMAIN registry'[t] :
                  TopicOf[registry'[t][i]] = t /\ conn'[registry'[t][i]] # "new"
  <2>1. /\ registry[t] \in Seq(Conns) /\ Injective(registry[t])
        /\ \A i \in DOMAIN registry[t] :
             TopicOf[registry[t][i]] = t /\ conn[registry[t][i]] # "new" /\ registry[t][i] \in Conns
    BY <1>1, <1>2 DEF RegisteredInv
  <2>2. CASE t # TopicOf[c]
    <3>1. registry'[t] = registry[t]
      BY <1>1, <2>2
    <3> QED BY <1>1, <2>1, <3>1
  <2>3. CASE t = TopicOf[c]
    <3>1. registry'[t] = Append(registry[t], c)
      BY <1>1, <2>3
    <3>2. /\ DOMAIN registry'[t] = DOMAIN registry[t] \cup {Len(registry[t]) + 1}
          /\ \A i \in DOMAIN registry[t] : registry'[t][i] = registry[t][i]
          /\ registry'[t][Len(registry[t]) + 1] = c
      BY <2>1, <3>1
    <3>3. \A i \in DOMAIN registry[t] : registry[t][i] # c
      BY <1>3 DEF Items
    <3>4. Injective(registry'[t])
      BY <2>1, <3>2, <3>3 DEF Injective
    <3> QED BY <1>1, <2>1, <2>3, <3>2, <3>4
  <2> QED BY <2>2, <2>3
<1>5. ASSUME NEW d \in Conns, conn'[d] = "live"
      PROVE  d \in Items(registry'[TopicOf[d]])
  <2>1. TopicOf[d] \in Topics /\ registry[TopicOf[d]] \in Seq(Conns)
    BY <1>1, TopicAssumption
  <2>2. CASE d = c
    <3>1. registry'[TopicOf[c]] = Append(registry[TopicOf[c]], c)
      BY <1>1
    <3>2. /\ Len(registry[TopicOf[c]]) + 1 \in DOMAIN registry'[TopicOf[c]]
          /\ registry'[TopicOf[c]][Len(registry[TopicOf[c]]) + 1] = c
      BY <2>1, <2>2, <3>1
    <3> QED BY <2>2, <3>2 DEF Items
  <2>3. CASE d # c
    <3>1. PICK i \in DOMAIN registry[TopicOf[d]] : registry[TopicOf[d]][i] = d
      BY <1>1, <1>2, <1>5, <2>1, <2>3 DEF RegisteredInv, Items
    <3>2. i \in DOMAIN registry'[TopicOf[d]] /\ registry'[TopicOf[d]][i] = d
      BY <1>1, <2>1, <3>1
    <3> QED BY <3>2 DEF Items
  <2> QED BY <2>2, <2>3
<1>6. \A d \in Conns : TopicOf[d] \in Topics
  BY TopicAssumption
<1> QED BY <1>2, <1>4, <1>5, <1>6 DEF RegisteredInv, Injective, Items

LEMMA RegisteredDead ==
  ASSUME TypeOK, RegisteredInv, FanDead
  PROVE  RegisteredInv'
<1>0. PICK h, x, old, new, n :
        /\ h = Head(fan.rest) /\ x = fan.topic /\ n = Len(fan.kept)
        /\ old = fan.kept \o fan.rest /\ new = fan.kept \o Tail(fan.rest)
  OBVIOUS
<1>1. /\ fan \in Fans /\ fan.rest # <<>> /\ fan.rest \in Seq(Conns) /\ fan.kept \in Seq(Conns)
      /\ h \in Conns /\ conn[h] # "live" /\ x \in Topics
      /\ registry' = registry /\ conn' = conn
  BY <1>0, FanFields, HeadTail, FreeIsNotHeld DEF TypeOK, FanDead
<1>2. fan'.topic = x /\ fan'.rest = Tail(fan.rest) /\ fan'.kept = fan.kept
  BY <1>0, <1>1, VisitDead DEF FanDead
<1>3. \A t \in Topics \ {x} : Listed(t)' = Listed(t)
  BY <1>0, <1>1, <1>2 DEF Listed
<1>4. Listed(x) = old /\ Listed(x)' = new
  BY <1>0, <1>1, <1>2 DEF Listed
<1>5. /\ new \in Seq(Conns) /\ old \in Seq(Conns)
      /\ Len(new) = Len(old) - 1 /\ n \in Nat /\ n + 1 \in DOMAIN old /\ old[n + 1] = h
      /\ \A i \in 1..n : new[i] = old[i]
      /\ \A i \in (n + 1)..Len(new) : new[i] = old[i + 1]
      /\ Len(old) \in Nat /\ n <= Len(new)
  <2>1. PICK m, q, k : m = Len(fan.rest) /\ q = fan.rest /\ k = fan.kept
    OBVIOUS
  <2>2. /\ q \in Seq(Conns) /\ k \in Seq(Conns) /\ q # <<>> /\ m = Len(q) /\ n = Len(k)
        /\ h = Head(q) /\ old = k \o q /\ new = k \o Tail(q)
    BY <1>0, <1>1, <2>1
  <2>3. /\ new \in Seq(Conns) /\ old \in Seq(Conns)
        /\ Len(old) = n + m /\ Len(new) = n + m - 1
        /\ n \in Nat /\ m \in Nat \ {0}
        /\ old[n + 1] = h
        /\ \A i \in 1..n : new[i] = old[i]
        /\ \A i \in (n + 1)..(n + m - 1) : new[i] = old[i + 1]
    BY <2>2, DroppedList
  <2>4. Len(new) = Len(old) - 1 /\ Len(old) \in Nat /\ n <= Len(new) /\ n + 1 \in 1..Len(old)
    BY <2>3
  <2>5. DOMAIN old = 1..Len(old)
    BY <2>3
  <2> QED BY <2>3, <2>4, <2>5
<1>6. \A i \in DOMAIN new : \/ i \in DOMAIN old /\ i <= n /\ new[i] = old[i]
                            \/ i + 1 \in DOMAIN old /\ i > n /\ new[i] = old[i + 1]
  BY <1>5
<1>7. \A i \in DOMAIN new : i \in Nat
  BY <1>5
<1>8. /\ Injective(old)
      /\ \A i \in DOMAIN old : TopicOf[old[i]] = x /\ conn[old[i]] # "new"
  BY <1>1, <1>4 DEF RegisteredInv
<1>9. Injective(new)
  <2> SUFFICES ASSUME NEW i \in DOMAIN new, NEW j \in DOMAIN new, new[i] = new[j]
               PROVE  i = j
    BY DEF Injective
  <2> QED BY <1>5, <1>6, <1>7, <1>8 DEF Injective
<1>10. \A i \in DOMAIN new : TopicOf[new[i]] = x /\ conn'[new[i]] # "new"
  BY <1>1, <1>6, <1>8
<1>11. \A t \in Topics :
        /\ Injective(Listed(t)')
        /\ \A i \in DOMAIN Listed(t)' :
             TopicOf[Listed(t)'[i]] = t /\ conn'[Listed(t)'[i]] # "new"
  BY <1>1, <1>3, <1>4, <1>9, <1>10 DEF RegisteredInv
<1>12. ASSUME NEW c \in Conns, conn'[c] = "live"
       PROVE  c \in Items(Listed(TopicOf[c])')
  <2>1. TopicOf[c] \in Topics /\ c \in Items(Listed(TopicOf[c]))
    BY <1>1, <1>12, TopicAssumption DEF RegisteredInv
  <2>2. CASE TopicOf[c] # x
    BY <1>3, <2>1, <2>2
  <2>3. CASE TopicOf[c] = x
    <3>1. PICK i \in DOMAIN old : old[i] = c
      BY <1>4, <2>1, <2>3 DEF Items
    <3>2. i # n + 1
      BY <1>1, <1>5, <1>12, <3>1
    <3>3. CASE i \in 1..n
      <4>1. i \in DOMAIN new /\ new[i] = c
        BY <1>5, <3>1, <3>3
      <4> QED BY <1>4, <2>3, <4>1 DEF Items
    <3>4. CASE ~(i \in 1..n)
      <4>1. i - 1 \in (n + 1)..Len(new) /\ i - 1 \in DOMAIN new /\ (i - 1) + 1 = i
        BY <1>5, <3>1, <3>2, <3>4
      <4>2. new[i - 1] = c
        BY <1>5, <3>1, <4>1
      <4> QED BY <1>4, <2>3, <4>1, <4>2 DEF Items
    <3> QED BY <3>3, <3>4
  <2> QED BY <2>2, <2>3
<1> QED BY <1>11, <1>12 DEF RegisteredInv, Injective, Items

LEMMA RegisteredInit == Init => RegisteredInv
<1> SUFFICES ASSUME Init PROVE RegisteredInv
  OBVIOUS
<1>1. \A t \in Topics : Listed(t) = <<>>
  BY ListedFree DEF Init
<1> QED BY <1>1 DEF Init, RegisteredInv, Injective

LEMMA RegisteredStep == TypeOK /\ RegisteredInv /\ [Next]_vars => RegisteredInv'
<1> SUFFICES ASSUME TypeOK, RegisteredInv, [Next]_vars PROVE RegisteredInv'
  OBVIOUS
<1>1. ASSUME NEW c \in Conns, Accept(c) PROVE RegisteredInv'
  BY <1>1, RegisteredAccept
<1>2. ASSUME NEW c \in Conns, HandshakeFails(c) \/ Collapse(c) PROVE RegisteredInv'
  BY <1>2, RegisteredQuiet DEF HandshakeFails, Collapse, Listed, TypeOK
<1>3. ASSUME NEW s \in Sources, NEW t \in Topics, BroadcastFrom(s, t), UNCHANGED <<registry, conn>>
      PROVE  RegisteredInv'
  <2>1. /\ fan = Free /\ fan'.topic = t /\ fan'.rest = registry[t] /\ fan'.kept = <<>>
        /\ registry[t] \in Seq(Conns)
    BY <1>3 DEF BroadcastFrom, TypeOK
  <2>2. fan'.kept \o fan'.rest = registry[t]
    BY <2>1
  <2>3. \A x \in Topics : Listed(x)' = Listed(x)
    BY <1>3, <2>1, <2>2, ListedFree DEF Listed
  <2> QED BY <1>3, <2>3, RegisteredQuiet
<1>4. CASE FanLive
  <2>1. /\ fan \in Fans /\ fan.rest # <<>> /\ registry' = registry /\ conn' = conn
        /\ fan' = [fan EXCEPT !.rest = Tail(@), !.kept = Append(@, Head(fan.rest))]
    BY <1>4 DEF FanLive, TypeOK
  <2>2. /\ fan'.topic = fan.topic
        /\ fan'.rest = Tail(fan.rest) /\ fan'.kept = Append(fan.kept, Head(fan.rest))
    BY <2>1, VisitLive
  <2>3. fan'.kept \o fan'.rest = fan.kept \o fan.rest
    BY <2>1, <2>2, FanFields, KeptList
  <2>4. \A x \in Topics : Listed(x)' = Listed(x)
    BY <2>1, <2>2, <2>3 DEF Listed
  <2> QED BY <2>1, <2>4, RegisteredQuiet
<1>5. CASE FanDead
  BY <1>5, RegisteredDead
<1>6. CASE FanDone
  <2>1. /\ fan # Free /\ fan.rest = <<>> /\ fan.kept \in Seq(Conns) /\ fan.topic \in Topics
        /\ registry' = [registry EXCEPT ![fan.topic] = fan.kept]
        /\ registry \in [Topics -> Seq(Conns)]
        /\ fan' = Free /\ conn' = conn
    BY <1>6, FanFields DEF FanDone, TypeOK
  <2>2. fan.kept \o fan.rest = fan.kept
    BY <2>1
  <2>3. \A x \in Topics : Listed(x)' = registry'[x]
    BY <2>1, ListedFree
  <2>4. \A x \in Topics : registry'[x] = IF x = fan.topic THEN fan.kept ELSE registry[x]
    BY <2>1
  <2>5. \A x \in Topics : Listed(x)' = Listed(x)
    BY <2>2, <2>3, <2>4 DEF Listed
  <2> QED BY <2>1, <2>5, RegisteredQuiet
<1>7. ASSUME UNCHANGED <<registry, fan, conn>> PROVE RegisteredInv'
  BY <1>7, RegisteredQuiet DEF Listed
<1>8. ASSUME NEW c \in Conns, ReadBinary(c) PROVE RegisteredInv'
  BY <1>8, <1>3, TopicAssumption DEF ReadBinary, Sources
<1>9. ASSUME NEW t \in Topics, MeshMessage(t) PROVE RegisteredInv'
  BY <1>9, <1>3 DEF MeshMessage, Sources
<1>10. ASSUME NEW c \in Conns, SendCmd(c) \/ Pop(c) \/ FindEmpty(c) \/ Park(c) \/ Sent(c)
       PROVE  RegisteredInv'
  BY <1>10, <1>7 DEF SendCmd, Pop, FindEmpty, Park, Sent
<1>11. CASE SwarmPublish \/ UNCHANGED vars
  BY <1>11, <1>7 DEF SwarmPublish, vars
<1> QED BY <1>1, <1>2, <1>4, <1>5, <1>6, <1>8, <1>9, <1>10, <1>11 DEF Next, ReadEnds, SendFails

\* Pruning the dead references in the middle of a broadcast, while connections
\* come and go, neither loses nor doubles a live one (TopicRegistry::subscribe
\* and the retain of TopicRegistry::broadcast).
THEOREM RegisteredOnce == Spec => []LiveRegisteredOnce
<1>1. Spec => [](TypeOK /\ RegisteredInv)
  BY TypeCorrect, RegisteredInit, RegisteredStep, PTL DEF Spec
<1>2. TypeOK /\ RegisteredInv => LiveRegisteredOnce
  BY TopicAssumption DEF RegisteredInv, LiveRegisteredOnce, Once, Items, Injective
<1> QED BY <1>1, <1>2, PTL
-----------------------------------------------------------------------------
(* A live sink holds the newest frames *)

\* q is the part of the log l that ends at position r.
EndsAt(q, l, r) ==
  /\ Len(q) <= r
  /\ \A i \in 1..Len(q) : q[i] = l[r - Len(q) + i]

\* What a queue must be for the newest frames to be in it after the next step:
\* a broadcast under way carries the last frame of its topic's log, and a sink
\* nobody holds is empty.
NewestInv ==
  /\ \A c \in Conns : conn[c] = "live" => EndsAt(queue[c], log[TopicOf[c]], Reached(c))
  /\ \A c \in Conns : conn[c] # "live" => queue[c] = <<>>
  /\ fan # Free => /\ Len(log[fan.topic]) >= 1
                   /\ fan.frame = log[fan.topic][Len(log[fan.topic])]

\* The next frame of the log is pushed ...
LEMMA PushedEnds ==
  ASSUME NEW S, NEW q \in Seq(S), Len(q) <= Cap, NEW l, NEW r \in Nat, NEW f \in S,
         f = l[r + 1], EndsAt(q, l, r)
  PROVE  /\ EndsAt(Pushed(q, f), l, r + 1)
         /\ Len(Pushed(q, f)) = IF Len(q) = Cap THEN Cap ELSE Len(q) + 1
<1>1. Len(q) \in Nat /\ Cap \in Nat \ {0}
  BY CapAssumption
<1>2. CASE Len(q) = Cap
  <2>1. PICK p : p = Tail(q)
    OBVIOUS
  <2>2. /\ p \in Seq(S) /\ Len(p) = Len(q) - 1 /\ q # <<>>
        /\ \A i \in 1..Len(p) : p[i] = q[i + 1]
    BY <1>1, <1>2, <2>1
  <2>3. Pushed(q, f) = Append(p, f)
    BY <1>1, <1>2, <2>1 DEF Pushed
  <2>4. /\ Len(Append(p, f)) = Len(q) /\ Append(p, f)[Len(q)] = f
        /\ \A i \in 1..Len(p) : Append(p, f)[i] = p[i]
    BY <2>2
  <2>5. ASSUME NEW i \in 1..Len(q) PROVE Append(p, f)[i] = l[(r + 1) - Len(q) + i]
    <3>1. CASE i = Len(q)
      BY <1>1, <2>4, <3>1
    <3>2. CASE i # Len(q)
      <4>1. i \in 1..Len(p) /\ i + 1 \in 1..Len(q) /\ r - Len(q) + (i + 1) = (r + 1) - Len(q) + i
        BY <1>1, <2>2, <3>2
      <4> QED BY <2>2, <2>4, <4>1 DEF EndsAt
    <3> QED BY <3>1, <3>2
  <2> QED BY <1>1, <1>2, <2>3, <2>4, <2>5 DEF EndsAt
<1>3. CASE Len(q) # Cap
  <2>1. Pushed(q, f) = Append(q, f)
    BY <1>1, <1>3 DEF Pushed
  <2>2. /\ Len(Append(q, f)) = Len(q) + 1 /\ Append(q, f)[Len(q) + 1] = f
        /\ \A i \in 1..Len(q) : Append(q, f)[i] = q[i]
    OBVIOUS
  <2>3. ASSUME NEW i \in 1..(Len(q) + 1) PROVE Append(q, f)[i] = l[(r + 1) - (Len(q) + 1) + i]
    <3>1. CASE i = Len(q) + 1
      BY <1>1, <2>2, <3>1
    <3>2. CASE i # Len(q) + 1
      <4>1. i \in 1..Len(q) /\ r - Len(q) + i = (r + 1) - (Len(q) + 1) + i
        BY <1>1, <3>2
      <4> QED BY <2>2, <4>1 DEF EndsAt
    <3> QED BY <3>1, <3>2
  <2>4. Len(q) + 1 <= r + 1
    BY <1>1 DEF EndsAt
  <2> QED BY <1>1, <1>3, <2>1, <2>2, <2>3, <2>4 DEF EndsAt
<1> QED BY <1>2, <1>3

\* ... the oldest one is taken ...
LEMMA TailEnds ==
  ASSUME NEW S, NEW q \in Seq(S), q # <<>>, NEW l, NEW r \in Nat, EndsAt(q, l, r)
  PROVE  /\ EndsAt(Tail(q), l, r) /\ Len(Tail(q)) = Len(q) - 1
         /\ Head(q) = l[(r - Len(q)) + 1]
<1>1. PICK p : p = Tail(q)
  OBVIOUS
<1>2. /\ Len(q) \in Nat \ {0} /\ p \in Seq(S) /\ Len(p) = Len(q) - 1 /\ Head(q) = q[1]
      /\ \A i \in 1..Len(p) : p[i] = q[i + 1]
  BY <1>1
<1>3. ASSUME NEW i \in 1..Len(p) PROVE p[i] = l[r - Len(p) + i]
  <2>1. i + 1 \in 1..Len(q) /\ r - Len(q) + (i + 1) = r - Len(p) + i
    BY <1>2
  <2> QED BY <1>2, <2>1 DEF EndsAt
<1>4. Len(p) <= r /\ 1 \in 1..Len(q)
  BY <1>2 DEF EndsAt
<1> QED BY <1>1, <1>2, <1>3, <1>4 DEF EndsAt

\* ... the log grows beyond what the sink was offered.
LEMMA GrownEnds ==
  ASSUME NEW S, NEW q \in Seq(S), NEW l \in Seq(S), NEW r \in Nat, r <= Len(l), NEW f \in S,
         EndsAt(q, l, r)
  PROVE  EndsAt(q, Append(l, f), r)
<1>1. Len(q) \in Nat /\ \A i \in 1..Len(l) : Append(l, f)[i] = l[i]
  OBVIOUS
<1>2. ASSUME NEW i \in 1..Len(q) PROVE r - Len(q) + i \in 1..Len(l)
  BY <1>1 DEF EndsAt
<1> QED BY <1>1, <1>2 DEF EndsAt

\* The sinks still to visit follow the topic of the broadcast, each once.
LEMMA RestListed ==
  ASSUME TypeOK, RegisteredInv, fan.rest # <<>>
  PROVE  /\ fan.topic \in Topics /\ fan.rest \in Seq(Conns) /\ Injective(fan.rest)
         /\ \A i \in DOMAIN fan.rest : TopicOf[fan.rest[i]] = fan.topic
<1>1. /\ fan.topic \in Topics /\ fan.rest \in Seq(Conns) /\ fan.kept \in Seq(Conns)
  BY FreeIsNotHeld, FanFields DEF TypeOK
<1>2. PICK k, r, n : k = fan.kept /\ r = fan.rest /\ n = Len(fan.kept)
  OBVIOUS
<1>3. k \in Seq(Conns) /\ r \in Seq(Conns) /\ n = Len(k) /\ n \in Nat /\ Len(r) \in Nat
  BY <1>1, <1>2
<1>4. /\ k \o r \in Seq(Conns) /\ Len(k \o r) = n + Len(r)
      /\ \A i \in (n + 1)..(n + Len(r)) : (k \o r)[i] = r[i - n]
  BY <1>3, ConcatFacts
<1>5. ASSUME NEW i \in DOMAIN r
      PROVE  i + n \in DOMAIN (k \o r) /\ (k \o r)[i + n] = r[i] /\ i \in Nat
  <2>1. i \in 1..Len(r)
    BY <1>3
  <2>2. i + n \in (n + 1)..(n + Len(r)) /\ (i + n) - n = i
    BY <1>3, <2>1
  <2> QED BY <1>3, <1>4, <2>1, <2>2
<1>6. /\ Injective(k \o r)
      /\ \A i \in DOMAIN (k \o r) : TopicOf[(k \o r)[i]] = fan.topic
  BY <1>1, <1>2 DEF RegisteredInv, Listed
<1>7. \A i, j \in DOMAIN r : r[i] = r[j] => i = j
  <2> SUFFICES ASSUME NEW i \in DOMAIN r, NEW j \in DOMAIN r, r[i] = r[j] PROVE i = j
    OBVIOUS
  <2>1. i + n = j + n
    BY <1>5, <1>6 DEF Injective
  <2> QED BY <1>3, <1>5, <2>1
<1>8. \A i \in DOMAIN r : TopicOf[r[i]] = fan.topic
  BY <1>5, <1>6
<1> QED BY <1>1, <1>2, <1>7, <1>8 DEF Injective

\* A sink was offered at most what its topic's log holds.
LEMMA ReachedBound ==
  ASSUME TypeOK, RegisteredInv, NewestInv, NEW c \in Conns
  PROVE  /\ Reached(c) \in Nat /\ Reached(c) <= Len(log[TopicOf[c]])
         /\ log[TopicOf[c]] \in Seq(Frames)
<1>1. TopicOf[c] \in Topics /\ log[TopicOf[c]] \in Seq(Frames) /\ Len(log[TopicOf[c]]) \in Nat
  BY TopicAssumption DEF TypeOK
<1>2. CASE c \in Items(fan.rest)
  <2>1. PICK i \in DOMAIN fan.rest : fan.rest[i] = c
    BY <1>2 DEF Items
  <2>2. fan.rest # <<>>
    BY <2>1
  <2>3. TopicOf[c] = fan.topic
    BY <2>1, <2>2, RestListed
  <2>4. Len(log[TopicOf[c]]) >= 1
    BY <2>2, <2>3, FreeIsNotHeld DEF NewestInv
  <2> QED BY <1>1, <1>2, <2>4 DEF Reached
<1>3. CASE c \notin Items(fan.rest)
  BY <1>1, <1>3 DEF Reached
<1> QED BY <1>2, <1>3

LEMMA ReachedCases ==
  ASSUME NEW c \in Conns, Len(log[TopicOf[c]]) \in Nat, Len(log'[TopicOf[c]]) \in Nat
  PROVE  /\ c \in Items(fan.rest) => Reached(c) = Len(log[TopicOf[c]]) - 1
         /\ c \notin Items(fan.rest) => Reached(c) = Len(log[TopicOf[c]])
         /\ c \in Items(fan'.rest) => Reached(c)' = Len(log'[TopicOf[c]]) - 1
         /\ c \notin Items(fan'.rest) => Reached(c)' = Len(log'[TopicOf[c]])
<1>1. PICK x, y, m, n :
        /\ x = IF c \in Items(fan.rest) THEN 1 ELSE 0
        /\ y = IF c \in Items(fan'.rest) THEN 1 ELSE 0
        /\ m = Len(log[TopicOf[c]]) /\ n = Len(log'[TopicOf[c]])
  OBVIOUS
<1>2. Reached(c) = m - x /\ Reached(c)' = n - y
  BY <1>1 DEF Reached
<1>3. /\ m \in Nat /\ n \in Nat
      /\ c \in Items(fan.rest) => x = 1
      /\ c \notin Items(fan.rest) => x = 0
      /\ c \in Items(fan'.rest) => y = 1
      /\ c \notin Items(fan'.rest) => y = 0
  BY <1>1
<1>4. m - 0 = m /\ n - 0 = n
  BY <1>3
<1>5. Len(log[TopicOf[c]]) = m /\ Len(log'[TopicOf[c]]) = n
  BY <1>1
<1> QED BY <1>2, <1>3, <1>4, <1>5

LEMMA ReachedSame ==
  ASSUME fan'.rest = fan.rest, log' = log
  PROVE  \A c \in Conns : Reached(c)' = Reached(c)
BY DEF Reached

\* A new frame is on the log, and the live sinks of the topic are still to visit.
LEMMA ReachedBroadcast ==
  ASSUME TypeOK, RegisteredInv, NEW s \in Sources, NEW t \in Topics, BroadcastFrom(s, t),
         NEW c \in Conns, conn[c] = "live"
  PROVE  Reached(c)' = Reached(c)
<1>1. /\ fan = Free /\ fan'.rest = registry[t] /\ log \in [Topics -> Seq(Frames)]
      /\ log' = [log EXCEPT ![t] = Append(@, <<s, made[s] + 1>>)]
      /\ TopicOf[c] \in Topics
  BY TopicAssumption DEF TypeOK, BroadcastFrom
<1>2. fan.rest = <<>> /\ \A x \in Topics : Listed(x) = registry[x]
  BY <1>1, FreeFields, ListedFree
<1>3. c \notin Items(fan.rest)
  BY <1>2 DEF Items
<1>4. Reached(c) = Len(log[TopicOf[c]]) /\ Len(log[TopicOf[c]]) \in Nat
  BY <1>1, <1>3 DEF Reached
<1>5. CASE TopicOf[c] = t
  <2>1. c \in Items(fan'.rest)
    BY <1>1, <1>2, <1>5 DEF RegisteredInv
  <2>2. Len(log'[t]) = Len(log[t]) + 1
    BY <1>1
  <2> QED BY <1>4, <1>5, <2>1, <2>2, ReachedCases
<1>6. CASE TopicOf[c] # t
  <2>1. \A i \in DOMAIN registry[t] : TopicOf[registry[t][i]] = t
    BY <1>2 DEF RegisteredInv
  <2>2. c \notin Items(fan'.rest)
    BY <1>1, <1>6, <2>1 DEF Items
  <2>3. log'[TopicOf[c]] = log[TopicOf[c]]
    BY <1>1, <1>6
  <2> QED BY <1>4, <2>2, <2>3, ReachedCases
<1> QED BY <1>5, <1>6

\* One sink is visited: it has been offered everything, the others stay.
LEMMA ReachedVisit ==
  ASSUME TypeOK, RegisteredInv, NewestInv, fan.rest # <<>>, fan'.rest = Tail(fan.rest), log' = log,
         NEW h, h = Head(fan.rest)
  PROVE  /\ h \in Conns /\ TopicOf[h] = fan.topic
         /\ Reached(h) + 1 = Len(log[TopicOf[h]])
         /\ Reached(h)' = Reached(h) + 1
         /\ \A c \in Conns \ {h} : Reached(c)' = Reached(c)
<1>1. PICK r, p : r = fan.rest /\ p = Tail(fan.rest)
  OBVIOUS
<1>2. /\ r \in Seq(Conns) /\ Injective(r) /\ r # <<>>
      /\ \A i \in DOMAIN r : TopicOf[r[i]] = fan.topic
  BY <1>1, RestListed
<1>3. /\ h \in Conns /\ p = Tail(r) /\ h = r[1] /\ 1 \in DOMAIN r
      /\ Len(p) = Len(r) - 1 /\ Len(r) \in Nat \ {0} /\ p \in Seq(Conns)
      /\ \A i \in 1..Len(p) : p[i] = r[i + 1]
  BY <1>1, <1>2
<1>4. \A i \in DOMAIN p : i \in 1..Len(p) /\ i + 1 \in DOMAIN r /\ i + 1 # 1 /\ p[i] = r[i + 1]
  BY <1>2, <1>3
<1>5. h \notin Items(p)
  BY <1>2, <1>3, <1>4 DEF Items, Injective
<1>6. \A c \in Conns \ {h} : c \in Items(p) <=> c \in Items(r)
  <2> SUFFICES ASSUME NEW c \in Conns \ {h} PROVE c \in Items(p) <=> c \in Items(r)
    OBVIOUS
  <2>1. ASSUME c \in Items(p) PROVE c \in Items(r)
    BY <1>4, <2>1 DEF Items
  <2>2. ASSUME c \in Items(r) PROVE c \in Items(p)
    <3>1. PICK i \in DOMAIN r : r[i] = c
      BY <2>2 DEF Items
    <3>2. i \in 1..Len(r) /\ i # 1
      BY <1>2, <1>3, <3>1
    <3>3. i - 1 \in 1..Len(p) /\ i - 1 \in DOMAIN p /\ (i - 1) + 1 = i
      BY <1>3, <3>2
    <3>4. p[i - 1] = c
      BY <1>3, <3>1, <3>3
    <3> QED BY <3>3, <3>4 DEF Items
  <2> QED BY <2>1, <2>2
<1>7. h \in Items(r) /\ TopicOf[h] = fan.topic
  BY <1>2, <1>3 DEF Items
<1>8. Len(log[TopicOf[h]]) \in Nat
  BY <1>3, ReachedBound
<1>9. Reached(h) = Len(log[TopicOf[h]]) - 1 /\ Reached(h)' = Len(log[TopicOf[h]])
  BY <1>1, <1>5, <1>7, <1>8 DEF Reached
<1>10. \A c \in Conns \ {h} : Reached(c)' = Reached(c)
  BY <1>1, <1>6 DEF Reached
<1> QED BY <1>3, <1>7, <1>8, <1>9, <1>10

\* A step that moves no queue and no log and offers no frame.
LEMMA NewestQuiet ==
  ASSUME NewestInv, queue' = queue, log' = log,
         \A c \in Conns : /\ conn'[c] = "live" => conn[c] = "live" /\ Reached(c)' = Reached(c)
                          /\ conn'[c] # "live" => conn[c] # "live",
         fan' = Free \/ (fan # Free /\ fan'.topic = fan.topic /\ fan'.frame = fan.frame)
  PROVE  NewestInv'
BY DEF NewestInv

LEMMA NewestBroadcast ==
  ASSUME TypeOK, RegisteredInv, NewestInv, NEW s \in Sources, NEW t \in Topics,
         BroadcastFrom(s, t), conn' = conn, queue' = queue
  PROVE  NewestInv'
<1>1. PICK f : f = <<s, made[s] + 1>>
  OBVIOUS
<1>2. /\ f \in Frames /\ log \in [Topics -> Seq(Frames)] /\ queue \in [Conns -> Seq(Frames)]
      /\ log' = [log EXCEPT ![t] = Append(@, f)]
      /\ fan'.topic = t /\ fan'.frame = f
  <2>1. made[s] \in Nat /\ Budget[s] \in Nat /\ made[s] < Budget[s]
    BY BudgetAssumption DEF TypeOK, BroadcastFrom
  <2>2. made[s] + 1 \in 1..Budget[s]
    BY <2>1
  <2> QED BY <1>1, <2>2, FrameIsFrame DEF TypeOK, BroadcastFrom
<1>3. log'[t] = Append(log[t], f) /\ Len(log'[t]) >= 1 /\ log'[t][Len(log'[t])] = f
  BY <1>2
<1>4. ASSUME NEW c \in Conns, conn[c] = "live"
      PROVE  EndsAt(queue[c], log'[TopicOf[c]], Reached(c)')
  <2>1. Reached(c)' = Reached(c) /\ EndsAt(queue[c], log[TopicOf[c]], Reached(c))
    BY <1>4, ReachedBroadcast DEF NewestInv
  <2>2. /\ TopicOf[c] \in Topics /\ queue[c] \in Seq(Frames) /\ log[TopicOf[c]] \in Seq(Frames)
        /\ Reached(c) \in Nat /\ Reached(c) <= Len(log[TopicOf[c]])
    BY <1>2, ReachedBound, TopicAssumption
  <2>3. CASE TopicOf[c] = t
    <3>1. EndsAt(queue[c], Append(log[t], f), Reached(c))
      BY <1>2, <2>1, <2>2, <2>3, GrownEnds
    <3> QED BY <1>3, <2>1, <2>3, <3>1
  <2>4. CASE TopicOf[c] # t
    BY <1>2, <2>1, <2>2, <2>4
  <2> QED BY <2>3, <2>4
<1> QED BY <1>2, <1>3, <1>4 DEF NewestInv

LEMMA NewestAccept ==
  ASSUME TypeOK, RegisteredInv, NewestInv, NEW c \in Conns, Accept(c)
  PROVE  NewestInv'
<1>1. /\ conn \in [Conns -> {"new", "live", "gone"}] /\ conn[c] = "new"
      /\ conn' = [conn EXCEPT ![c] = "live"]
      /\ fan' = fan /\ fan = Free /\ queue' = queue /\ log' = log
  BY DEF TypeOK, Accept, Subscribe, history
<1>2. \A d \in Conns : Reached(d)' = Reached(d)
  BY <1>1, ReachedSame
<1>3. queue[c] = <<>> /\ Reached(c) \in Nat
  BY <1>1, ReachedBound DEF NewestInv
<1>4. EndsAt(<<>>, log[TopicOf[c]], Reached(c))
  BY <1>3 DEF EndsAt
<1>5. \A d \in Conns : conn'[d] = "live" => EndsAt(queue'[d], log'[TopicOf[d]], Reached(d)')
  BY <1>1, <1>2, <1>3, <1>4 DEF NewestInv
<1>6. \A d \in Conns : conn'[d] # "live" => queue'[d] = <<>>
  BY <1>1 DEF NewestInv
<1> QED BY <1>1, <1>5, <1>6 DEF NewestInv

LEMMA NewestCollapse ==
  ASSUME TypeOK, RegisteredInv, NewestInv, NEW c \in Conns, Collapse(c)
  PROVE  NewestInv'
<1>1. /\ conn \in [Conns -> {"new", "live", "gone"}] /\ queue \in [Conns -> Seq(Frames)]
      /\ conn' = [conn EXCEPT ![c] = "gone"] /\ queue' = [queue EXCEPT ![c] = <<>>]
      /\ fan' = fan /\ log' = log
  BY DEF TypeOK, Collapse, history
<1>2. \A d \in Conns : Reached(d)' = Reached(d)
  BY <1>1, ReachedSame
<1>3. \A d \in Conns \ {c} : conn'[d] = conn[d] /\ queue'[d] = queue[d]
  BY <1>1
<1>4. conn'[c] = "gone" /\ queue'[c] = <<>>
  BY <1>1
<1>5. \A d \in Conns : conn'[d] = "live" => EndsAt(queue'[d], log'[TopicOf[d]], Reached(d)')
  BY <1>1, <1>2, <1>3, <1>4 DEF NewestInv
<1>6. \A d \in Conns : conn'[d] # "live" => queue'[d] = <<>>
  BY <1>3, <1>4 DEF NewestInv
<1> QED BY <1>1, <1>5, <1>6 DEF NewestInv

LEMMA NewestPop ==
  ASSUME TypeOK, RegisteredInv, NewestInv, NEW c \in Conns, Pop(c)
  PROVE  NewestInv'
<1>1. /\ queue \in [Conns -> Seq(Frames)] /\ queue[c] # <<>> /\ conn[c] = "live"
      /\ queue' = [queue EXCEPT ![c] = Tail(@)]
      /\ conn' = conn /\ fan' = fan /\ log' = log
  BY DEF TypeOK, Pop, Writing
<1>2. \A d \in Conns : Reached(d)' = Reached(d)
  BY <1>1, ReachedSame
<1>3. \A d \in Conns \ {c} : queue'[d] = queue[d]
  BY <1>1
<1>4. EndsAt(queue[c], log[TopicOf[c]], Reached(c)) /\ Reached(c) \in Nat /\ queue[c] \in Seq(Frames)
  BY <1>1, ReachedBound DEF NewestInv
<1>5. queue'[c] = Tail(queue[c]) /\ EndsAt(Tail(queue[c]), log[TopicOf[c]], Reached(c))
  BY <1>1, <1>4, TailEnds
<1>6. \A d \in Conns : conn'[d] = "live" => EndsAt(queue'[d], log'[TopicOf[d]], Reached(d)')
  BY <1>1, <1>2, <1>3, <1>5 DEF NewestInv
<1>7. \A d \in Conns : conn'[d] # "live" => queue'[d] = <<>>
  BY <1>1, <1>3 DEF NewestInv
<1> QED BY <1>1, <1>6, <1>7 DEF NewestInv

\* A live sink is visited: what it is given is the next frame of its log.
LEMMA VisitedSink ==
  ASSUME TypeOK, RegisteredInv, NewestInv, FanLive, NEW h, h = Head(fan.rest)
  PROVE  /\ h \in Conns /\ conn[h] = "live" /\ fan.rest # <<>> /\ fan'.rest = Tail(fan.rest)
         /\ fan'.topic = fan.topic /\ fan'.frame = fan.frame
         /\ log' = log /\ conn' = conn /\ taken' = taken
         /\ queue' = [queue EXCEPT ![h] = Pushed(@, fan.frame)]
         /\ queue \in [Conns -> Seq(Frames)] /\ Len(queue[h]) <= Cap
         /\ TopicOf[h] = fan.topic /\ fan.frame \in Frames
         /\ Reached(h) \in Nat /\ Reached(h) + 1 = Len(log[TopicOf[h]])
         /\ Reached(h)' = Reached(h) + 1
         /\ \A d \in Conns \ {h} : Reached(d)' = Reached(d)
         /\ fan.frame = log[TopicOf[h]][Reached(h) + 1]
         /\ EndsAt(queue[h], log[TopicOf[h]], Reached(h))
<1>1. /\ fan \in Fans /\ fan.rest # <<>> /\ conn[h] = "live" /\ queue \in [Conns -> Seq(Frames)]
      /\ queue' = [queue EXCEPT ![h] = Pushed(@, fan.frame)]
      /\ fan' = [fan EXCEPT !.rest = Tail(@), !.kept = Append(@, Head(fan.rest))]
      /\ log' = log /\ conn' = conn /\ taken' = taken
  BY DEF FanLive, Push, TypeOK, history
<1>2. /\ fan'.rest = Tail(fan.rest) /\ fan'.topic = fan.topic /\ fan'.frame = fan.frame
  BY <1>1, VisitLive
<1>3. /\ h \in Conns /\ TopicOf[h] = fan.topic
      /\ Reached(h) + 1 = Len(log[TopicOf[h]])
      /\ Reached(h)' = Reached(h) + 1
      /\ \A c \in Conns \ {h} : Reached(c)' = Reached(c)
  BY <1>1, <1>2, ReachedVisit
<1>4. Reached(h) \in Nat
  BY <1>3, ReachedBound
<1>5. fan # Free
  BY <1>1, FreeIsNotHeld
<1>6. fan.frame \in Frames /\ Len(queue[h]) <= Cap
  BY <1>3, <1>5 DEF TypeOK
<1>7. fan.frame = log[TopicOf[h]][Reached(h) + 1] /\ EndsAt(queue[h], log[TopicOf[h]], Reached(h))
  BY <1>1, <1>3, <1>5 DEF NewestInv
<1> QED BY <1>1, <1>2, <1>3, <1>4, <1>6, <1>7

LEMMA NewestVisit ==
  ASSUME TypeOK, RegisteredInv, NewestInv, FanLive
  PROVE  NewestInv'
<1>1. PICK h, f : h = Head(fan.rest) /\ f = fan.frame
  OBVIOUS
<1>2. /\ h \in Conns /\ conn[h] = "live" /\ fan.rest # <<>>
      /\ fan'.topic = fan.topic /\ fan'.frame = fan.frame
      /\ log' = log /\ conn' = conn
      /\ queue' = [queue EXCEPT ![h] = Pushed(@, f)]
      /\ queue \in [Conns -> Seq(Frames)] /\ Len(queue[h]) <= Cap /\ f \in Frames
      /\ Reached(h) \in Nat /\ Reached(h)' = Reached(h) + 1
      /\ \A d \in Conns \ {h} : Reached(d)' = Reached(d)
      /\ f = log[TopicOf[h]][Reached(h) + 1]
      /\ EndsAt(queue[h], log[TopicOf[h]], Reached(h))
  BY <1>1, VisitedSink
<1>3. queue'[h] = Pushed(queue[h], f) /\ \A d \in Conns \ {h} : queue'[d] = queue[d]
  BY <1>2
<1>4. EndsAt(queue'[h], log[TopicOf[h]], Reached(h) + 1)
  BY <1>2, <1>3, PushedEnds
<1>5. \A d \in Conns : conn'[d] = "live" => EndsAt(queue'[d], log'[TopicOf[d]], Reached(d)')
  BY <1>2, <1>3, <1>4 DEF NewestInv
<1>6. \A d \in Conns : conn'[d] # "live" => queue'[d] = <<>>
  BY <1>2, <1>3 DEF NewestInv
<1>7. fan # Free
  BY <1>2, FreeIsNotHeld
<1> QED BY <1>2, <1>5, <1>6, <1>7 DEF NewestInv

LEMMA NewestInit == Init => NewestInv
<1> SUFFICES ASSUME Init PROVE NewestInv
  OBVIOUS
<1>1. \A c \in Conns : conn[c] = "new" /\ queue[c] = <<>>
  BY DEF Init
<1> QED BY <1>1 DEF Init, NewestInv

LEMMA NewestStep == TypeOK /\ RegisteredInv /\ NewestInv /\ [Next]_vars => NewestInv'
<1> SUFFICES ASSUME TypeOK, RegisteredInv, NewestInv, [Next]_vars PROVE NewestInv'
  OBVIOUS
<1>1. ASSUME queue' = queue, log' = log, conn' = conn, fan' = fan PROVE NewestInv'
  BY <1>1, ReachedSame, NewestQuiet
<1>2. ASSUME NEW c \in Conns, HandshakeFails(c) PROVE NewestInv'
  <2>1. /\ queue' = queue /\ log' = log /\ fan' = fan
        /\ conn[c] = "new" /\ conn' = [conn EXCEPT ![c] = "gone"]
        /\ conn \in [Conns -> {"new", "live", "gone"}]
    BY <1>2 DEF HandshakeFails, history, TypeOK
  <2>2. \A d \in Conns : conn'[d] = "live" <=> conn[d] = "live"
    BY <2>1
  <2> QED BY <2>1, <2>2, ReachedSame, NewestQuiet
<1>3. CASE FanDead
  <2>1. PICK h : h = Head(fan.rest)
    OBVIOUS
  <2>2. /\ fan.rest # <<>> /\ conn[h] # "live" /\ fan \in Fans /\ fan' = [fan EXCEPT !.rest = Tail(@)]
        /\ queue' = queue /\ log' = log /\ conn' = conn
    BY <1>3, <2>1 DEF FanDead, TypeOK, sinkVars, history
  <2>3. fan'.rest = Tail(fan.rest) /\ fan'.topic = fan.topic /\ fan'.frame = fan.frame /\ fan # Free
    BY <2>2, VisitDead, FreeIsNotHeld
  <2>4. \A d \in Conns \ {h} : Reached(d)' = Reached(d)
    BY <2>1, <2>2, <2>3, ReachedVisit
  <2> QED BY <2>2, <2>3, <2>4, NewestQuiet
<1>4. CASE FanDone
  <2>1. fan.rest = <<>> /\ fan' = Free /\ queue' = queue /\ log' = log /\ conn' = conn
    BY <1>4 DEF FanDone, sinkVars, history
  <2> QED BY <2>1, FreeFields, ReachedSame, NewestQuiet
<1>5. ASSUME NEW c \in Conns, ReadBinary(c) PROVE NewestInv'
  BY <1>5, NewestBroadcast, TopicAssumption DEF ReadBinary, Sources, sinkVars
<1>6. ASSUME NEW t \in Topics, MeshMessage(t) PROVE NewestInv'
  BY <1>6, NewestBroadcast DEF MeshMessage, Sources, sinkVars
<1>7. ASSUME NEW c \in Conns, SendCmd(c) \/ FindEmpty(c) \/ Park(c) \/ Sent(c) PROVE NewestInv'
  BY <1>7, <1>1 DEF SendCmd, FindEmpty, Park, Sent, sinkVars, history
<1>8. CASE SwarmPublish \/ UNCHANGED vars
  BY <1>8, <1>1 DEF SwarmPublish, vars, sinkVars
<1> QED BY <1>2, <1>3, <1>4, <1>5, <1>6, <1>7, <1>8, NewestAccept, NewestCollapse, NewestPop, NewestVisit
        DEF Next, ReadEnds, SendFails

\* What a slow client's sink holds is always the newest frames of its topic,
\* without a gap (BroadcastSink::push and next under TopicRegistry::broadcast).
THEOREM NewestKept == Spec => []QueueIsNewest
<1>1. Spec => [](TypeOK /\ RegisteredInv /\ NewestInv)
  BY TypeCorrect, RegisteredInit, RegisteredStep, NewestInit, NewestStep, PTL DEF Spec
<1>2. NewestInv => QueueIsNewest
  BY DEF NewestInv, QueueIsNewest, EndsAt
<1> QED BY <1>1, <1>2, PTL
-----------------------------------------------------------------------------
(* The gateway implements TopicFeed *)

Live == {c \in Conns : conn[c] = "live"}

\* The window of one connection.
LEMMA WindowOf ==
  ASSUME NEW c \in Conns
  PROVE  /\ FeedHi[c] = IF conn[c] = "live" THEN Reached(c) ELSE 0
         /\ FeedLo[c] = FeedHi[c] - Len(queue[c])
         /\ FeedHi'[c] = IF conn'[c] = "live" THEN Reached(c)' ELSE 0
         /\ FeedLo'[c] = FeedHi'[c] - Len(queue'[c])
BY DEF FeedHi, FeedLo

\* A step that only lets the log grow, or does nothing a reader could see.
LEMMA WindowsKept ==
  ASSUME queue' = queue,
         \A c \in Conns : /\ conn'[c] = "live" => conn[c] = "live" /\ Reached(c)' = Reached(c)
                          /\ conn'[c] # "live" => conn[c] # "live"
  PROVE  Live' = Live /\ FeedHi' = FeedHi /\ FeedLo' = FeedLo
<1>1. Live' = Live
  BY DEF Live
<1>2. \A c \in Conns : FeedHi'[c] = FeedHi[c]
  BY WindowOf
<1>3. FeedHi' = FeedHi
  BY <1>2 DEF FeedHi
<1>4. FeedLo' = FeedLo
  BY <1>3 DEF FeedLo
<1> QED BY <1>1, <1>3, <1>4

\* A step that moves the windows of one connection only.
LEMMA WindowMoved ==
  ASSUME NEW h \in Conns, NEW lo, NEW hi,
         \A c \in Conns \ {h} : /\ conn'[c] = conn[c] /\ Reached(c)' = Reached(c)
                                /\ queue'[c] = queue[c],
         FeedHi'[h] = hi, FeedLo'[h] = lo
  PROVE  /\ FeedHi' = [FeedHi EXCEPT ![h] = hi]
         /\ FeedLo' = [FeedLo EXCEPT ![h] = lo]
<1>1. \A c \in Conns \ {h} : FeedHi'[c] = FeedHi[c] /\ FeedLo'[c] = FeedLo[c]
  BY WindowOf
<1>2. FeedHi' = [c \in Conns |-> FeedHi'[c]] /\ FeedLo' = [c \in Conns |-> FeedLo'[c]]
  BY DEF FeedHi, FeedLo
<1>3. FeedHi = [c \in Conns |-> FeedHi[c]] /\ FeedLo = [c \in Conns |-> FeedLo[c]]
  BY DEF FeedHi, FeedLo
<1> QED BY <1>1, <1>2, <1>3

LEMMA FeedStutters ==
  ASSUME queue' = queue, log' = log, taken' = taken,
         \A c \in Conns : /\ conn'[c] = "live" => conn[c] = "live" /\ Reached(c)' = Reached(c)
                          /\ conn'[c] # "live" => conn[c] # "live"
  PROVE  UNCHANGED Feed!feedVars
BY WindowsKept DEF Feed!feedVars, Live

LEMMA FeedFan ==
  ASSUME TypeOK, RegisteredInv, NEW s \in Sources, NEW t \in Topics,
         BroadcastFrom(s, t), conn' = conn, queue' = queue, taken' = taken
  PROVE  Feed!Next
<1>1. <<s, made[s] + 1>> \in Frames
  <2>1. made[s] \in Nat /\ Budget[s] \in Nat /\ made[s] < Budget[s]
    BY BudgetAssumption DEF TypeOK, BroadcastFrom
  <2>2. made[s] + 1 \in 1..Budget[s]
    BY <2>1
  <2> QED BY <2>2, FrameIsFrame
<1>2. \A c \in Conns : conn[c] = "live" => Reached(c)' = Reached(c)
  BY ReachedBroadcast
<1>3. Live' = Live /\ FeedHi' = FeedHi /\ FeedLo' = FeedLo
  BY <1>2, WindowsKept
<1>4. Feed!Fan(t, <<s, made[s] + 1>>)
  BY <1>3 DEF BroadcastFrom, Feed!Fan, Live
<1> QED BY <1>1, <1>4 DEF Feed!Next

LEMMA FeedJoin ==
  ASSUME TypeOK, RegisteredInv, NewestInv, NEW c \in Conns, Accept(c)
  PROVE  Feed!Next
<1>1. /\ conn \in [Conns -> {"new", "live", "gone"}] /\ conn[c] = "new"
      /\ conn' = [conn EXCEPT ![c] = "live"]
      /\ fan' = fan /\ fan = Free /\ queue' = queue /\ log' = log /\ taken' = taken
  BY DEF TypeOK, Accept, Subscribe, history
<1>2. \A d \in Conns : Reached(d)' = Reached(d)
  BY <1>1, ReachedSame
<1>3. Len(log[TopicOf[c]]) \in Nat
  BY TopicAssumption DEF TypeOK
<1>4. c \notin Items(fan.rest)
  BY <1>1, FreeFields DEF Items
<1>5. Reached(c) = Len(log[TopicOf[c]])
  BY <1>1, <1>3, <1>4, ReachedCases
<1>6. Len(queue'[c]) = 0 /\ conn'[c] = "live"
  BY <1>1 DEF NewestInv
<1>7. FeedHi'[c] = Len(log[TopicOf[c]]) /\ FeedLo'[c] = Len(log[TopicOf[c]])
  BY <1>2, <1>3, <1>5, <1>6, WindowOf
<1>8. \A d \in Conns \ {c} : conn'[d] = conn[d] /\ Reached(d)' = Reached(d) /\ queue'[d] = queue[d]
  BY <1>1, <1>2
<1>9. /\ FeedHi' = [FeedHi EXCEPT ![c] = Len(log[TopicOf[c]])]
      /\ FeedLo' = [FeedLo EXCEPT ![c] = Len(log[TopicOf[c]])]
  BY <1>7, <1>8, WindowMoved
<1>10. c \notin Live /\ Live' = Live \cup {c}
  BY <1>1 DEF Live
<1>11. Feed!Join(c)
  BY <1>1, <1>9, <1>10 DEF Feed!Join, Live
<1> QED BY <1>11 DEF Feed!Next

LEMMA FeedLeave ==
  ASSUME TypeOK, NEW c \in Conns, conn[c] = "live", Collapse(c)
  PROVE  Feed!Next
<1>1. /\ conn \in [Conns -> {"new", "live", "gone"}] /\ queue \in [Conns -> Seq(Frames)]
      /\ conn' = [conn EXCEPT ![c] = "gone"] /\ queue' = [queue EXCEPT ![c] = <<>>]
      /\ fan' = fan /\ log' = log /\ taken' = taken
  BY DEF TypeOK, Collapse, history
<1>2. Len(queue'[c]) = 0 /\ conn'[c] # "live"
  BY <1>1
<1>3. FeedHi'[c] = 0 /\ FeedLo'[c] = 0
  BY <1>2, WindowOf
<1>4. \A d \in Conns \ {c} : conn'[d] = conn[d] /\ Reached(d)' = Reached(d) /\ queue'[d] = queue[d]
  BY <1>1, ReachedSame
<1>5. FeedHi' = [FeedHi EXCEPT ![c] = 0] /\ FeedLo' = [FeedLo EXCEPT ![c] = 0]
  BY <1>3, <1>4, WindowMoved
<1>6. c \in Live /\ Live' = Live \ {c}
  BY <1>1 DEF Live
<1>7. Feed!Leave(c)
  BY <1>1, <1>5, <1>6 DEF Feed!Leave, Live
<1> QED BY <1>7 DEF Feed!Next

LEMMA FeedTake ==
  ASSUME TypeOK, RegisteredInv, NewestInv, NEW c \in Conns, Pop(c)
  PROVE  Feed!Next
<1>1. PICK q, r, l : q = queue[c] /\ r = Reached(c) /\ l = log[TopicOf[c]]
  OBVIOUS
<1>2. /\ queue \in [Conns -> Seq(Frames)] /\ q # <<>> /\ conn[c] = "live"
      /\ queue' = [queue EXCEPT ![c] = Tail(@)]
      /\ taken' = [taken EXCEPT ![c] = Append(@, Head(q))]
      /\ conn' = conn /\ fan' = fan /\ log' = log
  BY <1>1 DEF TypeOK, Pop, Writing
<1>3. /\ q \in Seq(Frames) /\ r \in Nat /\ EndsAt(q, l, r)
      /\ \A d \in Conns : Reached(d)' = Reached(d)
  BY <1>1, <1>2, ReachedBound, ReachedSame DEF NewestInv
<1>4. Len(Tail(q)) = Len(q) - 1 /\ Head(q) = l[(r - Len(q)) + 1] /\ Len(q) \in Nat \ {0}
  BY <1>2, <1>3, TailEnds
<1>5. queue'[c] = Tail(q)
  BY <1>1, <1>2
<1>6. FeedHi[c] = r /\ FeedLo[c] = r - Len(q)
  BY <1>1, <1>2, WindowOf
<1>7. FeedHi'[c] = FeedHi[c] /\ FeedLo'[c] = FeedLo[c] + 1
  <2>1. FeedHi'[c] = r
    BY <1>1, <1>2, <1>3, WindowOf
  <2>2. FeedLo'[c] = r - (Len(q) - 1)
    BY <1>4, <1>5, <2>1, WindowOf
  <2>3. r - (Len(q) - 1) = (r - Len(q)) + 1
    BY <1>3, <1>4
  <2> QED BY <1>6, <2>1, <2>2, <2>3
<1>8. \A d \in Conns \ {c} : conn'[d] = conn[d] /\ Reached(d)' = Reached(d) /\ queue'[d] = queue[d]
  BY <1>2, <1>3
<1>9. FeedHi' = [FeedHi EXCEPT ![c] = FeedHi[c]] /\ FeedLo' = [FeedLo EXCEPT ![c] = FeedLo[c] + 1]
  BY <1>7, <1>8, WindowMoved
<1>10. FeedHi' = FeedHi
  BY <1>9 DEF FeedHi
<1>11. FeedLo[c] < FeedHi[c]
  BY <1>3, <1>4, <1>6
<1>12. taken' = [taken EXCEPT ![c] = Append(@, log[TopicOf[c]][FeedLo[c] + 1])]
  BY <1>1, <1>2, <1>4, <1>6
<1>13. c \in Live /\ Live' = Live
  BY <1>2 DEF Live
<1>14. Feed!Take(c)
  BY <1>2, <1>9, <1>10, <1>11, <1>12, <1>13 DEF Feed!Take, Live
<1> QED BY <1>14 DEF Feed!Next

LEMMA FeedArrive ==
  ASSUME TypeOK, RegisteredInv, NewestInv, FanLive
  PROVE  Feed!Next
<1>1. PICK h, f : h = Head(fan.rest) /\ f = fan.frame
  OBVIOUS
<1>2. PICK q, r, l : q = queue[h] /\ r = Reached(h) /\ l = log[TopicOf[h]]
  OBVIOUS
<1>3. /\ h \in Conns /\ conn[h] = "live"
      /\ log' = log /\ conn' = conn /\ taken' = taken
      /\ queue' = [queue EXCEPT ![h] = Pushed(@, f)]
      /\ queue \in [Conns -> Seq(Frames)] /\ Len(q) <= Cap /\ f \in Frames
      /\ r \in Nat /\ r + 1 = Len(l)
      /\ Reached(h)' = r + 1
      /\ \A d \in Conns \ {h} : Reached(d)' = Reached(d)
      /\ f = l[r + 1] /\ EndsAt(q, l, r)
  BY <1>1, <1>2, VisitedSink
<1>4. q \in Seq(Frames) /\ Len(q) \in Nat /\ Cap \in Nat \ {0}
  BY <1>2, <1>3, CapAssumption
<1>5. queue'[h] = Pushed(q, f) /\ \A d \in Conns \ {h} : queue'[d] = queue[d]
  BY <1>2, <1>3
<1>6. Len(Pushed(q, f)) = IF Len(q) = Cap THEN Cap ELSE Len(q) + 1
  BY <1>3, <1>4, PushedEnds
<1>7. FeedHi[h] = r /\ FeedLo[h] = r - Len(q) /\ FeedHi[h] - FeedLo[h] = Len(q)
  <2>1. FeedHi[h] = r /\ FeedLo[h] = r - Len(q)
    BY <1>2, <1>3, WindowOf
  <2>2. r - (r - Len(q)) = Len(q)
    BY <1>3, <1>4
  <2> QED BY <2>1, <2>2
<1>8. FeedHi'[h] = FeedHi[h] + 1
  BY <1>3, <1>7, WindowOf
<1>9. FeedLo'[h] = IF FeedHi[h] - FeedLo[h] = Cap THEN FeedLo[h] + 1 ELSE FeedLo[h]
  <2>1. FeedLo'[h] = (r + 1) - Len(Pushed(q, f))
    BY <1>3, <1>5, <1>7, <1>8, WindowOf
  <2>2. CASE Len(q) = Cap
    <3>1. (r + 1) - Cap = (r - Len(q)) + 1
      BY <1>3, <1>4, <2>2
    <3> QED BY <1>6, <1>7, <2>1, <2>2, <3>1
  <2>3. CASE Len(q) # Cap
    <3>1. (r + 1) - (Len(q) + 1) = r - Len(q)
      BY <1>3, <1>4
    <3> QED BY <1>6, <1>7, <2>1, <2>3, <3>1
  <2> QED BY <2>2, <2>3
<1>10. \A d \in Conns \ {h} : conn'[d] = conn[d] /\ Reached(d)' = Reached(d) /\ queue'[d] = queue[d]
  BY <1>3, <1>5
<1>11. /\ FeedHi' = [FeedHi EXCEPT ![h] = FeedHi[h] + 1]
       /\ FeedLo' = [FeedLo EXCEPT ![h] =
                       IF FeedHi[h] - FeedLo[h] = Cap THEN FeedLo[h] + 1 ELSE FeedLo[h]]
  BY <1>3, <1>8, <1>9, <1>10, WindowMoved
<1>12. FeedHi[h] < Len(log[TopicOf[h]])
  BY <1>2, <1>3, <1>7
<1>13. h \in Live /\ Live' = Live
  BY <1>3 DEF Live
<1>14. Feed!Arrive(h)
  BY <1>3, <1>11, <1>12, <1>13 DEF Feed!Arrive, Live
<1> QED BY <1>3, <1>14 DEF Feed!Next

LEMMA FeedInit == Init => Feed!Init
<1> SUFFICES ASSUME Init PROVE Feed!Init
  OBVIOUS
<1>1. \A c \in Conns : conn[c] = "new" /\ Len(queue[c]) = 0
  BY DEF Init
<1>2. FeedHi = [c \in Conns |-> 0]
  BY <1>1 DEF FeedHi
<1>3. FeedLo = [c \in Conns |-> 0]
  BY <1>1, <1>2 DEF FeedLo
<1>4. {c \in Conns : conn[c] = "live"} = {}
  BY <1>1
<1> QED BY <1>2, <1>3, <1>4 DEF Init, Feed!Init

\* Every step of the gateway is one of the feed, or nothing a reader can see.
LEMMA FeedStep ==
  TypeOK /\ RegisteredInv /\ NewestInv /\ [Next]_vars => [Feed!Next]_(Feed!feedVars)
<1> SUFFICES ASSUME TypeOK, RegisteredInv, NewestInv, [Next]_vars
             PROVE  Feed!Next \/ UNCHANGED Feed!feedVars
  OBVIOUS
<1>1. ASSUME queue' = queue, log' = log, taken' = taken, conn' = conn, fan' = fan
      PROVE  UNCHANGED Feed!feedVars
  BY <1>1, ReachedSame, FeedStutters
<1>2. ASSUME NEW c \in Conns, HandshakeFails(c) PROVE UNCHANGED Feed!feedVars
  <2>1. /\ queue' = queue /\ log' = log /\ fan' = fan /\ taken' = taken
        /\ conn[c] = "new" /\ conn' = [conn EXCEPT ![c] = "gone"]
        /\ conn \in [Conns -> {"new", "live", "gone"}]
    BY <1>2 DEF HandshakeFails, history, TypeOK
  <2>2. \A d \in Conns : conn'[d] = "live" <=> conn[d] = "live"
    BY <2>1
  <2> QED BY <2>1, <2>2, ReachedSame, FeedStutters
<1>3. CASE FanDead
  <2>1. PICK h : h = Head(fan.rest)
    OBVIOUS
  <2>2. /\ fan.rest # <<>> /\ conn[h] # "live" /\ fan \in Fans /\ fan' = [fan EXCEPT !.rest = Tail(@)]
        /\ queue' = queue /\ log' = log /\ conn' = conn /\ taken' = taken
    BY <1>3, <2>1 DEF FanDead, TypeOK, sinkVars, history
  <2>3. fan'.rest = Tail(fan.rest)
    BY <2>2, VisitDead
  <2>4. \A d \in Conns \ {h} : Reached(d)' = Reached(d)
    BY <2>1, <2>2, <2>3, ReachedVisit
  <2> QED BY <2>2, <2>4, FeedStutters
<1>4. CASE FanDone
  <2>1. /\ fan.rest = <<>> /\ fan' = Free
        /\ queue' = queue /\ log' = log /\ conn' = conn /\ taken' = taken
    BY <1>4 DEF FanDone, sinkVars, history
  <2> QED BY <2>1, FreeFields, ReachedSame, FeedStutters
<1>5. ASSUME NEW c \in Conns, ReadBinary(c) PROVE Feed!Next
  BY <1>5, FeedFan, TopicAssumption DEF ReadBinary, Sources, sinkVars
<1>6. ASSUME NEW t \in Topics, MeshMessage(t) PROVE Feed!Next
  BY <1>6, FeedFan DEF MeshMessage, Sources, sinkVars
<1>7. ASSUME NEW c \in Conns, SendCmd(c) \/ FindEmpty(c) \/ Park(c) \/ Sent(c)
      PROVE  UNCHANGED Feed!feedVars
  BY <1>7, <1>1 DEF SendCmd, FindEmpty, Park, Sent, sinkVars, history
<1>8. ASSUME SwarmPublish \/ UNCHANGED vars PROVE UNCHANGED Feed!feedVars
  BY <1>8, <1>1 DEF SwarmPublish, vars, sinkVars
<1>9. ASSUME NEW c \in Conns, ReadEnds(c) \/ SendFails(c) PROVE Feed!Next
  BY <1>9, FeedLeave DEF ReadEnds, SendFails, Writing
<1> QED BY <1>2, <1>3, <1>4, <1>5, <1>6, <1>7, <1>8, <1>9, FeedJoin, FeedTake, FeedArrive DEF Next

\* The registry with its pruning, the sinks with their bounded queues and the
\* pumps with their wakeups implement one log per topic and a forward-moving
\* window on it per client.
THEOREM FeedImplemented == Spec => ImplementsFeed
<1>1. Spec => [](TypeOK /\ RegisteredInv /\ NewestInv)
  BY TypeCorrect, RegisteredInit, RegisteredStep, NewestInit, NewestStep, PTL DEF Spec
<1> QED BY <1>1, FeedInit, FeedStep, PTL DEF Spec, ImplementsFeed, Feed!Spec
-----------------------------------------------------------------------------
(* What a client takes is a subsequence of its topic's log *)

\* The frames tk are frames of the log lg, in its order and up to position b.
InOrder(tk, lg, b) ==
  \E at \in [DOMAIN tk -> DOMAIN lg] :
    /\ \A i \in DOMAIN tk : tk[i] = lg[at[i]] /\ at[i] <= b
    /\ \A i, j \in DOMAIN tk : i < j => at[i] < at[j]

\* Two clients of one topic never see two frames in different orders and none
\* sees a frame twice: what each write pump took is a subsequence of the one
\* log of the topic, through overflows, a disconnect and the pumps' races.
\* (TopicRegistry::broadcast under one mutex; BroadcastSink is a queue.)
TakenInLogOrder ==
  \A c \in Conns : InOrder(taken[c], log[TopicOf[c]], Len(log[TopicOf[c]]))

LEMMA InOrderGrown ==
  ASSUME NEW S, NEW tk \in Seq(S), NEW lg \in Seq(S), NEW b \in Nat, NEW f \in S,
         InOrder(tk, lg, b)
  PROVE  InOrder(tk, Append(lg, f), b)
<1>1. PICK at \in [DOMAIN tk -> DOMAIN lg] :
        /\ \A i \in DOMAIN tk : tk[i] = lg[at[i]] /\ at[i] <= b
        /\ \A i, j \in DOMAIN tk : i < j => at[i] < at[j]
  BY DEF InOrder
<1>2. \A k \in DOMAIN lg : k \in DOMAIN Append(lg, f) /\ Append(lg, f)[k] = lg[k]
  OBVIOUS
<1>3. at \in [DOMAIN tk -> DOMAIN Append(lg, f)]
  BY <1>2
<1> QED BY <1>1, <1>2, <1>3 DEF InOrder

LEMMA InOrderFurther ==
  ASSUME NEW S, NEW tk \in Seq(S), NEW lg \in Seq(S), NEW b \in Nat, NEW d \in Nat, b <= d,
         InOrder(tk, lg, b)
  PROVE  InOrder(tk, lg, d)
<1>1. PICK at \in [DOMAIN tk -> DOMAIN lg] :
        /\ \A i \in DOMAIN tk : tk[i] = lg[at[i]] /\ at[i] <= b
        /\ \A i, j \in DOMAIN tk : i < j => at[i] < at[j]
  BY DEF InOrder
<1>2. \A i \in DOMAIN tk : at[i] \in Nat
  OBVIOUS
<1>3. \A i \in DOMAIN tk : at[i] <= d
  BY <1>1, <1>2
<1> QED BY <1>1, <1>3 DEF InOrder

LEMMA InOrderTaken ==
  ASSUME NEW S, NEW tk \in Seq(S), NEW lg \in Seq(S), NEW b \in Nat, b < Len(lg),
         InOrder(tk, lg, b)
  PROVE  InOrder(Append(tk, lg[b + 1]), lg, b + 1)
<1>1. PICK at \in [DOMAIN tk -> DOMAIN lg] :
        /\ \A i \in DOMAIN tk : tk[i] = lg[at[i]] /\ at[i] <= b
        /\ \A i, j \in DOMAIN tk : i < j => at[i] < at[j]
  BY DEF InOrder
<1>2. PICK tl : tl = Append(tk, lg[b + 1])
  OBVIOUS
<1>3. PICK n : n = Len(tk) + 1
  OBVIOUS
<1>4. /\ n \in Nat /\ n \notin DOMAIN tk /\ DOMAIN tl = DOMAIN tk \cup {n} /\ tl[n] = lg[b + 1]
      /\ \A i \in DOMAIN tk : tl[i] = tk[i] /\ i < n /\ i \in Nat
  <2>1. b + 1 \in DOMAIN lg
    OBVIOUS
  <2>2. lg[b + 1] \in S
    BY <2>1
  <2> QED BY <1>2, <1>3, <2>2
<1>5. PICK to : to = [i \in DOMAIN tl |-> IF i = n THEN b + 1 ELSE at[i]]
  OBVIOUS
<1>6. \A i \in DOMAIN tk : to[i] = at[i] /\ at[i] \in Nat /\ at[i] \in DOMAIN lg
  BY <1>4, <1>5
<1>7. to[n] = b + 1 /\ b + 1 \in DOMAIN lg
  BY <1>4, <1>5
<1>8. to \in [DOMAIN tl -> DOMAIN lg]
  BY <1>4, <1>5, <1>6, <1>7
<1>9. \A i \in DOMAIN tl : tl[i] = lg[to[i]] /\ to[i] <= b + 1
  <2>1. \A i \in DOMAIN tk : tl[i] = lg[to[i]] /\ to[i] <= b + 1
    BY <1>1, <1>4, <1>6
  <2> QED BY <2>1, <1>4, <1>7
<1>10. \A i, j \in DOMAIN tl : i < j => to[i] < to[j]
  <2>1. ASSUME NEW i \in DOMAIN tl, NEW j \in DOMAIN tl, i < j PROVE to[i] < to[j]
    <3>1. i \in DOMAIN tk
      BY <1>4, <2>1
    <3>2. CASE j = n
      <4>1. at[i] <= b
        BY <1>1, <3>1
      <4> QED BY <1>6, <1>7, <3>1, <3>2, <4>1
    <3>3. CASE j # n
      BY <1>1, <1>4, <1>6, <2>1, <3>1, <3>3
    <3> QED BY <3>2, <3>3
  <2> QED BY <2>1
<1>11. InOrder(tl, lg, b + 1)
  BY <1>8, <1>9, <1>10 DEF InOrder
<1> QED BY <1>2, <1>11

\* What a live client took lies behind the window its sink still holds.
TakenInv ==
  \A c \in Conns :
    IF conn[c] = "live"
      THEN /\ FeedLo[c] \in Nat /\ FeedHi[c] \in Nat
           /\ FeedLo[c] <= FeedHi[c] /\ FeedHi[c] <= Len(log[TopicOf[c]])
           /\ InOrder(taken[c], log[TopicOf[c]], FeedLo[c])
      ELSE InOrder(taken[c], log[TopicOf[c]], Len(log[TopicOf[c]]))

LEMMA LogOf ==
  ASSUME TypeOK, NEW c \in Conns
  PROVE  /\ taken[c] \in Seq(Frames) /\ log[TopicOf[c]] \in Seq(Frames)
         /\ Len(log[TopicOf[c]]) \in Nat /\ TopicOf[c] \in Topics
BY TopicAssumption DEF TypeOK

LEMMA TakenInit == Init => TakenInv
<1> SUFFICES ASSUME Init, NEW c \in Conns
             PROVE  InOrder(taken[c], log[TopicOf[c]], Len(log[TopicOf[c]]))
  BY DEF TakenInv, Init
<1>1. taken[c] = <<>> /\ log[TopicOf[c]] = <<>>
  BY TopicAssumption DEF Init
<1>2. PICK at : at = [i \in {} |-> 0]
  OBVIOUS
<1>3. DOMAIN taken[c] = {} /\ at \in [{} -> DOMAIN log[TopicOf[c]]]
  BY <1>1, <1>2
<1> QED BY <1>3 DEF InOrder

\* A step of the feed keeps it: a frame enters a log at its end, a window moves
\* forward, a client takes the frame at the front of its window.
LEMMA TakenStep ==
  TypeOK /\ TypeOK' /\ TakenInv /\ [Feed!Next]_(Feed!feedVars) => TakenInv'
<1> SUFFICES ASSUME TypeOK, TypeOK', TakenInv, [Feed!Next]_(Feed!feedVars), NEW c \in Conns
             PROVE  IF conn'[c] = "live"
                      THEN /\ FeedLo'[c] \in Nat /\ FeedHi'[c] \in Nat
                           /\ FeedLo'[c] <= FeedHi'[c] /\ FeedHi'[c] <= Len(log'[TopicOf[c]])
                           /\ InOrder(taken'[c], log'[TopicOf[c]], FeedLo'[c])
                      ELSE InOrder(taken'[c], log'[TopicOf[c]], Len(log'[TopicOf[c]]))
  BY DEF TakenInv, InOrder
<1> DEFINE T == TopicOf[c]
<1>a. /\ taken[c] \in Seq(Frames) /\ log[T] \in Seq(Frames) /\ Len(log[T]) \in Nat /\ T \in Topics
      /\ log \in [Topics -> Seq(Frames)] /\ taken \in [Conns -> Seq(Frames)] /\ Cap \in Nat
  BY LogOf, CapAssumption DEF TypeOK
<1>b. FeedLo = [d \in Conns |-> FeedLo[d]] /\ FeedHi = [d \in Conns |-> FeedHi[d]]
  BY DEF FeedLo, FeedHi
<1>c. IF conn[c] = "live"
        THEN /\ FeedLo[c] \in Nat /\ FeedHi[c] \in Nat
             /\ FeedLo[c] <= FeedHi[c] /\ FeedHi[c] <= Len(log[T])
             /\ InOrder(taken[c], log[T], FeedLo[c])
        ELSE InOrder(taken[c], log[T], Len(log[T]))
  BY DEF TakenInv
<1>d. /\ c \in {d \in Conns : conn[d] = "live"} <=> conn[c] = "live"
      /\ c \in {d \in Conns : conn'[d] = "live"} <=> conn'[c] = "live"
  OBVIOUS
<1> HIDE DEF T
<1>1. CASE UNCHANGED Feed!feedVars
  <2>1. /\ log' = log /\ taken' = taken /\ FeedLo' = FeedLo /\ FeedHi' = FeedHi
        /\ {d \in Conns : conn'[d] = "live"} = {d \in Conns : conn[d] = "live"}
    BY <1>1 DEF Feed!feedVars
  <2> QED BY <1>c, <1>d, <2>1 DEF T
<1>2. ASSUME NEW t \in Topics, NEW f \in Frames, Feed!Fan(t, f)
      PROVE  IF conn'[c] = "live"
               THEN /\ FeedLo'[c] \in Nat /\ FeedHi'[c] \in Nat
                    /\ FeedLo'[c] <= FeedHi'[c] /\ FeedHi'[c] <= Len(log'[T])
                    /\ InOrder(taken'[c], log'[T], FeedLo'[c])
               ELSE InOrder(taken'[c], log'[T], Len(log'[T]))
  <2>1. /\ log' = [log EXCEPT ![t] = Append(@, f)]
        /\ taken' = taken /\ FeedLo' = FeedLo /\ FeedHi' = FeedHi
        /\ {d \in Conns : conn'[d] = "live"} = {d \in Conns : conn[d] = "live"}
    BY <1>2 DEF Feed!Fan
  <2>2. CASE T = t
    <3>1. log'[T] = Append(log[T], f) /\ Len(log'[T]) = Len(log[T]) + 1 /\ log'[T] \in Seq(Frames)
      BY <1>a, <2>1, <2>2
    <3>2. ASSUME NEW b \in Nat, InOrder(taken[c], log[T], b)
          PROVE  InOrder(taken[c], log'[T], b)
      BY <1>a, <3>1, <3>2, InOrderGrown
    <3>3. InOrder(taken[c], log'[T], Len(log[T])) => InOrder(taken[c], log'[T], Len(log'[T]))
      <4>1. Len(log'[T]) \in Nat /\ Len(log[T]) <= Len(log'[T])
        BY <1>a, <3>1
      <4> QED BY <1>a, <3>1, <4>1, InOrderFurther
    <3> QED BY <1>a, <1>c, <1>d, <2>1, <3>1, <3>2, <3>3
  <2>3. CASE T # t
    BY <1>a, <1>c, <1>d, <2>1, <2>3
  <2> QED BY <2>2, <2>3
<1>3. ASSUME NEW r \in Conns, Feed!Join(r)
      PROVE  IF conn'[c] = "live"
               THEN /\ FeedLo'[c] \in Nat /\ FeedHi'[c] \in Nat
                    /\ FeedLo'[c] <= FeedHi'[c] /\ FeedHi'[c] <= Len(log'[T])
                    /\ InOrder(taken'[c], log'[T], FeedLo'[c])
               ELSE InOrder(taken'[c], log'[T], Len(log'[T]))
  <2>1. /\ log' = log /\ taken' = taken /\ r \notin {d \in Conns : conn[d] = "live"}
        /\ FeedLo' = [FeedLo EXCEPT ![r] = Len(log[TopicOf[r]])]
        /\ FeedHi' = [FeedHi EXCEPT ![r] = Len(log[TopicOf[r]])]
        /\ {d \in Conns : conn'[d] = "live"} = {d \in Conns : conn[d] = "live"} \cup {r}
    BY <1>3 DEF Feed!Join
  <2>2. CASE c = r
    <3>1. FeedLo'[c] = Len(log[T]) /\ FeedHi'[c] = Len(log[T]) /\ conn[c] # "live" /\ conn'[c] = "live"
      BY <1>b, <1>d, <2>1, <2>2 DEF T
    <3> QED BY <1>a, <1>c, <2>1, <3>1
  <2>3. CASE c # r
    <3>1. FeedLo'[c] = FeedLo[c] /\ FeedHi'[c] = FeedHi[c] /\ (conn'[c] = "live" <=> conn[c] = "live")
      BY <1>b, <1>d, <2>1, <2>3
    <3> QED BY <1>c, <2>1, <3>1
  <2> QED BY <2>2, <2>3
<1>4. ASSUME NEW r \in Conns, Feed!Arrive(r)
      PROVE  IF conn'[c] = "live"
               THEN /\ FeedLo'[c] \in Nat /\ FeedHi'[c] \in Nat
                    /\ FeedLo'[c] <= FeedHi'[c] /\ FeedHi'[c] <= Len(log'[T])
                    /\ InOrder(taken'[c], log'[T], FeedLo'[c])
               ELSE InOrder(taken'[c], log'[T], Len(log'[T]))
  <2>1. /\ log' = log /\ taken' = taken /\ r \in {d \in Conns : conn[d] = "live"}
        /\ FeedHi[r] < Len(log[TopicOf[r]])
        /\ FeedHi' = [FeedHi EXCEPT ![r] = FeedHi[r] + 1]
        /\ FeedLo' = [FeedLo EXCEPT ![r] = IF FeedHi[r] - FeedLo[r] = Cap THEN FeedLo[r] + 1 ELSE FeedLo[r]]
        /\ {d \in Conns : conn'[d] = "live"} = {d \in Conns : conn[d] = "live"}
    BY <1>4 DEF Feed!Arrive
  <2>2. CASE c = r
    <3>1. conn[c] = "live" /\ conn'[c] = "live" /\ FeedHi[c] < Len(log[T])
      BY <1>d, <2>1, <2>2 DEF T
    <3>2. FeedHi'[c] = FeedHi[c] + 1 /\ FeedLo'[c] \in {FeedLo[c], FeedLo[c] + 1}
      BY <1>b, <2>1, <2>2
    <3>3. /\ FeedLo'[c] \in Nat /\ FeedHi'[c] \in Nat /\ FeedLo[c] <= FeedLo'[c]
          /\ FeedLo'[c] <= FeedHi'[c] /\ FeedHi'[c] <= Len(log[T])
      BY <1>a, <1>c, <3>1, <3>2
    <3>4. InOrder(taken[c], log[T], FeedLo'[c])
      BY <1>a, <1>c, <3>1, <3>3, InOrderFurther
    <3> QED BY <2>1, <3>1, <3>3, <3>4
  <2>3. CASE c # r
    <3>1. FeedLo'[c] = FeedLo[c] /\ FeedHi'[c] = FeedHi[c] /\ (conn'[c] = "live" <=> conn[c] = "live")
      BY <1>b, <1>d, <2>1, <2>3
    <3> QED BY <1>c, <2>1, <3>1
  <2> QED BY <2>2, <2>3
<1>5. ASSUME NEW r \in Conns, Feed!Take(r)
      PROVE  IF conn'[c] = "live"
               THEN /\ FeedLo'[c] \in Nat /\ FeedHi'[c] \in Nat
                    /\ FeedLo'[c] <= FeedHi'[c] /\ FeedHi'[c] <= Len(log'[T])
                    /\ InOrder(taken'[c], log'[T], FeedLo'[c])
               ELSE InOrder(taken'[c], log'[T], Len(log'[T]))
  <2>1. /\ log' = log /\ r \in {d \in Conns : conn[d] = "live"} /\ FeedLo[r] < FeedHi[r]
        /\ taken' = [taken EXCEPT ![r] = Append(taken[r], log[TopicOf[r]][FeedLo[r] + 1])]
        /\ FeedLo' = [FeedLo EXCEPT ![r] = FeedLo[r] + 1] /\ FeedHi' = FeedHi
        /\ {d \in Conns : conn'[d] = "live"} = {d \in Conns : conn[d] = "live"}
    BY <1>5 DEF Feed!Take
  <2>2. CASE c = r
    <3>1. conn[c] = "live" /\ conn'[c] = "live"
      BY <1>d, <2>1, <2>2
    <3>2. /\ FeedLo'[c] = FeedLo[c] + 1 /\ FeedHi'[c] = FeedHi[c]
          /\ taken'[c] = Append(taken[c], log[T][FeedLo[c] + 1])
      BY <1>a, <1>b, <2>1, <2>2 DEF T
    <3>3. /\ FeedLo[c] \in Nat /\ FeedLo[c] < Len(log[T]) /\ FeedLo'[c] \in Nat /\ FeedHi'[c] \in Nat
          /\ FeedLo'[c] <= FeedHi'[c] /\ FeedHi'[c] <= Len(log[T])
      BY <1>a, <1>c, <2>1, <2>2, <3>1, <3>2
    <3>4. InOrder(taken'[c], log[T], FeedLo[c] + 1)
      BY <1>a, <1>c, <3>1, <3>2, <3>3, InOrderTaken
    <3> QED BY <2>1, <3>1, <3>2, <3>3, <3>4
  <2>3. CASE c # r
    <3>1. /\ FeedLo'[c] = FeedLo[c] /\ FeedHi'[c] = FeedHi[c] /\ taken'[c] = taken[c]
          /\ (conn'[c] = "live" <=> conn[c] = "live")
      BY <1>a, <1>b, <1>d, <2>1, <2>3
    <3> QED BY <1>c, <2>1, <3>1
  <2> QED BY <2>2, <2>3
<1>6. ASSUME NEW r \in Conns, Feed!Leave(r)
      PROVE  IF conn'[c] = "live"
               THEN /\ FeedLo'[c] \in Nat /\ FeedHi'[c] \in Nat
                    /\ FeedLo'[c] <= FeedHi'[c] /\ FeedHi'[c] <= Len(log'[T])
                    /\ InOrder(taken'[c], log'[T], FeedLo'[c])
               ELSE InOrder(taken'[c], log'[T], Len(log'[T]))
  <2>1. /\ log' = log /\ taken' = taken /\ r \in {d \in Conns : conn[d] = "live"}
        /\ FeedLo' = [FeedLo EXCEPT ![r] = 0] /\ FeedHi' = [FeedHi EXCEPT ![r] = 0]
        /\ {d \in Conns : conn'[d] = "live"} = {d \in Conns : conn[d] = "live"} \ {r}
    BY <1>6 DEF Feed!Leave
  <2>2. CASE c = r
    <3>1. conn[c] = "live" /\ conn'[c] # "live"
      BY <1>d, <2>1, <2>2
    <3>2. InOrder(taken[c], log[T], Len(log[T]))
      <4>1. FeedLo[c] \in Nat /\ FeedLo[c] <= Len(log[T]) /\ InOrder(taken[c], log[T], FeedLo[c])
        BY <1>a, <1>c, <3>1
      <4> QED BY <1>a, <4>1, InOrderFurther
    <3> QED BY <2>1, <3>1, <3>2
  <2>3. CASE c # r
    <3>1. FeedLo'[c] = FeedLo[c] /\ FeedHi'[c] = FeedHi[c] /\ (conn'[c] = "live" <=> conn[c] = "live")
      BY <1>b, <1>d, <2>1, <2>3
    <3> QED BY <1>c, <2>1, <3>1
  <2> QED BY <2>2, <2>3
<1> QED BY <1>1, <1>2, <1>3, <1>4, <1>5, <1>6 DEF Feed!Next, T

\* Clients of one topic agree on the order of its frames.
THEOREM OneOrderForAll == Spec => []TakenInLogOrder
<1>1. Spec => [](TypeOK /\ RegisteredInv /\ NewestInv)
  BY TypeCorrect, RegisteredInit, RegisteredStep, NewestInit, NewestStep, PTL DEF Spec
<1>2. Spec => []TakenInv
  BY <1>1, TakenInit, TakenStep, FeedStep, PTL DEF Spec
<1>3. TypeOK /\ TakenInv => TakenInLogOrder
  <2> SUFFICES ASSUME TypeOK, TakenInv, NEW c \in Conns
               PROVE  InOrder(taken[c], log[TopicOf[c]], Len(log[TopicOf[c]]))
    BY DEF TakenInLogOrder
  <2>1. CASE conn[c] # "live"
    BY <2>1 DEF TakenInv
  <2>2. CASE conn[c] = "live"
    <3>1. /\ FeedLo[c] \in Nat /\ FeedLo[c] <= Len(log[TopicOf[c]])
          /\ InOrder(taken[c], log[TopicOf[c]], FeedLo[c])
      BY <2>2, LogOf DEF TakenInv
    <3> QED BY <3>1, LogOf, InOrderFurther
  <2> QED BY <2>1, <2>2
<1> QED BY <1>1, <1>2, <1>3, PTL
=============================================================================
