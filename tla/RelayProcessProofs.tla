------------------------- MODULE RelayProcessProofs -------------------------
(* Proofs about the module RelayProcess, for any number of ends of the        *)
(* process, of connections, messages and ticks.                               *)
EXTENDS RelayProcess, FiniteSetTheorems, TLAPS

Steps == {"down", "minted", "writing", "loaded", "up"}

\* The types of what decides which key a relay runs under.
KeyTypes ==
  /\ source \in {"file", "bytes", "none"}
  /\ file \in (Nat \ {0}) \cup {None, Torn}
  /\ minted \in Nat
  /\ proc \in Steps
  /\ identity \in Nat /\ first \in Nat

\* A process has a key from the moment it has read or made one.
HasKey == proc # "down" => identity # 0

\* A key given as bytes is the only one there is.
BytesInv ==
  source = "bytes" =>
    /\ proc \notin {"minted", "writing"}
    /\ proc # "down" => identity = 1
    /\ first \in {0, 1}

\* No relay has come up as long as the file holds no key; from then on the file
\* holds the first one's, and a start that has loaded its key took it from there.
FileInv ==
  source = "file" =>
    /\ first # 0 => file = first
    /\ proc = "minted" => file = None
    /\ proc = "writing" => file = Torn
    /\ proc \in {"loaded", "up"} => file = identity

\* Only a configured file is written.
WriterInv == proc \in {"minted", "writing"} => source = "file"

FirstInv == proc = "up" => first # 0

KeyInv == KeyTypes /\ HasKey /\ BytesInv /\ FileInv /\ WriterInv /\ FirstInv

Quiet == UNCHANGED <<source, file, minted, proc, identity, first>>

LEMMA QuietKeeps ==
  ASSUME KeyInv, Quiet
  PROVE  KeyInv'
BY DEF KeyInv, Quiet, KeyTypes, HasKey, BytesInv, FileInv, WriterInv, FirstInv

LEMMA KeyInit ==
  ASSUME Init
  PROVE  KeyInv
BY DEF Init, KeyInv, KeyTypes, Steps, HasKey, BytesInv, FileInv, WriterInv, FirstInv

LEMMA KeyStep ==
  ASSUME KeyInv, [Next]_vars
  PROVE  KeyInv'
<1> USE NamesAssumption DEF KeyInv, KeyTypes, Steps, HasKey, BytesInv, FileInv, WriterInv, FirstInv
<1>1. CASE Start
  <2>1. CASE source = "file" /\ LoadFile
    BY <1>1, <2>1 DEF Start, LoadFile, Mint, Loaded
  <2>2. CASE source = "bytes" /\ Loaded(1)
    BY <1>1, <2>2 DEF Start, Loaded
  <2>3. CASE source = "none" /\ Mint("loaded")
    BY <1>1, <2>3 DEF Start, Mint
  <2> QED BY <1>1, <2>1, <2>2, <2>3 DEF Start
<1>2. CASE CreateFile
  BY <1>2 DEF CreateFile, memory
<1>3. CASE WriteFile
  BY <1>3 DEF WriteFile, memory
<1>4. CASE ComeUp
  BY <1>4 DEF ComeUp, memory
<1>5. CASE End
  BY <1>5 DEF End
<1>6. ASSUME NEW event \in {"established", "closed", "message"}, Report(event)
      PROVE  KeyInv'
  BY <1>6, QuietKeeps DEF Report, Quiet
<1>7. CASE IntervalEnds
  BY <1>7, QuietKeeps DEF IntervalEnds, Quiet
<1>8. CASE HandleEvent
  BY <1>8, QuietKeeps DEF HandleEvent, Quiet
<1>9. CASE MetricsTick
  BY <1>9, QuietKeeps DEF MetricsTick, Quiet
<1>10. CASE UNCHANGED vars
  BY <1>10, QuietKeeps DEF vars, memory, Quiet
<1> QED BY <1>1, <1>2, <1>3, <1>4, <1>5, <1>6, <1>7, <1>8, <1>9, <1>10 DEF Next, Boot

LEMMA KeyImplies ==
  ASSUME KeyInv
  PROVE  IdentityKept
BY DEF KeyInv, KeyTypes, HasKey, BytesInv, FileInv, FirstInv, IdentityKept

\* Whatever way and however often the relay ended, within its starts too, a
\* process that comes up with a configured identity has that of the first one
\* (load_identity in crates/relaye/src/main.rs).
THEOREM OneIdentity == Spec => []IdentityKept
<1>1. Init => KeyInv
  BY KeyInit
<1>2. KeyInv /\ [Next]_vars => KeyInv'
  BY KeyStep
<1>3. KeyInv => IdentityKept
  BY KeyImplies
<1> QED BY <1>1, <1>2, <1>3, PTL DEF Spec

-----------------------------------------------------------------------------
(* The counters *)

Events == {"established", "closed", "message"}

\* How many of the first k events that wait are of one kind.
Waiting(q, e, k) == Cardinality({i \in 1..k : q[i] = e})

LEMMA WaitingNat ==
  ASSUME NEW q, NEW e, NEW k \in Nat
  PROVE  IsFiniteSet({i \in 1..k : q[i] = e}) /\ Waiting(q, e, k) \in Nat
<1>1. IsFiniteSet(1..k)
  BY FS_Interval
<1>2. {i \in 1..k : q[i] = e} \in SUBSET (1..k)
  OBVIOUS
<1>3. IsFiniteSet({i \in 1..k : q[i] = e})
  BY <1>1, <1>2, FS_Subset
<1> QED BY <1>3, FS_CardinalityType DEF Waiting

LEMMA WaitingNone ==
  ASSUME NEW q, NEW e
  PROVE  Waiting(q, e, 0) = 0
<1>1. {i \in 1..0 : q[i] = e} = {}
  OBVIOUS
<1> QED BY <1>1, FS_EmptySet DEF Waiting

\* One more event is counted if it is of the kind.
LEMMA WaitingNext ==
  ASSUME NEW q, NEW e, NEW k \in Nat
  PROVE  /\ q[k + 1] = e => Waiting(q, e, k + 1) = Waiting(q, e, k) + 1
         /\ q[k + 1] # e => Waiting(q, e, k + 1) = Waiting(q, e, k)
<1>1. PICK S : S = {i \in 1..k : q[i] = e}
  OBVIOUS
<1>2. IsFiniteSet(S) /\ k + 1 \notin S
  <2>1. IsFiniteSet({i \in 1..k : q[i] = e})
    BY WaitingNat
  <2>2. k + 1 \notin 1..k
    OBVIOUS
  <2> QED BY <1>1, <2>1, <2>2
<1>3. CASE q[k + 1] = e
  <2>1. {i \in 1..(k + 1) : q[i] = e} = S \cup {k + 1}
    BY <1>1, <1>3
  <2>2. Cardinality(S \cup {k + 1}) = Cardinality(S) + 1
    BY <1>2, FS_AddElement
  <2> QED BY <1>1, <1>3, <2>1, <2>2 DEF Waiting
<1>4. CASE q[k + 1] # e
  <2>1. {i \in 1..(k + 1) : q[i] = e} = S
    BY <1>1, <1>4
  <2> QED BY <1>1, <1>4, <2>1 DEF Waiting
<1> QED BY <1>3, <1>4

\* An event that joins the end changes no earlier count.
LEMMA WaitingAppend ==
  ASSUME NEW q \in Seq(Events), NEW x \in Events, NEW e, NEW k \in 0..Len(q)
  PROVE  Waiting(Append(q, x), e, k) = Waiting(q, e, k)
<1>1. \A i \in 1..k : Append(q, x)[i] = q[i]
  OBVIOUS
<1>2. {i \in 1..k : Append(q, x)[i] = e} = {i \in 1..k : q[i] = e}
  BY <1>1
<1> QED BY <1>2 DEF Waiting

\* The first event leaves: it counts no more.
LEMMA WaitingTail ==
  ASSUME NEW q \in Seq(Events), q # <<>>, NEW e, NEW k \in 0..(Len(q) - 1)
  PROVE  /\ Head(q) = e => Waiting(q, e, k + 1) = Waiting(Tail(q), e, k) + 1
         /\ Head(q) # e => Waiting(q, e, k + 1) = Waiting(Tail(q), e, k)
<1>1. PICK r : r = Tail(q)
  OBVIOUS
<1>2. /\ Len(q) \in Nat \ {0} /\ k \in Nat /\ Head(q) = q[1]
      /\ \A i \in 1..k : r[i] = q[i + 1]
  BY <1>1
<1>3. PICK S, T : S = {i \in 1..k : r[i] = e} /\ T = {i \in 2..(k + 1) : q[i] = e}
  OBVIOUS
<1>4. IsFiniteSet(S) /\ Cardinality(S) = Waiting(r, e, k) /\ Waiting(r, e, k) \in Nat
  BY <1>2, <1>3, WaitingNat DEF Waiting
<1>5. IsFiniteSet(T) /\ Cardinality(T) = Cardinality(S)
  <2>1. PICK f : f = [i \in S |-> i + 1]
    OBVIOUS
  <2>2. \A i \in S : i \in Nat /\ i + 1 \in T
    BY <1>2, <1>3
  <2>3. f \in [S -> T]
    BY <2>1, <2>2
  <2>4. \A i, j \in S : f[i] = f[j] => i = j
    BY <2>1, <2>2
  <2>5. \A j \in T : j - 1 \in S /\ (j - 1) + 1 = j
    <3> SUFFICES ASSUME NEW j \in T PROVE j - 1 \in S /\ (j - 1) + 1 = j
      OBVIOUS
    <3>1. j \in 2..(k + 1) /\ q[j] = e
      BY <1>3
    <3>2. j - 1 \in 1..k /\ (j - 1) + 1 = j
      BY <1>2, <3>1
    <3>3. r[j - 1] = e
      BY <1>2, <3>1, <3>2
    <3> QED BY <1>3, <3>2, <3>3
  <2>6. \A j \in T : \E i \in S : f[i] = j
    BY <2>1, <2>5
  <2>7. f \in Bijection(S, T)
    BY <2>3, <2>4, <2>6 DEF Bijection, Injection, Surjection, IsInjective
  <2> QED BY <1>4, <2>7, FS_Bijection DEF ExistsBijection
<1>6. CASE Head(q) = e
  <2>1. {i \in 1..(k + 1) : q[i] = e} = T \cup {1}
    BY <1>2, <1>3, <1>6
  <2>2. 1 \notin T
    BY <1>2, <1>3
  <2>3. Cardinality(T \cup {1}) = Cardinality(T) + 1
    BY <1>5, <2>2, FS_AddElement
  <2> QED BY <1>1, <1>4, <1>5, <1>6, <2>1, <2>3 DEF Waiting
<1>7. CASE Head(q) # e
  <2>1. {i \in 1..(k + 1) : q[i] = e} = T
    BY <1>2, <1>3, <1>7
  <2> QED BY <1>1, <1>4, <1>5, <1>7, <2>1 DEF Waiting
<1> QED BY <1>6, <1>7

StatsTypes ==
  /\ live \in Nat /\ events \in Seq(Events)
  /\ stats \in Stats /\ lastMsgs \in Nat
  /\ samples \in Seq([connCount: Nat, relayed: Nat])

\* Whatever part of what waits has been handled, no connection is closed that
\* was not counted; when all of it is, the count is the open connections.
BacklogInv ==
  /\ \A k \in 0..Len(events) :
       Waiting(events, "closed", k) <= stats.connCount + Waiting(events, "established", k)
  /\ live + Waiting(events, "closed", Len(events))
       = stats.connCount + Waiting(events, "established", Len(events))
  /\ stats.accepted >= stats.connCount

CountInv == StatsTypes /\ BacklogInv

LEMMA StatsFields ==
  ASSUME stats \in Stats
  PROVE  /\ stats.connCount \in Nat /\ stats.accepted \in Nat /\ stats.relayed \in Nat
         /\ stats.peerHistory \in Seq(Nat) /\ stats.rateHistory \in Seq(Nat)
BY DEF Stats

\* What each event does to the counters.
LEMMA CountedFields ==
  ASSUME stats \in Stats, NEW e \in Events, stats' = Counted(e)
  PROVE  /\ stats' \in Stats
         /\ stats'.peerHistory = stats.peerHistory /\ stats'.rateHistory = stats.rateHistory
         /\ e = "established" => /\ stats'.connCount = stats.connCount + 1
                                 /\ stats'.accepted = stats.accepted + 1
                                 /\ stats'.relayed = stats.relayed
         /\ e = "closed" => /\ stats'.connCount = Less(stats.connCount)
                            /\ stats'.accepted = stats.accepted
                            /\ stats'.relayed = stats.relayed
         /\ e = "message" => /\ stats'.connCount = stats.connCount
                             /\ stats'.accepted = stats.accepted
                             /\ stats'.relayed = stats.relayed + 1
<1>1. CASE e = "established"
  <2>1. PICK c, a : c = stats.connCount + 1 /\ a = stats.accepted + 1
    OBVIOUS
  <2>2. stats' = [stats EXCEPT !.connCount = c, !.accepted = a]
    BY <1>1, <2>1 DEF Counted
  <2>3. c \in Nat /\ a \in Nat
    BY <2>1, StatsFields
  <2> QED BY <1>1, <2>1, <2>2, <2>3 DEF Stats
<1>2. CASE e = "closed"
  <2>1. stats' = [stats EXCEPT !.connCount = Less(@)]
    BY <1>2 DEF Counted
  <2>2. Less(stats.connCount) \in Nat
    BY StatsFields DEF Less
  <2> QED BY <1>2, <2>1, <2>2 DEF Stats
<1>3. CASE e = "message"
  <2>1. stats' = [stats EXCEPT !.relayed = @ + 1]
    BY <1>3 DEF Counted
  <2> QED BY <1>3, <2>1 DEF Stats
<1> QED BY <1>1, <1>2, <1>3 DEF Events

\* What a metrics tick does to them.
LEMMA SampledFields ==
  ASSUME stats \in Stats, NEW n \in Nat, NEW m \in Nat,
         stats' = [stats EXCEPT !.peerHistory = Push(@, n), !.rateHistory = Push(@, m)]
  PROVE  /\ stats' \in Stats
         /\ stats'.connCount = stats.connCount /\ stats'.accepted = stats.accepted
         /\ stats'.relayed = stats.relayed
         /\ stats'.peerHistory = Push(stats.peerHistory, n)
         /\ stats'.rateHistory = Push(stats.rateHistory, m)
<1>1. /\ Push(stats.peerHistory, n) \in Seq(Nat) /\ Push(stats.rateHistory, m) \in Seq(Nat)
  BY HistoryLenAssumption, StatsFields DEF Push
<1> QED BY <1>1 DEF Stats

LEMMA CountInit == Init => CountInv
<1> SUFFICES ASSUME Init PROVE CountInv
  OBVIOUS
<1>1. /\ live = 0 /\ events = <<>> /\ stats = NoStats /\ lastMsgs = 0 /\ samples = <<>>
  BY DEF Init, Fresh
<1>2. NoStats \in Stats /\ NoStats.connCount = 0 /\ NoStats.accepted = 0
  BY DEF NoStats, Stats
<1>3. \A e : Waiting(events, e, 0) = 0
  BY WaitingNone
<1>4. Len(events) = 0
  BY <1>1
<1>5. StatsTypes
  BY <1>1, <1>2 DEF StatsTypes
<1>6. BacklogInv
  BY <1>1, <1>2, <1>3, <1>4 DEF BacklogInv
<1> QED BY <1>5, <1>6 DEF CountInv

LEMMA CountEnd ==
  ASSUME End
  PROVE  CountInv'
<1>1. /\ live' = 0 /\ events' = <<>> /\ stats' = NoStats /\ lastMsgs' = 0 /\ samples' = <<>>
  BY DEF End
<1>2. NoStats \in Stats /\ NoStats.connCount = 0 /\ NoStats.accepted = 0
  BY DEF NoStats, Stats
<1>3. \A e : Waiting(events', e, 0) = 0
  BY WaitingNone
<1>4. Len(events') = 0
  BY <1>1
<1>5. StatsTypes'
  BY <1>1, <1>2 DEF StatsTypes
<1>6. BacklogInv'
  BY <1>1, <1>2, <1>3, <1>4 DEF BacklogInv
<1> QED BY <1>5, <1>6 DEF CountInv

\* The swarm reports one more event.
LEMMA CountReport ==
  ASSUME CountInv, NEW x \in Events, Report(x)
  PROVE  CountInv'
<1>1. PICK q, n : q = events /\ n = Len(events)
  OBVIOUS
<1>2. /\ q \in Seq(Events) /\ n = Len(q) /\ n \in Nat /\ live \in Nat
      /\ stats.connCount \in Nat
      /\ events' = Append(q, x) /\ UNCHANGED <<stats, lastMsgs, samples>>
      /\ x = "established" => live' = live + 1
      /\ x = "closed" => live > 0 /\ live' = live - 1
      /\ x = "message" => live' = live
  BY <1>1, StatsFields DEF CountInv, StatsTypes, Report, Events
<1>3. PICK r : r = Append(q, x)
  OBVIOUS
<1>4. events' = r /\ r \in Seq(Events) /\ Len(r) = n + 1 /\ r[n + 1] = x
  BY <1>2, <1>3
<1>5. ASSUME NEW e, NEW k \in 0..n
      PROVE  Waiting(r, e, k) = Waiting(q, e, k) /\ Waiting(r, e, k) \in Nat
  <2>1. k \in 0..Len(q) /\ k \in Nat
    BY <1>2
  <2>2. Waiting(Append(q, x), e, k) = Waiting(q, e, k)
    BY <1>2, <2>1, WaitingAppend
  <2> QED BY <1>3, <2>1, <2>2, WaitingNat
<1>6. n \in 0..n
  BY <1>2
<1>7. \A e : /\ x = e => Waiting(r, e, n + 1) = Waiting(q, e, n) + 1
             /\ x # e => Waiting(r, e, n + 1) = Waiting(q, e, n)
             /\ Waiting(q, e, n) \in Nat
  BY <1>2, <1>4, <1>5, <1>6, WaitingNext
<1>8. PICK c, o, c1, o1 :
        /\ c = Waiting(q, "closed", n) /\ o = Waiting(q, "established", n)
        /\ c1 = Waiting(r, "closed", n + 1) /\ o1 = Waiting(r, "established", n + 1)
  OBVIOUS
<1>9. /\ c \in Nat /\ o \in Nat
      /\ live + c = stats.connCount + o
      /\ x = "established" => o1 = o + 1 /\ c1 = c
      /\ x = "closed" => o1 = o /\ c1 = c + 1
      /\ x = "message" => o1 = o /\ c1 = c
  BY <1>1, <1>7, <1>8 DEF CountInv, BacklogInv
<1>10. live' \in Nat /\ live' + c1 = stats.connCount + o1 /\ c1 <= stats.connCount + o1
  <2>1. PICK l, m : l = live' /\ m = stats.connCount
    OBVIOUS
  <2>2. CASE x = "established"
    <3>1. l = live + 1 /\ o1 = o + 1 /\ c1 = c
      BY <1>2, <1>9, <2>1, <2>2
    <3>2. l \in Nat /\ l + c1 = m + o1 /\ c1 <= m + o1
      BY <1>2, <1>9, <2>1, <3>1
    <3> QED BY <2>1, <3>2
  <2>3. CASE x = "closed"
    <3>1. l = live - 1 /\ live > 0 /\ o1 = o /\ c1 = c + 1
      BY <1>2, <1>9, <2>1, <2>3
    <3>2. l \in Nat /\ l + c1 = m + o1 /\ c1 <= m + o1
      BY <1>2, <1>9, <2>1, <3>1
    <3> QED BY <2>1, <3>2
  <2>4. CASE x = "message"
    <3>1. l = live /\ o1 = o /\ c1 = c
      BY <1>2, <1>9, <2>1, <2>4
    <3>2. l \in Nat /\ l + c1 = m + o1 /\ c1 <= m + o1
      BY <1>2, <1>9, <2>1, <3>1
    <3> QED BY <2>1, <3>2
  <2> QED BY <2>2, <2>3, <2>4 DEF Events
<1>11. \A k \in 0..(n + 1) : Waiting(r, "closed", k) <= stats.connCount + Waiting(r, "established", k)
  <2> SUFFICES ASSUME NEW k \in 0..(n + 1)
               PROVE  Waiting(r, "closed", k) <= stats.connCount + Waiting(r, "established", k)
    OBVIOUS
  <2>1. CASE k = n + 1
    BY <1>8, <1>10, <2>1
  <2>2. CASE k # n + 1
    <3>1. k \in 0..n
      BY <1>2, <2>2
    <3> QED BY <1>1, <1>5, <3>1 DEF CountInv, BacklogInv
  <2> QED BY <2>1, <2>2
<1>12. StatsTypes'
  BY <1>2, <1>4, <1>10 DEF CountInv, StatsTypes
<1>13. BacklogInv'
  BY <1>2, <1>4, <1>8, <1>10, <1>11 DEF CountInv, BacklogInv
<1> QED BY <1>12, <1>13 DEF CountInv

\* The main loop takes the first one.
LEMMA CountHandle ==
  ASSUME CountInv, HandleEvent
  PROVE  CountInv'
<1>1. PICK q, x, n, count : q = events /\ x = Head(events) /\ n = Len(events) - 1
                            /\ count = stats.connCount
  OBVIOUS
<1>2. /\ q \in Seq(Events) /\ q # <<>> /\ stats \in Stats /\ live \in Nat
      /\ events' = Tail(q) /\ stats' = Counted(x) /\ UNCHANGED <<live, lastMsgs, samples>>
  BY <1>1 DEF CountInv, StatsTypes, HandleEvent
<1>3. PICK r : r = Tail(q)
  OBVIOUS
<1>4. /\ x \in Events /\ n \in Nat /\ n = Len(q) - 1 /\ Len(q) = n + 1
      /\ events' = r /\ r \in Seq(Events) /\ Len(r) = n
  BY <1>1, <1>2, <1>3
<1>5. ASSUME NEW e, NEW k \in 0..n
      PROVE  /\ x = e => Waiting(q, e, k + 1) = Waiting(r, e, k) + 1
             /\ x # e => Waiting(q, e, k + 1) = Waiting(r, e, k)
             /\ Waiting(r, e, k) \in Nat
  <2>1. k \in 0..(Len(q) - 1) /\ k \in Nat
    BY <1>4
  <2>2. /\ Head(q) = e => Waiting(q, e, k + 1) = Waiting(Tail(q), e, k) + 1
        /\ Head(q) # e => Waiting(q, e, k + 1) = Waiting(Tail(q), e, k)
    BY <1>2, <2>1, WaitingTail
  <2> QED BY <1>1, <1>3, <2>1, <2>2, WaitingNat
<1>6. /\ stats' \in Stats /\ count \in Nat /\ stats.accepted \in Nat
      /\ x = "established" => stats'.connCount = count + 1 /\ stats'.accepted = stats.accepted + 1
      /\ x = "closed" => stats'.connCount = Less(count) /\ stats'.accepted = stats.accepted
      /\ x = "message" => stats'.connCount = count /\ stats'.accepted = stats.accepted
  BY <1>1, <1>2, <1>4, CountedFields, StatsFields
<1>7. /\ \A k \in 0..(n + 1) : Waiting(q, "closed", k) <= count + Waiting(q, "established", k)
      /\ live + Waiting(q, "closed", n + 1) = count + Waiting(q, "established", n + 1)
      /\ stats.accepted >= count
  BY <1>1, <1>4 DEF CountInv, BacklogInv
<1>8. x = "closed" => count > 0
  <2>1. 0 \in 0..n /\ 1 \in 0..(n + 1) /\ 0 + 1 = 1
    BY <1>4
  <2>2. Waiting(r, "closed", 0) = 0 /\ Waiting(r, "established", 0) = 0
    BY WaitingNone
  <2>3. x = "closed" => Waiting(q, "closed", 1) = 1 /\ Waiting(q, "established", 1) = 0
    BY <1>5, <2>1, <2>2
  <2> QED BY <1>6, <1>7, <2>1, <2>3
<1>9. PICK now : now = stats'.connCount
  OBVIOUS
<1>10. /\ now \in Nat /\ stats'.accepted >= now
       /\ x = "established" => now = count + 1
       /\ x = "closed" => now + 1 = count
       /\ x = "message" => now = count
  <2>1. x = "closed" => Less(count) = count - 1
    BY <1>6, <1>8 DEF Less
  <2> QED BY <1>4, <1>6, <1>7, <1>8, <1>9, <2>1 DEF Events
<1>11. ASSUME NEW k \in 0..n
       PROVE  /\ Waiting(r, "closed", k) <= now + Waiting(r, "established", k)
              /\ k = n => live + Waiting(r, "closed", k) = now + Waiting(r, "established", k)
  <2>1. k + 1 \in 0..(n + 1) /\ (k = n => k + 1 = n + 1)
    BY <1>4
  <2>2. PICK c, o, c1, o1 :
          /\ c = Waiting(r, "closed", k) /\ o = Waiting(r, "established", k)
          /\ c1 = Waiting(q, "closed", k + 1) /\ o1 = Waiting(q, "established", k + 1)
    OBVIOUS
  <2>3. /\ c \in Nat /\ o \in Nat
        /\ x = "established" => o1 = o + 1 /\ c1 = c
        /\ x = "closed" => o1 = o /\ c1 = c + 1
        /\ x = "message" => o1 = o /\ c1 = c
    BY <1>5, <2>2
  <2>4. c1 <= count + o1 /\ (k = n => live + c1 = count + o1)
    BY <1>7, <2>1, <2>2
  <2>5. c <= now + o /\ (k = n => live + c = now + o)
    BY <1>2, <1>4, <1>6, <1>10, <2>3, <2>4 DEF Events
  <2> QED BY <2>2, <2>5
<1>12. n \in 0..n
  BY <1>4
<1>13. StatsTypes'
  BY <1>2, <1>4, <1>6 DEF CountInv, StatsTypes
<1>14. BacklogInv'
  BY <1>2, <1>4, <1>9, <1>10, <1>11, <1>12 DEF BacklogInv
<1> QED BY <1>13, <1>14 DEF CountInv

LEMMA CountTick ==
  ASSUME CountInv, MetricsTick
  PROVE  CountInv'
<1>1. PICK n, m, x :
        /\ n = stats.connCount
        /\ m = IF lastMsgs > stats.relayed THEN 0 ELSE stats.relayed - lastMsgs
        /\ x = [connCount |-> stats.connCount, relayed |-> stats.relayed]
  OBVIOUS
<1>2. /\ stats \in Stats /\ lastMsgs \in Nat /\ samples \in Seq([connCount: Nat, relayed: Nat])
      /\ stats' = [stats EXCEPT !.peerHistory = Push(@, n), !.rateHistory = Push(@, m)]
      /\ samples' = Append(samples, x) /\ lastMsgs' = stats.relayed
      /\ UNCHANGED <<live, events>>
  BY <1>1 DEF CountInv, StatsTypes, MetricsTick
<1>3. n \in Nat /\ m \in Nat /\ stats.relayed \in Nat /\ x \in [connCount: Nat, relayed: Nat]
  BY <1>1, <1>2, StatsFields
<1>4. stats' \in Stats /\ stats'.connCount = stats.connCount /\ stats'.accepted = stats.accepted
  BY <1>2, <1>3, SampledFields
<1>5. StatsTypes'
  BY <1>2, <1>3, <1>4 DEF CountInv, StatsTypes
<1>6. BacklogInv'
  BY <1>2, <1>4 DEF CountInv, BacklogInv
<1> QED BY <1>5, <1>6 DEF CountInv

LEMMA CountStep == CountInv /\ [Next]_vars => CountInv'
<1> SUFFICES ASSUME CountInv, [Next]_vars PROVE CountInv'
  OBVIOUS
<1>1. ASSUME UNCHANGED <<live, events, stats, lastMsgs, samples>> PROVE CountInv'
  BY <1>1 DEF CountInv, StatsTypes, BacklogInv
<1>2. CASE Boot
  BY <1>1, <1>2 DEF Boot, Start, CreateFile, WriteFile, ComeUp, memory
<1>3. CASE IntervalEnds \/ UNCHANGED vars
  BY <1>1, <1>3 DEF IntervalEnds, vars, memory
<1> QED BY <1>2, <1>3, CountReport, CountHandle, CountTick, CountEnd DEF Next, Events

-----------------------------------------------------------------------------
(* The histories *)

RelayedAt(s, i) == IF i = 0 THEN 0 ELSE s[i].relayed

\* A ring holds what the last ticks pushed.
HistoryOf(ring, n) ==
  Len(ring) = IF n < HistoryLen THEN n ELSE HistoryLen

\* The counter at the last tick is the total of the last sample, and the total
\* has not fallen since.
SampleInv ==
  /\ HistoryOf(stats.peerHistory, Len(samples)) /\ HistoryOf(stats.rateHistory, Len(samples))
  /\ \A i \in 1..Len(stats.peerHistory) :
       stats.peerHistory[i] = samples[Len(samples) - Len(stats.peerHistory) + i].connCount
  /\ \A i \in 1..Len(stats.rateHistory) :
       stats.rateHistory[i] = RelayedAt(samples, Len(samples) - Len(stats.rateHistory) + i)
                                - RelayedAt(samples, Len(samples) - Len(stats.rateHistory) + i - 1)
  /\ lastMsgs = RelayedAt(samples, Len(samples))
  /\ lastMsgs <= stats.relayed

\* r is the ring after v was pushed at tick n + 1: it ends with v, and what is
\* before that was in the ring, where it stood counting from the first tick.
PushedOnto(ring, r, v, n) ==
  /\ r \in Seq(Nat) /\ HistoryOf(r, n + 1)
  /\ Len(ring) \in Nat /\ Len(r) \in Nat \ {0} /\ Len(r) <= n + 1
  /\ r[Len(r)] = v
  /\ \A i \in 1..(Len(r) - 1) :
       \E j \in 1..Len(ring) : r[i] = ring[j] /\ n - Len(ring) + j = (n + 1) - Len(r) + i

\* Pushing onto a ring that holds the last ticks leaves it holding the last
\* ticks: what was there moves down by one when the ring is full.
LEMMA PushedRing ==
  ASSUME NEW ring \in Seq(Nat), NEW v \in Nat, NEW n \in Nat, HistoryOf(ring, n)
  PROVE  PushedOnto(ring, Push(ring, v), v, n)
<1>0. PICK r : r = Push(ring, v)
  OBVIOUS
<1>1. Len(ring) \in Nat /\ HistoryLen \in Nat \ {0} /\ Len(ring) <= HistoryLen /\ Len(ring) <= n
  BY HistoryLenAssumption DEF HistoryOf
<1>2. CASE Len(ring) = HistoryLen
  <2>1. PICK p : p = Tail(ring)
    OBVIOUS
  <2>2. /\ p \in Seq(Nat) /\ Len(p) = Len(ring) - 1 /\ ring # <<>>
        /\ \A i \in 1..Len(p) : p[i] = ring[i + 1]
    BY <1>1, <1>2, <2>1
  <2>3. r = Append(p, v)
    BY <1>0, <1>2, <2>1 DEF Push
  <2>4. /\ r \in Seq(Nat) /\ Len(r) = Len(p) + 1 /\ r[Len(p) + 1] = v
        /\ \A i \in 1..Len(p) : r[i] = p[i]
    BY <2>2, <2>3
  <2>5. Len(r) = Len(ring) /\ Len(p) = Len(r) - 1
    BY <1>1, <2>2, <2>4
  <2>6. HistoryOf(r, n + 1)
    BY <1>1, <1>2, <2>5 DEF HistoryOf
  <2>7. ASSUME NEW i \in 1..(Len(r) - 1)
        PROVE  \E j \in 1..Len(ring) : r[i] = ring[j] /\ n - Len(ring) + j = (n + 1) - Len(r) + i
    <3>1. i \in 1..Len(p) /\ i + 1 \in 1..Len(ring) /\ n - Len(ring) + (i + 1) = (n + 1) - Len(r) + i
      BY <1>1, <2>5
    <3>2. r[i] = ring[i + 1]
      BY <2>2, <2>4, <3>1
    <3> QED BY <3>1, <3>2
  <2>8. r[Len(r)] = v
    BY <2>4
  <2> QED BY <1>0, <1>1, <1>2, <2>4, <2>5, <2>6, <2>7, <2>8 DEF PushedOnto
<1>3. CASE Len(ring) # HistoryLen
  <2>1. r = Append(ring, v)
    BY <1>0, <1>3 DEF Push
  <2>2. /\ r \in Seq(Nat) /\ Len(r) = Len(ring) + 1 /\ r[Len(ring) + 1] = v
        /\ \A i \in 1..Len(ring) : r[i] = ring[i]
    BY <2>1
  <2>3. Len(ring) = n /\ n < HistoryLen
    BY <1>1, <1>3 DEF HistoryOf
  <2>4. HistoryOf(r, n + 1)
    BY <1>1, <2>2, <2>3 DEF HistoryOf
  <2>5. ASSUME NEW i \in 1..(Len(r) - 1)
        PROVE  \E j \in 1..Len(ring) : r[i] = ring[j] /\ n - Len(ring) + j = (n + 1) - Len(r) + i
    <3>1. i \in 1..Len(ring) /\ n - Len(ring) + i = (n + 1) - Len(r) + i
      BY <1>1, <2>2
    <3> QED BY <2>2, <3>1
  <2> QED BY <1>0, <1>1, <2>2, <2>3, <2>4, <2>5 DEF PushedOnto
<1> QED BY <1>2, <1>3

LEMMA SampleQuiet ==
  ASSUME CountInv, SampleInv, samples' = samples, lastMsgs' = lastMsgs,
         stats'.peerHistory = stats.peerHistory, stats'.rateHistory = stats.rateHistory,
         stats'.relayed = stats.relayed \/ stats'.relayed = stats.relayed + 1
  PROVE  SampleInv'
<1>1. lastMsgs \in Nat /\ stats.relayed \in Nat
  BY StatsFields DEF CountInv, StatsTypes
<1>2. PICK l, m, m1 : l = lastMsgs /\ m = stats.relayed /\ m1 = stats'.relayed
  OBVIOUS
<1>3. l \in Nat /\ m \in Nat /\ (m1 = m \/ m1 = m + 1) /\ l <= m
  BY <1>1, <1>2 DEF SampleInv
<1>4. l <= m1
  BY <1>3
<1>5. lastMsgs' <= stats'.relayed
  BY <1>2, <1>4
<1> QED BY <1>5 DEF SampleInv, RelayedAt, HistoryOf

LEMMA SampleFresh ==
  ASSUME NEW zero, zero = NoStats
  PROVE  /\ Len(zero.peerHistory) = 0 /\ Len(zero.rateHistory) = 0
         /\ zero.relayed = 0 /\ Len(<<>>) = 0
         /\ HistoryOf(zero.peerHistory, 0) /\ HistoryOf(zero.rateHistory, 0)
BY HistoryLenAssumption DEF NoStats, HistoryOf

LEMMA SampleInit == Init => SampleInv
BY SampleFresh DEF Init, Fresh, SampleInv, RelayedAt

LEMMA SampleEnd ==
  ASSUME End
  PROVE  SampleInv'
BY SampleFresh DEF End, SampleInv, RelayedAt

LEMMA SampleTick ==
  ASSUME CountInv, SampleInv, MetricsTick
  PROVE  SampleInv'
<1>1. PICK n, c, t, l, x, peers, rates :
        /\ n = Len(samples) /\ c = stats.connCount /\ t = stats.relayed /\ l = lastMsgs
        /\ x = [connCount |-> stats.connCount, relayed |-> stats.relayed]
        /\ peers = Push(stats.peerHistory, stats.connCount)
        /\ rates = Push(stats.rateHistory, stats.relayed - lastMsgs)
  OBVIOUS
<1>2. /\ stats \in Stats /\ samples \in Seq([connCount: Nat, relayed: Nat])
      /\ n \in Nat /\ c \in Nat /\ t \in Nat /\ l \in Nat /\ l <= t
      /\ stats.peerHistory \in Seq(Nat) /\ stats.rateHistory \in Seq(Nat)
      /\ x.connCount = c /\ x.relayed = t /\ x \in [connCount: Nat, relayed: Nat]
  BY <1>1, StatsFields DEF CountInv, StatsTypes, SampleInv
<1>3. ~(lastMsgs > stats.relayed) /\ t - l \in Nat
  BY <1>1, <1>2
<1>4. /\ stats' = [stats EXCEPT !.peerHistory = Push(@, c), !.rateHistory = Push(@, t - l)]
      /\ samples' = Append(samples, x) /\ lastMsgs' = t
  BY <1>1, <1>3 DEF MetricsTick
<1>5. /\ stats'.peerHistory = peers /\ stats'.rateHistory = rates /\ stats'.relayed = t
  BY <1>1, <1>2, <1>3, <1>4, SampledFields
<1>6. PICK later : later = samples'
  OBVIOUS
<1>7. /\ Len(later) = n + 1 /\ later[n + 1] = x
      /\ \A i \in 1..n : later[i] = samples[i]
  BY <1>1, <1>2, <1>4, <1>6
<1>8. PICK p, q : p = stats.peerHistory /\ q = stats.rateHistory
  OBVIOUS
<1>9. /\ p \in Seq(Nat) /\ q \in Seq(Nat) /\ HistoryOf(p, n) /\ HistoryOf(q, n)
      /\ peers = Push(p, c) /\ rates = Push(q, t - l)
      /\ \A j \in 1..Len(p) : p[j] = samples[n - Len(p) + j].connCount
      /\ \A j \in 1..Len(q) :
           q[j] = RelayedAt(samples, n - Len(q) + j) - RelayedAt(samples, n - Len(q) + j - 1)
      /\ l = RelayedAt(samples, n)
  BY <1>1, <1>2, <1>8 DEF SampleInv
<1>10. ASSUME NEW i \in 1..Len(peers)
       PROVE  peers[i] = later[(n + 1) - Len(peers) + i].connCount
  <2>1. /\ Len(p) \in Nat /\ Len(peers) \in Nat \ {0} /\ Len(peers) <= n + 1
        /\ peers[Len(peers)] = c
        /\ \A k \in 1..(Len(peers) - 1) :
             \E j \in 1..Len(p) : peers[k] = p[j] /\ n - Len(p) + j = (n + 1) - Len(peers) + k
    <3>1. PushedOnto(p, peers, c, n)
      BY <1>2, <1>9, PushedRing
    <3> QED BY <3>1 DEF PushedOnto
  <2>2. CASE i = Len(peers)
    <3>1. (n + 1) - Len(peers) + i = n + 1
      BY <1>2, <2>1, <2>2
    <3> QED BY <1>2, <1>7, <2>1, <2>2, <3>1
  <2>3. CASE i # Len(peers)
    <3>1. i \in 1..(Len(peers) - 1)
      BY <2>1, <2>3
    <3>2. PICK j \in 1..Len(p) : peers[i] = p[j] /\ n - Len(p) + j = (n + 1) - Len(peers) + i
      BY <2>1, <3>1
    <3>3. (n + 1) - Len(peers) + i \in 1..n
      BY <1>2, <2>1, <3>1
    <3> QED BY <1>7, <1>9, <3>2, <3>3
  <2> QED BY <2>2, <2>3
<1>11. \A i \in 0..n : RelayedAt(later, i) = RelayedAt(samples, i)
  <2> SUFFICES ASSUME NEW i \in 0..n PROVE RelayedAt(later, i) = RelayedAt(samples, i)
    OBVIOUS
  <2>1. i # 0 => i \in 1..n
    BY <1>2
  <2> QED BY <1>7, <2>1 DEF RelayedAt
<1>12. RelayedAt(later, n + 1) = t /\ RelayedAt(later, n) = l
  <2>1. n + 1 # 0 /\ n \in 0..n
    BY <1>2
  <2> QED BY <1>2, <1>7, <1>9, <1>11, <2>1 DEF RelayedAt
<1>13. ASSUME NEW i \in 1..Len(rates)
       PROVE  /\ rates[i] = RelayedAt(later, (n + 1) - Len(rates) + i) - RelayedAt(later, (n + 1) - Len(rates) + i - 1)
              /\ (n + 1) - Len(rates) + i \in 1..(n + 1)
  <2>1. /\ Len(q) \in Nat /\ Len(rates) \in Nat \ {0} /\ Len(rates) <= n + 1
        /\ rates[Len(rates)] = t - l
        /\ \A k \in 1..(Len(rates) - 1) :
             \E j \in 1..Len(q) : rates[k] = q[j] /\ n - Len(q) + j = (n + 1) - Len(rates) + k
    <3>1. PushedOnto(q, rates, t - l, n)
      BY <1>2, <1>3, <1>9, PushedRing
    <3> QED BY <3>1 DEF PushedOnto
  <2>2. CASE i = Len(rates)
    <3>1. (n + 1) - Len(rates) + i = n + 1 /\ (n + 1) - 1 = n /\ n + 1 \in 1..(n + 1)
      BY <1>2, <2>1, <2>2
    <3> QED BY <1>12, <2>1, <2>2, <3>1
  <2>3. CASE i # Len(rates)
    <3>1. i \in 1..(Len(rates) - 1)
      BY <2>1, <2>3
    <3>2. PICK j \in 1..Len(q) : rates[i] = q[j] /\ n - Len(q) + j = (n + 1) - Len(rates) + i
      BY <2>1, <3>1
    <3>3. PICK k : k = (n + 1) - Len(rates) + i
      OBVIOUS
    <3>4. k \in 1..n /\ k \in 0..n /\ k - 1 \in 0..n /\ k \in 1..(n + 1)
      BY <1>2, <2>1, <3>1, <3>3
    <3>5. rates[i] = RelayedAt(samples, k) - RelayedAt(samples, k - 1)
      <4>1. n - Len(q) + j = k /\ n - Len(q) + j - 1 = k - 1
        BY <1>2, <2>1, <3>2, <3>3
      <4> QED BY <1>9, <3>2, <4>1
    <3>6. RelayedAt(later, k) = RelayedAt(samples, k) /\ RelayedAt(later, k - 1) = RelayedAt(samples, k - 1)
      BY <1>11, <3>4
    <3>7. (n + 1) - Len(rates) + i - 1 = k - 1
      BY <1>2, <2>1, <3>3
    <3> QED BY <3>3, <3>4, <3>5, <3>6, <3>7
  <2> QED BY <2>2, <2>3
<1>14. HistoryOf(peers, n + 1) /\ HistoryOf(rates, n + 1)
  <2>1. PushedOnto(p, peers, c, n) /\ PushedOnto(q, rates, t - l, n)
    BY <1>2, <1>3, <1>9, PushedRing
  <2> QED BY <2>1 DEF PushedOnto
<1>15. t <= t
  BY <1>2
<1> QED BY <1>4, <1>5, <1>6, <1>7, <1>10, <1>12, <1>13, <1>14, <1>15 DEF SampleInv

LEMMA SampleStep == CountInv /\ SampleInv /\ [Next]_vars => SampleInv'
<1> SUFFICES ASSUME CountInv, SampleInv, [Next]_vars PROVE SampleInv'
  OBVIOUS
<1>1. CASE Boot
  BY <1>1, SampleQuiet DEF Boot, Start, CreateFile, WriteFile, ComeUp, memory
<1>2. CASE IntervalEnds \/ UNCHANGED vars
  BY <1>2, SampleQuiet DEF IntervalEnds, vars, memory
<1>3. ASSUME NEW x \in Events, Report(x) PROVE SampleInv'
  BY <1>3, SampleQuiet DEF Report
<1>4. CASE HandleEvent
  <2>1. /\ samples' = samples /\ lastMsgs' = lastMsgs
        /\ stats' = Counted(Head(events)) /\ Head(events) \in Events
        /\ stats \in Stats /\ stats.relayed \in Nat
    BY <1>4, StatsFields DEF HandleEvent, CountInv, StatsTypes
  <2>2. /\ stats'.peerHistory = stats.peerHistory /\ stats'.rateHistory = stats.rateHistory
        /\ stats'.relayed = stats.relayed \/ stats'.relayed = stats.relayed + 1
    BY <2>1, CountedFields DEF Events
  <2> QED BY <2>1, <2>2, SampleQuiet
<1> QED BY <1>1, <1>2, <1>3, <1>4, SampleTick, SampleEnd DEF Next, Events

LEMMA StatsImplied ==
  ASSUME CountInv, SampleInv
  PROVE  StatsTrue
<1>1. PICK e, c, w, n : /\ e = Waiting(events, "established", Len(events))
                        /\ c = Waiting(events, "closed", Len(events))
                        /\ w = stats.connCount /\ n = Len(events)
  OBVIOUS
<1>2. n \in Nat /\ events \in Seq(Events) /\ DOMAIN events = 1..n
  BY <1>1 DEF CountInv, StatsTypes
<1>3. e \in Nat /\ c \in Nat /\ w \in Nat /\ live \in Nat /\ live + c = w + e
  BY <1>1, <1>2, WaitingNat, StatsFields DEF CountInv, StatsTypes, BacklogInv
<1>4. Pending("established") = e /\ Pending("closed") = c
  BY <1>1, <1>2 DEF Pending, Waiting
<1>5. w = live - e + c
  BY <1>3
<1>6. CountsAreConnections
  BY <1>1, <1>4, <1>5 DEF CountsAreConnections, CountInv, BacklogInv
<1>7. PICK kept, rates : kept = Len(stats.peerHistory) /\ rates = Len(stats.rateHistory)
  OBVIOUS
<1>8. /\ kept = rates
      /\ kept = IF Len(samples) < HistoryLen THEN Len(samples) ELSE HistoryLen
  BY <1>7 DEF SampleInv, HistoryOf
<1>9. SamplesAreHistory
  BY <1>7, <1>8 DEF SamplesAreHistory, SampleInv, RelayedAt
<1> QED BY <1>6, <1>9 DEF StatsTrue

\* The counters of the status page are the open connections up to what waits,
\* and its histories the last ticks of this process, whatever bursts of events
\* and ticks the loop was late for (handle_event, the metrics arm and
\* RelayeStats::push_sample).
THEOREM StatsKept == Spec => []StatsTrue
<1>1. Spec => [](CountInv /\ SampleInv)
  BY CountInit, CountStep, SampleInit, SampleStep, PTL DEF Spec
<1> QED BY <1>1, StatsImplied, PTL

-----------------------------------------------------------------------------
(* The other side of ComesBack.                                              *)

\* A relay that is down with part of a file stays down, and no start of it
\* replaces the file: load_identity fails on it every time, however often the
\* supervisor tries.
TornStaysDown == [][proc = "down" /\ file = Torn => proc' = "down" /\ file' = Torn]_vars

\* Only a configured file is ever torn.
TornInv == file = Torn => source = "file"

\* What was torn before the relay came up remains so, for any number of starts.
THEOREM TornForGood == Spec => TornStaysDown
<1>1. Init => TornInv
  BY NamesAssumption DEF Init, TornInv
<1>2. KeyInv /\ TornInv /\ [Next]_vars => TornInv'
  <2> SUFFICES ASSUME KeyInv, TornInv, [Next]_vars, file' = Torn
               PROVE  source' = "file"
    BY DEF TornInv
  <2>1. source' = source
    BY DEF Next, Boot, Start, CreateFile, WriteFile, ComeUp, Report, IntervalEnds,
           HandleEvent, MetricsTick, End, vars
  <2>2. proc = "minted" \/ proc = "writing" \/ file' = file
    BY DEF Next, Boot, Start, CreateFile, WriteFile, ComeUp, Report, IntervalEnds,
           HandleEvent, MetricsTick, End, vars
  <2> QED BY <2>1, <2>2 DEF KeyInv, WriterInv, TornInv
<1>3. TornInv /\ [Next]_vars =>
        [proc = "down" /\ file = Torn => proc' = "down" /\ file' = Torn]_vars
  <2> SUFFICES ASSUME TornInv, Next, proc = "down", file = Torn
               PROVE  proc' = "down" /\ file' = Torn
    OBVIOUS
  <2>1. source = "file"
    BY DEF TornInv
  <2>2. ~Start
    BY <2>1 DEF Start, LoadFile
  <2> QED BY <2>2 DEF Next, Boot, CreateFile, WriteFile, ComeUp, Report, IntervalEnds,
                     HandleEvent, MetricsTick, End
<1> QED BY <1>1, <1>2, <1>3, KeyInit, KeyStep, PTL DEF Spec, TornStaysDown
=============================================================================
