---------------------------- MODULE RelayProcess ----------------------------
(***************************************************************************)
(* The relay as a process (crates/relaye/src/main.rs): it starts, loads or *)
(* mints its identity, counts what its swarm reports, samples the counters *)
(* once per metrics interval (RelayeStats in status_page.rs), ends at any  *)
(* point and is started again by its supervisor.  All that outlives it is  *)
(* the identity file.                                                      *)
(*                                                                         *)
(* The arms of the main loop that serve the gateway are in Gateway.        *)
(***************************************************************************)
EXTENDS Integers, Sequences, FiniteSets

CONSTANTS
  None, Torn,   \* contents of the identity file beside a key: no file, part of one
  HistoryLen,   \* STATS_HISTORY_LEN
  MaxMishaps,   \* bound: ends of the process
  MaxPending,   \* bound: swarm events waiting, and ticks due
  MaxConns,     \* bound: connections accepted by one process
  MaxMessages,  \* bound: messages relayed by one process
  MaxSamples    \* bound: metrics ticks of one process

ASSUME NamesAssumption == None # Torn /\ {None, Torn} \cap Nat = {}
ASSUME HistoryLenAssumption == HistoryLen \in Nat \ {0}
ASSUME BoundsAssumption == {MaxMishaps, MaxPending, MaxConns, MaxMessages, MaxSamples} \subseteq Nat

VARIABLES
  source,    \* which of RELAYE_IDENTITY_FILE, RELAYE_IDENTITY_BYTES is set
  file,      \* the identity file: None, Torn or a key
  minted,    \* keys are numbered as they are made; 1 is the operator's
  proc,      \* how far the process has come
  identity,  \* its key, 0 for none
  live,      \* connections open, by what the swarm has queued
  events,    \* what the swarm reports and handle_event has not seen
  due,       \* metrics intervals that are over and were not served
  stats,     \* RelayeStats; peer_count always moves with conn_count
  lastMsgs,  \* last_msgs
  mishaps,
  \* history
  first,     \* the identity of the first process that came up
  samples    \* the counters as they were at each tick of this process

memory == <<identity, live, events, due, stats, lastMsgs, samples>>
vars == <<source, file, minted, proc, memory, mishaps, first>>

Keys == 1..(MaxMishaps + 2)

Stats == [connCount: Nat, accepted: Nat, relayed: Nat,
          peerHistory: Seq(Nat), rateHistory: Seq(Nat)]

TypeOK ==
  /\ source \in {"file", "bytes", "none"}
  /\ file \in Keys \cup {None, Torn}
  /\ minted \in Keys /\ {identity, first} \subseteq Keys \cup {0}
  /\ proc \in {"down", "minted", "writing", "loaded", "up"}
  /\ live \in Nat
  /\ events \in Seq({"established", "closed", "message"})
  /\ due \in 0..MaxPending
  /\ stats \in Stats
  /\ Len(stats.peerHistory) <= HistoryLen /\ Len(stats.rateHistory) <= HistoryLen
  /\ lastMsgs \in Nat
  /\ mishaps \in 0..MaxMishaps
  /\ samples \in Seq([connCount: Nat, relayed: Nat])

\* RelayeStats::default
NoStats == [connCount |-> 0, accepted |-> 0, relayed |-> 0,
            peerHistory |-> <<>>, rateHistory |-> <<>>]

Fresh ==
  /\ live = 0 /\ events = <<>> /\ due = 0
  /\ stats = NoStats /\ lastMsgs = 0
  /\ samples = <<>>

Init ==
  /\ source \in {"file", "bytes", "none"}
  /\ file \in {None} \cup (IF source = "file" THEN {1} ELSE {})
  /\ minted = 1
  /\ proc = "down" /\ identity = 0
  /\ Fresh
  /\ mishaps = 0
  /\ first = 0

-----------------------------------------------------------------------------
(* The start: load_identity *)

Loaded(key) ==
  /\ proc' = "loaded" /\ identity' = key
  /\ UNCHANGED minted

Mint(step) ==
  /\ minted' = minted + 1
  /\ proc' = step /\ identity' = minted + 1

\* The file if it is there, else a key for it.  Part of a key does not decode,
\* and the start fails, so nothing changes.
LoadFile ==
  /\ file # Torn
  /\ IF file = None THEN Mint("minted") ELSE Loaded(file)

\* Definitions marked "fault" are what a slip in the code would give; no action
\* uses them.  A fault: no file, no start.
StartNeedsFile ==
  /\ proc = "down"
  /\ \/ source = "file" /\ file # None /\ LoadFile
     \/ source = "bytes" /\ Loaded(1)
     \/ source = "none" /\ Mint("loaded")
  /\ UNCHANGED <<source, file, live, events, due, stats, lastMsgs, samples, mishaps, first>>

Start ==
  /\ proc = "down"
  /\ \/ source = "file" /\ LoadFile
     \/ source = "bytes" /\ Loaded(1)
     \/ source = "none" /\ Mint("loaded")
  /\ UNCHANGED <<source, file, live, events, due, stats, lastMsgs, samples, mishaps, first>>

\* fs::write is not atomic: it creates the file,
CreateFile ==
  /\ proc = "minted"
  /\ file' = Torn /\ proc' = "writing"
  /\ UNCHANGED <<source, minted, memory, mishaps, first>>

\* A fault: the error of the write is passed over.
WriteFileUnchecked ==
  /\ proc = "writing"
  /\ file' \in {identity, file} /\ proc' = "loaded"
  /\ UNCHANGED <<source, minted, memory, mishaps, first>>

\* and fills it.
WriteFile ==
  /\ proc = "writing"
  /\ file' = identity /\ proc' = "loaded"
  /\ UNCHANGED <<source, minted, memory, mishaps, first>>

\* The client key, the topics, the listener: all as configured.
ComeUp ==
  /\ proc = "loaded"
  /\ proc' = "up"
  /\ first' = IF first = 0 THEN identity ELSE first
  /\ UNCHANGED <<source, file, minted, memory, mishaps>>

\* A crash, a failure the start returns, or ctrl-c.
End ==
  /\ proc # "down" /\ mishaps < MaxMishaps
  /\ mishaps' = mishaps + 1
  /\ proc' = "down" /\ identity' = 0
  /\ live' = 0 /\ events' = <<>> /\ due' = 0
  /\ stats' = NoStats /\ lastMsgs' = 0
  /\ samples' = <<>>
  /\ UNCHANGED <<source, file, minted, first>>

-----------------------------------------------------------------------------
(* The swarm and the clock *)

Pending(event) == Cardinality({i \in DOMAIN events : events[i] = event})

\* A connection is established or closed, or a message of a joined topic
\* comes in; the event waits until the main loop takes it.
Report(event) ==
  /\ proc = "up" /\ Len(events) < MaxPending
  /\ event = "established" => stats.accepted + Pending(event) < MaxConns
  /\ event = "message" => stats.relayed + Pending(event) < MaxMessages
  /\ event = "closed" => live > 0
  /\ events' = Append(events, event)
  /\ live' = CASE event = "established" -> live + 1
               [] event = "closed"      -> live - 1
               [] event = "message"     -> live
  /\ UNCHANGED <<source, file, minted, proc, identity, due, stats, lastMsgs, samples,
                 mishaps, first>>

\* A tick missed while the loop was busy is made up for.
IntervalEnds ==
  /\ proc = "up" /\ due < MaxPending /\ Len(samples) + due < MaxSamples
  /\ due' = due + 1
  /\ UNCHANGED <<source, file, minted, proc, identity, live, events, stats, lastMsgs,
                 samples, mishaps, first>>

-----------------------------------------------------------------------------
(* The main loop *)

\* saturating_sub(1)
Less(n) == IF n = 0 THEN 0 ELSE n - 1

\* handle_event
Counted(event) ==
  CASE event = "established" -> [stats EXCEPT !.connCount = @ + 1, !.accepted = @ + 1]
    [] event = "closed"      -> [stats EXCEPT !.connCount = Less(@)]
    [] event = "message"     -> [stats EXCEPT !.relayed = @ + 1]

HandleEvent ==
  /\ proc = "up" /\ events # <<>>
  /\ events' = Tail(events)
  /\ stats' = Counted(Head(events))
  /\ UNCHANGED <<source, file, minted, proc, identity, live, due, lastMsgs, samples,
                 mishaps, first>>

Push(ring, value) ==
  Append(IF Len(ring) = HistoryLen THEN Tail(ring) ELSE ring, value)

\* A fault: last_msgs takes the delta, not the total.
MetricsTickOfDelta ==
  /\ proc = "up" /\ due > 0
  /\ due' = due - 1
  /\ LET delta == IF lastMsgs > stats.relayed THEN 0 ELSE stats.relayed - lastMsgs
     IN /\ lastMsgs' = delta
        /\ stats' = [stats EXCEPT !.peerHistory = Push(@, stats.connCount),
                                  !.rateHistory = Push(@, delta)]
  /\ samples' = Append(samples, [connCount |-> stats.connCount, relayed |-> stats.relayed])
  /\ UNCHANGED <<source, file, minted, proc, identity, live, events, mishaps, first>>

\* The metrics arm with push_sample.  A rate is kept as the messages of its
\* interval.
MetricsTick ==
  /\ proc = "up" /\ due > 0
  /\ due' = due - 1
  /\ lastMsgs' = stats.relayed
  /\ LET delta == IF lastMsgs > stats.relayed THEN 0 ELSE stats.relayed - lastMsgs
     IN stats' = [stats EXCEPT !.peerHistory = Push(@, stats.connCount),
                               !.rateHistory = Push(@, delta)]
  /\ samples' = Append(samples, [connCount |-> stats.connCount, relayed |-> stats.relayed])
  /\ UNCHANGED <<source, file, minted, proc, identity, live, events, mishaps, first>>

-----------------------------------------------------------------------------
Boot == Start \/ CreateFile \/ WriteFile \/ ComeUp

Next ==
  \/ Boot
  \/ \E event \in {"established", "closed", "message"} : Report(event)
  \/ IntervalEnds
  \/ HandleEvent
  \/ MetricsTick
  \/ End

\* The supervisor starts the relay again whenever it has ended
\* (Restart=always), and a start goes on.
Fairness == WF_vars(Boot)

Spec == Init /\ [][Next]_vars
FairSpec == Spec /\ Fairness

-----------------------------------------------------------------------------
(* Properties *)

\* However the relay ended before, within its first start too, every process
\* that comes up with a configured identity has that of the first one, and a
\* file that is configured holds it by then.
IdentityKept ==
  proc = "up" /\ source # "none" =>
    /\ identity = first
    /\ source = "file" => file = identity

\* The connections the status page shows are the open ones, up to the events
\* the main loop has not come to; none is counted for an earlier process.
CountsAreConnections ==
  /\ stats.connCount = live - Pending("established") + Pending("closed")
  /\ stats.accepted >= stats.connCount

\* The two histories are the last HistoryLen ticks of this process, tick by
\* tick, and every message counted before the last tick is in one of its
\* samples, a burst of ticks included.
SamplesAreHistory ==
  LET n == Len(samples)
      kept == Len(stats.peerHistory)
      Relayed(i) == IF i = 0 THEN 0 ELSE samples[i].relayed
  IN /\ kept = Len(stats.rateHistory)
     /\ kept = IF n < HistoryLen THEN n ELSE HistoryLen
     /\ \A i \in 1..kept :
          /\ stats.peerHistory[i] = samples[n - kept + i].connCount
          /\ stats.rateHistory[i] = Relayed(n - kept + i) - Relayed(n - kept + i - 1)

StatsTrue == CountsAreConnections /\ SamplesAreHistory

\* A relay that is down comes up again, unless its end has left part of a file.
ComesBack == proc = "down" ~> (proc = "up" \/ file = Torn)
=============================================================================
