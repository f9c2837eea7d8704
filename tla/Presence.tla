------------------------------ MODULE Presence ------------------------------
(***************************************************************************)
(* The other players of bevy-starter (bevy-starter/src/scene.rs): every    *)
(* tab publishes where its player is, and shows an entity for each player  *)
(* it has heard of in the last 30 s of its own clock.                      *)
(*                                                                         *)
(* One tab is looked at.  The others run publish_self_position, and their  *)
(* frames may be lost or overtake each other on the way.  This tab runs    *)
(* its update in three steps (drain_position_events is two of them); the    *)
(* browser runs an update to its end, so nothing arrives between them, but *)
(* the clock is read in each.  An update may come late: a hidden tab has   *)
(* none.  Times are ages, counted in ticks up to one beyond the timeout.   *)
(***************************************************************************)
EXTENDS Integers, Sequences, FiniteSets, FiniteSetsExt, Functions

CONSTANTS
  Players,     \* the peer ids of the other players
  Self,        \* this tab's own, which a second tab with the same key shares
  Spots,       \* where a player may stand
  Entities,    \* ids bevy may give out; one it has given out is not in use
  Garbage, None,
  Timeout,     \* the 30 s
  MaxAir,      \* bound: frames on their way at once
  MaxWaiting   \* bound: frames waiting between two updates

ASSUME TimeoutAssumption == Timeout \in Nat \ {0}
ASSUME EntitiesAssumption == IsFiniteSet(Entities) /\ Cardinality(Entities) > Cardinality(Players)
ASSUME NamesAssumption ==
  /\ IsFiniteSet(Players) /\ Self \notin Players
  /\ None \notin Entities \cup Spots

VARIABLES
  online,   \* the players whose tabs are open
  air,      \* frames published and neither arrived nor lost
  waiting, handed,  \* the topic in laye-p2p, as FrameChannel has it
  stage,    \* which step of the update runs next: the first, between updates
  remotes,  \* RemotePlayers: player -> entry, for the players it holds
  world,    \* the RemotePlayerCell entities: entity -> where it is drawn
  \* history
  silence,  \* player -> ticks since a frame of it arrived
  told      \* player held -> the spot in the last frame of it that was drained

\* A position published by a second tab with this tab's key.
Own == [peer |-> Self, spot |-> CHOOSE s \in Spots : TRUE]

Frames == [peer: Players, spot: Spots] \cup {Own, Garbage}

Channel == INSTANCE FrameChannel

channel == <<waiting, handed>>
history == <<silence, told>>
vars == <<online, air, waiting, handed, stage, remotes, world, silence, told>>

Ages == 0..(Timeout + 1)
Entries == [pos: Spots, age: Ages, entity: Entities \cup {None}]

TypeOK ==
  /\ online \subseteq Players
  /\ air \subseteq Frames
  /\ Channel!TypeOK
  /\ stage \in 1..3
  /\ DOMAIN remotes \subseteq Players
  /\ \A p \in DOMAIN remotes : remotes[p] \in Entries
  /\ DOMAIN world \subseteq Entities
  /\ \A e \in DOMAIN world : world[e] \in Spots
  /\ silence \in [Players -> Ages]
  /\ told \in [Players -> Spots \cup {None}]

Init ==
  /\ online = Players
  /\ air = {}
  /\ Channel!Init
  /\ stage = 1
  /\ remotes = <<>>
  /\ world = <<>>
  /\ silence = [p \in Players |-> Timeout + 1]
  /\ told = [p \in Players |-> None]

Older(age) == IF age > Timeout THEN age ELSE age + 1

-----------------------------------------------------------------------------
(* The other tabs and the mesh *)

\* publish_self_position in the tab of p, when its 0.1 s are up, from wherever
\* the player has been moved to.
PublishSelfPosition(p) ==
  /\ p \in online
  /\ Cardinality(air) < MaxAir
  /\ \E s \in Spots : air' = air \cup {[peer |-> p, spot |-> s]}
  /\ UNCHANGED <<online, channel, stage, remotes, world, history>>

\* The topic also carries what is not a position of another player.
PublishOther ==
  /\ Cardinality(air) < MaxAir
  /\ \E f \in {Own, Garbage} : air' = air \cup {f}
  /\ UNCHANGED <<online, channel, stage, remotes, world, history>>

Leave(p) ==
  /\ p \in online
  /\ online' = online \ {p}
  /\ UNCHANGED <<air, channel, stage, remotes, world, history>>

Lose(f) ==
  /\ f \in air
  /\ air' = air \ {f}
  /\ UNCHANGED <<online, channel, stage, remotes, world, history>>

\* A frame reaches the topic's queue in laye-p2p, between two updates.
ArriveFrame(f) ==
  /\ stage = 1
  /\ f \in air /\ Len(waiting) < MaxWaiting
  /\ air' = air \ {f}
  /\ Channel!Arrive(f)
  /\ silence' = [p \in Players |-> IF f # Garbage /\ f.peer = p THEN 0 ELSE silence[p]]
  /\ UNCHANGED <<online, stage, remotes, world, told>>

Tick ==
  /\ silence' = [p \in Players |-> Older(silence[p])]
  /\ remotes' = [p \in DOMAIN remotes |-> [remotes[p] EXCEPT !.age = Older(@)]]
  /\ UNCHANGED <<online, air, channel, stage, world, told>>

-----------------------------------------------------------------------------
(* This tab's update *)

\* Definitions marked "fault" are what a slip in the code would give; no action
\* uses them.  A fault: the chain runs the two systems the other way round.
ChainSwapped == <<"render", "receive", "drain">>

\* The systems are chained; drain_position_events is two steps.
Chain == <<"receive", "drain", "render">>

Step(s) ==
  /\ Chain[stage] = s
  /\ stage' = (stage % Len(Chain)) + 1

\* pending_bytes and recv_bytes: everything that waits.
ReceivePositions ==
  /\ Step("receive")
  /\ Channel!Take
  /\ UNCHANGED <<online, air, remotes, world, history>>

\* A position of another player.  The rest of what arrives is passed over.
Usable(f) == f # Garbage /\ f.peer # Self

\* Where the frames of p are among those handed over.
Said(p) == {i \in DOMAIN handed : Usable(handed[i]) /\ handed[i].peer = p}

Speakers == {p \in Players : Said(p) # {}}

\* What the last of them says, whatever order they were sent in.
LastOf(p) == handed[Max(Said(p))].spot

\* A fault: the entry is replaced, the entity it had is forgotten.
HeardAnew(p, spot) == [pos |-> spot, age |-> 0, entity |-> None]

\* An entry that is there keeps its entity.
Heard(p, spot) ==
  [pos |-> spot, age |-> 0,
   entity |-> IF p \in DOMAIN remotes THEN remotes[p].entity ELSE None]

\* A fault: whatever arrives, every entry counts as heard.
DrainRefreshesAll ==
  /\ Step("drain")
  /\ Channel!Done
  /\ remotes' = [p \in DOMAIN remotes \cup Speakers |->
                   IF p \in Speakers THEN Heard(p, LastOf(p))
                   ELSE IF Speakers = {} THEN remotes[p] ELSE Heard(p, remotes[p].pos)]
  /\ told' = [p \in Players |-> IF p \in Speakers THEN LastOf(p) ELSE told[p]]
  /\ UNCHANGED <<online, air, world, silence>>

DrainPositionEvents ==
  /\ Step("drain")
  /\ Channel!Done
  /\ remotes' = [p \in DOMAIN remotes \cup Speakers |->
                   IF p \in Speakers THEN Heard(p, LastOf(p)) ELSE remotes[p]]
  /\ told' = [p \in Players |-> IF p \in Speakers THEN LastOf(p) ELSE told[p]]
  /\ UNCHANGED <<online, air, world, silence>>

\* last_seen_ms < stale_cutoff
Stale(p) == remotes[p].age > Timeout

\* The stale players go with their entities, those without one get a new one,
\* and every entity is put where its entry says.
RenderRemotePlayers ==
  /\ Step("render")
  /\ LET kept == {p \in DOMAIN remotes : ~Stale(p)}
         bare == {p \in kept : remotes[p].entity = None}
         despawned == {remotes[p].entity : p \in DOMAIN remotes \ kept} \ {None}
         spawned == CHOOSE ids \in Injection(bare, Entities \ DOMAIN world) : TRUE
         entity == [p \in kept |-> IF p \in bare THEN spawned[p] ELSE remotes[p].entity]
         Owner(e) == {p \in kept : entity[p] = e}
     IN /\ remotes' = [p \in kept |-> [remotes[p] EXCEPT !.entity = entity[p]]]
        /\ world' = [e \in (DOMAIN world \ despawned) \cup Range(spawned) |->
                       IF Owner(e) = {} THEN world[e]
                       ELSE remotes[CHOOSE p \in Owner(e) : TRUE].pos]
        /\ told' = [p \in Players |-> IF p \in kept THEN told[p] ELSE None]
  /\ UNCHANGED <<online, air, channel, silence>>

-----------------------------------------------------------------------------
Update == ReceivePositions \/ DrainPositionEvents \/ RenderRemotePlayers

Next ==
  \/ \E p \in Players : PublishSelfPosition(p) \/ Leave(p)
  \/ PublishOther
  \/ \E f \in Frames : Lose(f) \/ ArriveFrame(f)
  \/ Tick
  \/ Update

\* Time passes, the tab is looked at again and again, and no frame is on its
\* way for ever.
Fairness ==
  /\ WF_vars(Tick)
  /\ WF_vars(Update)
  /\ \A f \in Frames : WF_vars(Lose(f) \/ ArriveFrame(f))

Spec == Init /\ [][Next]_vars
FairSpec == Spec /\ Fairness

-----------------------------------------------------------------------------
(* Properties *)

\* Between updates every player held has an entity of its own, drawn where the
\* last frame drained of it said, and no other entity is left in the world:
\* none leaks when its player is removed, none is spawned twice.
WorldShowsRemotes ==
  stage = 1 =>
    /\ DOMAIN world = {remotes[p].entity : p \in DOMAIN remotes}
    /\ \A p, q \in DOMAIN remotes : remotes[p].entity = remotes[q].entity => p = q
    /\ \A p \in DOMAIN remotes : world[remotes[p].entity] = told[p]

\* A player is removed only if nothing of it arrived during the last Timeout
\* ticks, however long this tab had no update: what came in while it was
\* hidden is drained before anyone is judged.
OnlyTheSilentVanish ==
  [][\A p \in DOMAIN remotes \ DOMAIN remotes' : silence[p] > Timeout]_vars

\* A player whose tab has closed disappears for good, the frames of it that are
\* late notwithstanding.
DepartedVanish ==
  \A p \in Players : p \notin online ~> [](p \notin DOMAIN remotes)
=============================================================================
