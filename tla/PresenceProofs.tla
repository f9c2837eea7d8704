--------------------------- MODULE PresenceProofs ---------------------------
(***************************************************************************)
(* Proofs about Presence: the types, that the world shows exactly the      *)
(* players held, and that only the silent vanish, for every value of the   *)
(* constants.                                                              *)
(***************************************************************************)
EXTENDS Presence, FiniteSetTheorems, WellFoundedInduction, TLAPS

-----------------------------------------------------------------------------
(* Sets of indices, injections and the steps of an update *)

LEMMA MaxIn ==
  ASSUME NEW n \in Nat, NEW S \in SUBSET (1..n), S # {}
  PROVE  Max(S) \in S
<1> DEFINE T == {n - i : i \in S}
<1>1. T \subseteq Nat /\ T # {}
  <2>1. \A i \in S : n - i \in Nat
    OBVIOUS
  <2> QED  BY <2>1
<1>2. PICK x \in T : \A y \in T : ~(<<y, x>> \in OpToRel(<, Nat))
  <2>1. IsWellFoundedOn(OpToRel(<, Nat), Nat)
    BY NatLessThanWellFounded
  <2> HIDE DEF T
  <2> QED  BY <1>1, <2>1, WFMin
<1>3. \A y \in T : ~(y < x)
  BY <1>1, <1>2 DEF OpToRel
<1>4. PICK i \in S : x = n - i
  BY <1>2
<1>5. \A j \in S : i >= j
  BY <1>3, <1>4
<1> QED  BY <1>4, <1>5 DEF Max

LEMMA InjectionExists ==
  ASSUME NEW S, NEW T, IsFiniteSet(S), IsFiniteSet(T), Cardinality(S) <= Cardinality(T)
  PROVE  \E f \in Injection(S, T) : TRUE
<1>1. Cardinality(S) \in Nat /\ Cardinality(T) \in Nat
  BY FS_CardinalityType
<1>2. PICK g \in Bijection(1..Cardinality(S), S) : TRUE
  BY FS_CardinalityType DEF ExistsBijection
<1>3. PICK h \in Bijection(1..Cardinality(T), T) : TRUE
  BY FS_CardinalityType DEF ExistsBijection
<1>4. /\ g \in [1..Cardinality(S) -> S]
      /\ \A s \in S : \E k \in 1..Cardinality(S) : g[k] = s
  BY <1>2 DEF Bijection, Surjection
<1>5. /\ h \in [1..Cardinality(T) -> T]
      /\ \A a, b \in 1..Cardinality(T) : h[a] = h[b] => a = b
  BY <1>3 DEF Bijection, Injection, IsInjective
<1> DEFINE number == [s \in S |-> CHOOSE k \in 1..Cardinality(S) : g[k] = s]
           f == [s \in S |-> h[number[s]]]
<1>6. \A s \in S : number[s] \in 1..Cardinality(S) /\ g[number[s]] = s
  BY <1>4
<1>7. \A s \in S : number[s] \in 1..Cardinality(T)
  <2> HIDE DEF number
  <2> QED  BY <1>1, <1>6
<1>8. f \in [S -> T] /\ \A s, t \in S : f[s] = f[t] => s = t
  <2> HIDE DEF number
  <2> QED  BY <1>5, <1>6, <1>7
<1>9. f \in Injection(S, T)
  <2> HIDE DEF f
  <2> QED  BY <1>8 DEF Injection, IsInjective
<1> QED  BY <1>9

LEMMA Stages ==
  ASSUME stage \in 1..3
  PROVE  /\ Step("receive") => stage = 1 /\ stage' = 2
         /\ Step("drain") => stage = 2 /\ stage' = 3
         /\ Step("render") => stage = 3 /\ stage' = 1
BY DEF Step, Chain

-----------------------------------------------------------------------------
(* Types *)

LEMMA UsableFrames ==
  ASSUME NEW f \in Frames, Usable(f)
  PROVE  f.peer \in Players /\ f.spot \in Spots
BY DEF Usable, Frames, Own

\* What a speaker's last frame says.
LEMMA LastSays ==
  ASSUME TypeOK, NEW p \in Speakers
  PROVE  /\ LastOf(p) \in Spots
         /\ \E i \in DOMAIN handed : Usable(handed[i]) /\ handed[i].peer = p
<1>1. handed \in Seq(Frames)
  BY DEF TypeOK, Channel!TypeOK
<1>2. Len(handed) \in Nat /\ Said(p) \in SUBSET (1..Len(handed)) /\ Said(p) # {}
  BY <1>1 DEF Said, Speakers
<1>3. Max(Said(p)) \in Said(p)
  BY <1>2, MaxIn
<1>4. PICK i \in DOMAIN handed : i = Max(Said(p)) /\ Usable(handed[i]) /\ handed[i].peer = p
  BY <1>3 DEF Said
<1>5. handed[i] \in Frames
  BY <1>1, <1>4
<1> QED  BY <1>4, <1>5, UsableFrames DEF LastOf

LEMMA HeardType ==
  ASSUME TypeOK, NEW p, NEW spot \in Spots
  PROVE  Heard(p, spot) \in Entries
<1>1. 0 \in Ages
  BY TimeoutAssumption DEF Ages
<1> QED  BY <1>1 DEF Heard, Entries, TypeOK

LEMMA OlderAges ==
  /\ Ages \subseteq Nat
  /\ \A a \in Ages : Older(a) \in Ages
  /\ \A a, b \in Ages : a <= b => Older(a) <= Older(b)
BY TimeoutAssumption DEF Ages, Older

LEMMA TypeInit == Init => TypeOK
BY TimeoutAssumption DEF Init, TypeOK, Channel!Init, Channel!TypeOK, Ages

LEMMA TypeAir ==
  ASSUME TypeOK,
         \/ \E p \in Players : PublishSelfPosition(p) \/ Leave(p)
         \/ PublishOther
         \/ \E f \in Frames : Lose(f)
  PROVE  TypeOK'
<1>1. online' \subseteq Players
  BY DEF TypeOK, PublishSelfPosition, Leave, PublishOther, Lose
<1>2. air' \subseteq Frames
  BY DEF TypeOK, PublishSelfPosition, Leave, PublishOther, Lose, Frames
<1>3. UNCHANGED <<waiting, handed, stage, remotes, world, silence, told>>
  BY DEF PublishSelfPosition, Leave, PublishOther, Lose, channel, history
<1> QED  BY <1>1, <1>2, <1>3 DEF TypeOK, Channel!TypeOK

LEMMA TypeArrive ==
  ASSUME TypeOK, NEW f \in Frames, ArriveFrame(f)
  PROVE  TypeOK'
<1>1. Channel!TypeOK'
  BY DEF TypeOK, ArriveFrame, Channel!TypeOK, Channel!Arrive
<1>2. silence' \in [Players -> Ages]
  BY TimeoutAssumption DEF TypeOK, ArriveFrame, Ages
<1> QED  BY <1>1, <1>2 DEF TypeOK, ArriveFrame

LEMMA TypeTick == ASSUME TypeOK, Tick PROVE TypeOK'
<1>1. silence' \in [Players -> Ages]
  BY OlderAges DEF TypeOK, Tick
<1>2. DOMAIN remotes' = DOMAIN remotes
  BY DEF Tick
<1>3. \A p \in DOMAIN remotes' : remotes'[p] \in Entries
  <2>1. \A e \in Entries : [e EXCEPT !.age = Older(@)] \in Entries
    BY OlderAges DEF Entries
  <2> QED  BY <2>1 DEF TypeOK, Tick
<1> QED  BY <1>1, <1>2, <1>3 DEF TypeOK, Tick, channel, Channel!TypeOK

LEMMA TypeReceive == ASSUME TypeOK, ReceivePositions PROVE TypeOK'
<1>1. stage' \in 1..3
  BY Stages DEF TypeOK, ReceivePositions
<1>2. Channel!TypeOK'
  BY DEF TypeOK, ReceivePositions, Channel!TypeOK, Channel!Take
<1> QED  BY <1>1, <1>2 DEF TypeOK, ReceivePositions, history

LEMMA TypeDrain == ASSUME TypeOK, DrainPositionEvents PROVE TypeOK'
<1>1. stage' \in 1..3
  BY Stages DEF TypeOK, DrainPositionEvents
<1>2. Channel!TypeOK'
  BY DEF TypeOK, DrainPositionEvents, Channel!TypeOK, Channel!Done
<1>3. Speakers \subseteq Players /\ \A p \in Speakers : LastOf(p) \in Spots
  BY LastSays DEF Speakers
<1>4. DOMAIN remotes' \subseteq Players /\ \A p \in DOMAIN remotes' : remotes'[p] \in Entries
  BY <1>3, HeardType DEF TypeOK, DrainPositionEvents
<1>5. told' \in [Players -> Spots \cup {None}]
  BY <1>3 DEF TypeOK, DrainPositionEvents
<1> QED  BY <1>1, <1>2, <1>4, <1>5 DEF TypeOK, DrainPositionEvents

-----------------------------------------------------------------------------
(* Players and entities.  Each entity in the world belongs to one player    *)
(* held, and, except between the drain and the render, each player has one  *)
(* that is where the last frame said.                                       *)

LinkInv ==
  /\ \A p \in DOMAIN remotes : remotes[p].pos = told[p]
  /\ \A p, q \in DOMAIN remotes :
       remotes[p].entity = remotes[q].entity /\ remotes[p].entity # None => p = q
  /\ DOMAIN world = {remotes[p].entity : p \in DOMAIN remotes} \ {None}
  /\ stage # 3 => \A p \in DOMAIN remotes : /\ remotes[p].entity # None
                                            /\ world[remotes[p].entity] = told[p]

\* What a render keeps, gives an entity and takes one from.
Kept == {p \in DOMAIN remotes : ~Stale(p)}
Bare == {p \in Kept : remotes[p].entity = None}
Despawned == {remotes[p].entity : p \in DOMAIN remotes \ Kept} \ {None}

\* There are entities to give: fewer players hold one than there are players.
LEMMA EntitiesLeft ==
  ASSUME TypeOK, LinkInv
  PROVE  \E ids \in Injection(Bare, Entities \ DOMAIN world) : TRUE
<1> DEFINE Holders == {p \in DOMAIN remotes : remotes[p].entity # None}
           owner == [e \in DOMAIN world |->
                       CHOOSE p \in Holders : remotes[p].entity = e]
<1>1. Holders \subseteq Players /\ Bare \subseteq Players /\ Holders \cap Bare = {}
  BY DEF TypeOK, Bare, Kept
<1>2. /\ IsFiniteSet(Players) /\ IsFiniteSet(Holders) /\ IsFiniteSet(Bare)
      /\ IsFiniteSet(Holders \cup Bare)
  <2>1. Holders \cup Bare \subseteq Players
    BY <1>1
  <2> HIDE DEF Holders
  <2> QED  BY <1>1, <2>1, NamesAssumption, FS_Subset
<1>3. /\ Cardinality(Holders) \in Nat /\ Cardinality(Bare) \in Nat
      /\ Cardinality(Holders \cup Bare) = Cardinality(Holders) + Cardinality(Bare)
      /\ Cardinality(Holders \cup Bare) <= Cardinality(Players)
      /\ Cardinality(Players) \in Nat
  <2>1. Holders \cup Bare \subseteq Players
    BY <1>1
  <2> HIDE DEF Holders
  <2>2. Cardinality(Holders \cup Bare) <= Cardinality(Players)
    BY <1>2, <2>1, FS_Subset
  <2>3. Cardinality(Holders \cap Bare) = 0
    BY <1>1, FS_EmptySet
  <2>4. /\ Cardinality(Holders) \in Nat /\ Cardinality(Bare) \in Nat
        /\ Cardinality(Players) \in Nat
    BY <1>2, FS_CardinalityType
  <2>5. Cardinality(Holders \cup Bare) =
          Cardinality(Holders) + Cardinality(Bare) - Cardinality(Holders \cap Bare)
    BY <1>2, FS_Union
  <2> QED  BY <2>2, <2>3, <2>4, <2>5
<1>4. owner \in Injection(DOMAIN world, Holders)
  <2>1. \A e \in DOMAIN world : owner[e] \in Holders /\ remotes[owner[e]].entity = e
    BY DEF LinkInv
  <2>2. owner \in [DOMAIN world -> Holders]
    BY <2>1
  <2> HIDE DEF owner, Holders
  <2> QED  BY <2>1, <2>2 DEF Injection, IsInjective
<1>5. IsFiniteSet(DOMAIN world) /\ Cardinality(DOMAIN world) <= Cardinality(Holders)
  <2> HIDE DEF owner, Holders
  <2> QED  BY <1>2, <1>4, FS_Injection
<1>6. /\ IsFiniteSet(Entities \ DOMAIN world)
      /\ Cardinality(Entities \ DOMAIN world) =
           Cardinality(Entities) - Cardinality(Entities \cap DOMAIN world)
  BY EntitiesAssumption, FS_Difference
<1>7. Entities \cap DOMAIN world = DOMAIN world
  BY DEF TypeOK
<1>8. /\ Cardinality(Entities) \in Nat /\ Cardinality(DOMAIN world) \in Nat
      /\ Cardinality(Entities) > Cardinality(Players)
  BY <1>5, EntitiesAssumption, FS_CardinalityType
<1>9. Cardinality(Bare) <= Cardinality(Entities \ DOMAIN world)
  <2>1. Cardinality(Entities \ DOMAIN world) = Cardinality(Entities) - Cardinality(DOMAIN world)
    BY <1>6, <1>7
  <2>2. Cardinality(Holders) + Cardinality(Bare) <= Cardinality(Players)
    BY <1>3
  <2> HIDE DEF Holders
  <2> QED  BY <1>3, <1>5, <1>8, <2>1, <2>2
<1> QED  BY <1>2, <1>6, <1>9, InjectionExists

\* What a render does, with the entities it gives out.
LEMMA RenderGives ==
  ASSUME TypeOK, LinkInv, RenderRemotePlayers
  PROVE  \E given \in [Kept -> Entities] :
           /\ \A p \in Kept \ Bare : given[p] = remotes[p].entity
           /\ \A p \in Bare : given[p] \notin DOMAIN world
           /\ \A p, q \in Kept : given[p] = given[q] => p = q
           /\ remotes' = [p \in Kept |-> [remotes[p] EXCEPT !.entity = given[p]]]
           /\ DOMAIN world' = {given[p] : p \in Kept}
           /\ \A p \in Kept : world'[given[p]] = remotes[p].pos
           /\ told' = [p \in Players |-> IF p \in Kept THEN told[p] ELSE None]
<1> DEFINE spawned == CHOOSE ids \in Injection(Bare, Entities \ DOMAIN world) : TRUE
           given == [p \in Kept |-> IF p \in Bare THEN spawned[p] ELSE remotes[p].entity]
           Owner(e) == {p \in Kept : given[p] = e}
<1>1. spawned \in Injection(Bare, Entities \ DOMAIN world)
  BY EntitiesLeft
<1>2. /\ remotes' = [p \in Kept |-> [remotes[p] EXCEPT !.entity = given[p]]]
      /\ world' = [e \in (DOMAIN world \ Despawned) \cup Range(spawned) |->
                     IF Owner(e) = {} THEN world[e]
                     ELSE remotes[CHOOSE p \in Owner(e) : TRUE].pos]
      /\ told' = [p \in Players |-> IF p \in Kept THEN told[p] ELSE None]
  BY DEF RenderRemotePlayers, Kept, Bare, Despawned
<1> HIDE DEF spawned
<1>3. /\ spawned \in [Bare -> Entities \ DOMAIN world]
      /\ \A p, q \in Bare : spawned[p] = spawned[q] => p = q
      /\ Range(spawned) = {spawned[p] : p \in Bare}
  BY <1>1 DEF Injection, IsInjective, Range
<1>4. Kept \subseteq DOMAIN remotes /\ Bare \subseteq Kept
  BY DEF Kept, Bare
<1>5. \A p \in Kept \ Bare : /\ remotes[p].entity # None
                             /\ remotes[p].entity \in DOMAIN world
                             /\ remotes[p].entity \in Entities
                             /\ remotes[p].entity \notin Despawned
  BY <1>4 DEF Bare, Despawned, LinkInv, TypeOK
<1>6. /\ given \in [Kept -> Entities]
      /\ \A p \in Kept \ Bare : given[p] = remotes[p].entity
      /\ \A p \in Bare : given[p] \notin DOMAIN world /\ given[p] = spawned[p]
  BY <1>3, <1>4, <1>5
<1>7. \A p, q \in Kept : given[p] = given[q] => p = q
  <2> SUFFICES ASSUME NEW p \in Kept, NEW q \in Kept, given[p] = given[q]
               PROVE  p = q
    OBVIOUS
  <2> HIDE DEF given
  <2>1. CASE p \in Bare /\ q \in Bare
    BY <1>3, <1>6, <2>1
  <2>2. CASE p \notin Bare /\ q \notin Bare
    <3>1. remotes[p].entity = remotes[q].entity /\ remotes[p].entity # None
      BY <1>5, <1>6, <2>2
    <3> QED  BY <1>4, <3>1 DEF LinkInv
  <2>3. CASE (p \in Bare) # (q \in Bare)
    BY <1>5, <1>6, <2>3
  <2> QED  BY <2>1, <2>2, <2>3
<1>8. (DOMAIN world \ Despawned) \cup Range(spawned) = {given[p] : p \in Kept}
  <2>1. ASSUME NEW e \in DOMAIN world \ Despawned PROVE \E p \in Kept : given[p] = e
    <3>1. PICK p \in DOMAIN remotes : remotes[p].entity = e /\ e # None
      BY <2>1 DEF LinkInv
    <3>2. p \in Kept /\ p \notin Bare
      BY <2>1, <3>1 DEF Despawned, Bare
    <3> QED  BY <1>6, <3>1, <3>2
  <2>2. \A e \in Range(spawned) : \E p \in Kept : given[p] = e
    BY <1>3, <1>4, <1>6
  <2>3. \A p \in Kept : given[p] \in (DOMAIN world \ Despawned) \cup Range(spawned)
    BY <1>3, <1>5, <1>6
  <2> HIDE DEF given
  <2> QED  BY <2>1, <2>2, <2>3
<1> HIDE DEF given
<1>9. DOMAIN world' = {given[p] : p \in Kept}
  BY <1>2, <1>8
<1>10. ASSUME NEW p \in Kept PROVE world'[given[p]] = remotes[p].pos
  <2>1. Owner(given[p]) = {p}
    BY <1>7
  <2>2. (CHOOSE q \in Owner(given[p]) : TRUE) = p
    BY <2>1
  <2>3. given[p] \in DOMAIN world'
    BY <1>9
  <2> QED  BY <1>2, <2>1, <2>2, <2>3
<1> QED  BY <1>2, <1>6, <1>7, <1>9, <1>10

LEMMA TypeRender == ASSUME TypeOK, LinkInv, RenderRemotePlayers PROVE TypeOK'
<1>1. PICK given \in [Kept -> Entities] :
        /\ remotes' = [p \in Kept |-> [remotes[p] EXCEPT !.entity = given[p]]]
        /\ DOMAIN world' = {given[p] : p \in Kept}
        /\ \A p \in Kept : world'[given[p]] = remotes[p].pos
        /\ told' = [p \in Players |-> IF p \in Kept THEN told[p] ELSE None]
  BY RenderGives
<1>2. Kept \subseteq DOMAIN remotes /\ \A p \in Kept : remotes[p] \in Entries
  BY DEF Kept, TypeOK
<1>3. DOMAIN remotes' \subseteq Players /\ \A p \in DOMAIN remotes' : remotes'[p] \in Entries
  <2>1. \A r \in Entries, e \in Entities : [r EXCEPT !.entity = e] \in Entries
    BY DEF Entries
  <2> QED  BY <1>1, <1>2, <2>1 DEF TypeOK
<1>4. DOMAIN world' \subseteq Entities /\ \A e \in DOMAIN world' : world'[e] \in Spots
  <2>1. \A p \in Kept : remotes[p].pos \in Spots
    BY <1>2 DEF Entries
  <2> QED  BY <1>1, <2>1
<1>5. told' \in [Players -> Spots \cup {None}]
  BY <1>1 DEF TypeOK
<1>6. stage' \in 1..3
  BY Stages DEF TypeOK, RenderRemotePlayers
<1>7. UNCHANGED <<online, air, waiting, handed, silence>>
  BY DEF RenderRemotePlayers, channel
<1> QED  BY <1>3, <1>4, <1>5, <1>6, <1>7 DEF TypeOK, Channel!TypeOK

LEMMA TypeStep == ASSUME TypeOK, LinkInv, [Next]_vars PROVE TypeOK'
<1>1. CASE UNCHANGED vars
  BY <1>1 DEF vars, TypeOK, Channel!TypeOK
<1> QED
  BY <1>1, TypeAir, TypeArrive, TypeTick, TypeReceive, TypeDrain, TypeRender DEF Next, Update

\* Nothing of a player or an entity changes, or their ages only.
LEMMA LinkSame ==
  ASSUME TypeOK, LinkInv, UNCHANGED <<world, told>>, DOMAIN remotes' = DOMAIN remotes,
         \A p \in DOMAIN remotes : /\ remotes'[p].pos = remotes[p].pos
                                   /\ remotes'[p].entity = remotes[p].entity,
         stage' # 3 => stage # 3
  PROVE  LinkInv'
BY DEF LinkInv

\* A drain leaves the entities where they are.
LEMMA LinkDrain == ASSUME TypeOK, LinkInv, DrainPositionEvents PROVE LinkInv'
<1>1. stage = 2 /\ stage' = 3
  BY Stages DEF TypeOK, DrainPositionEvents
<1>2. /\ remotes' = [p \in DOMAIN remotes \cup Speakers |->
                       IF p \in Speakers THEN Heard(p, LastOf(p)) ELSE remotes[p]]
      /\ told' = [p \in Players |-> IF p \in Speakers THEN LastOf(p) ELSE told[p]]
      /\ world' = world
  BY DEF DrainPositionEvents
<1>3. Speakers \subseteq Players /\ DOMAIN remotes \subseteq Players
  BY DEF Speakers, TypeOK
<1>4. \A p \in DOMAIN remotes' : remotes'[p].pos = told'[p]
  BY <1>2, <1>3 DEF Heard, LinkInv
<1>5. /\ DOMAIN remotes' = DOMAIN remotes \cup Speakers
      /\ \A p \in DOMAIN remotes : remotes'[p].entity = remotes[p].entity
      /\ \A p \in Speakers \ DOMAIN remotes : remotes'[p].entity = None
  BY <1>2 DEF Heard
<1>6. \A p, q \in DOMAIN remotes' :
        remotes'[p].entity = remotes'[q].entity /\ remotes'[p].entity # None => p = q
  BY <1>5 DEF LinkInv
<1>7. {remotes'[p].entity : p \in DOMAIN remotes'} \ {None}
        = {remotes[p].entity : p \in DOMAIN remotes} \ {None}
  BY <1>5
<1>8. DOMAIN world' = {remotes'[p].entity : p \in DOMAIN remotes'} \ {None}
  BY <1>2, <1>7 DEF LinkInv
<1> QED  BY <1>1, <1>4, <1>6, <1>8 DEF LinkInv

LEMMA LinkRender == ASSUME TypeOK, LinkInv, RenderRemotePlayers PROVE LinkInv'
<1>1. PICK given \in [Kept -> Entities] :
        /\ \A p, q \in Kept : given[p] = given[q] => p = q
        /\ remotes' = [p \in Kept |-> [remotes[p] EXCEPT !.entity = given[p]]]
        /\ DOMAIN world' = {given[p] : p \in Kept}
        /\ \A p \in Kept : world'[given[p]] = remotes[p].pos
        /\ told' = [p \in Players |-> IF p \in Kept THEN told[p] ELSE None]
  BY RenderGives
<1>2. \A p \in Kept : p \in DOMAIN remotes /\ p \in Players /\ remotes[p] \in Entries
  BY DEF Kept, TypeOK
<1>3. /\ DOMAIN remotes' = Kept
      /\ \A p \in Kept : /\ remotes'[p].entity = given[p]
                         /\ remotes'[p].pos = remotes[p].pos
                         /\ told'[p] = told[p] /\ remotes[p].pos = told[p]
  BY <1>1, <1>2 DEF Entries, LinkInv
<1>4. \A p \in Kept : given[p] # None
  BY NamesAssumption
<1>5. {remotes'[p].entity : p \in DOMAIN remotes'} = {given[p] : p \in Kept}
  BY <1>3
<1>6. DOMAIN world' = {remotes'[p].entity : p \in DOMAIN remotes'} \ {None}
  BY <1>1, <1>4, <1>5
<1>7. \A p \in DOMAIN remotes' : remotes'[p].pos = told'[p]
  BY <1>3
<1>8. \A p, q \in DOMAIN remotes' : remotes'[p].entity = remotes'[q].entity => p = q
  <2>1. \A p, q \in Kept : given[p] = given[q] => p = q
    BY <1>1
  <2> QED  BY <1>3, <2>1
<1>9. \A p \in DOMAIN remotes' : /\ remotes'[p].entity # None
                                 /\ world'[remotes'[p].entity] = told'[p]
  <2>1. \A p \in Kept : world'[given[p]] = remotes[p].pos
    BY <1>1
  <2> QED  BY <1>3, <1>4, <2>1
<1> QED  BY <1>6, <1>7, <1>8, <1>9 DEF LinkInv

LEMMA LinkStep == ASSUME TypeOK, LinkInv, [Next]_vars PROVE LinkInv'
<1>1. CASE \/ \E p \in Players : PublishSelfPosition(p) \/ Leave(p)
           \/ PublishOther
           \/ \E f \in Frames : Lose(f) \/ ArriveFrame(f)
           \/ UNCHANGED vars
  <2>1. UNCHANGED <<world, told, remotes, stage>>
    BY <1>1 DEF PublishSelfPosition, Leave, PublishOther, Lose, ArriveFrame, history, vars
  <2> QED  BY <2>1, LinkSame
<1>2. CASE Tick
  <2>1. DOMAIN remotes' = DOMAIN remotes /\ UNCHANGED <<world, told, stage>>
    BY <1>2 DEF Tick
  <2>2. \A p \in DOMAIN remotes : /\ remotes'[p].pos = remotes[p].pos
                                  /\ remotes'[p].entity = remotes[p].entity
    BY <1>2 DEF Tick, TypeOK, Entries
  <2> QED  BY <2>1, <2>2, LinkSame
<1>3. CASE ReceivePositions
  <2>1. stage = 1 /\ UNCHANGED <<world, told, remotes>>
    BY <1>3, Stages DEF TypeOK, ReceivePositions, history
  <2> QED  BY <2>1, LinkSame
<1> QED  BY <1>1, <1>2, <1>3, LinkDrain, LinkRender DEF Next, Update

LEMMA Linked == Spec => [](TypeOK /\ LinkInv)
<1>1. Init => TypeOK /\ LinkInv
  BY TypeInit DEF Init, LinkInv
<1>2. TypeOK /\ LinkInv /\ [Next]_vars => (TypeOK /\ LinkInv)'
  BY TypeStep, LinkStep
<1> QED  BY <1>1, <1>2, PTL DEF Spec

\* Every variable keeps to its type: there is always an entity to give out.
THEOREM TypeCorrect == Spec => []TypeOK
BY Linked, PTL

\* Between updates the entities in the world are those of the players held, one
\* for each, each where the last frame drained of its player said: no sequence
\* of arrivals, timeouts and returns leaks one or spawns one twice.
THEOREM WorldShown == Spec => []WorldShowsRemotes
<1>1. TypeOK /\ LinkInv => WorldShowsRemotes
  <2> SUFFICES ASSUME LinkInv, stage = 1
               PROVE  /\ DOMAIN world = {remotes[p].entity : p \in DOMAIN remotes}
                      /\ \A p, q \in DOMAIN remotes :
                           remotes[p].entity = remotes[q].entity => p = q
                      /\ \A p \in DOMAIN remotes : world[remotes[p].entity] = told[p]
    BY DEF WorldShowsRemotes
  <2> QED  BY DEF LinkInv
<1> QED  BY <1>1, Linked, PTL

-----------------------------------------------------------------------------
(* Who is removed.  A player's age is at most its silence, but for a frame  *)
(* of it that waits or has been handed over; none does when the stale ones  *)
(* are looked for.                                                          *)

Of(f, p) == Usable(f) /\ f.peer = p

HeardOf(p, queue) == \E i \in DOMAIN queue : Of(queue[i], p)

QueueInv ==
  /\ stage # 1 => waiting = <<>>
  /\ stage # 2 => handed = <<>>

FreshInv ==
  \A p \in DOMAIN remotes :
    \/ remotes[p].age <= silence[p]
    \/ HeardOf(p, waiting) \/ HeardOf(p, handed)

LEMMA QueueStep == ASSUME TypeOK, QueueInv, [Next]_vars PROVE QueueInv'
<1>1. CASE ReceivePositions
  BY <1>1, Stages DEF TypeOK, QueueInv, ReceivePositions, Channel!Take
<1>2. CASE DrainPositionEvents
  BY <1>2, Stages DEF TypeOK, QueueInv, DrainPositionEvents, Channel!Done
<1>3. CASE RenderRemotePlayers
  BY <1>3, Stages DEF TypeOK, QueueInv, RenderRemotePlayers, channel
<1>4. ASSUME NEW f \in Frames, ArriveFrame(f) PROVE QueueInv'
  BY <1>4 DEF QueueInv, ArriveFrame, Channel!Arrive
<1>5. CASE UNCHANGED <<waiting, handed, stage>>
  BY <1>5 DEF QueueInv
<1>6. \/ UNCHANGED <<waiting, handed, stage>> \/ Update
      \/ \E f \in Frames : ArriveFrame(f)
  BY DEF Next, vars, channel, PublishSelfPosition, Leave, PublishOther, Lose, Tick
<1> QED  BY <1>1, <1>2, <1>3, <1>4, <1>5, <1>6 DEF Update

LEMMA FreshArrive ==
  ASSUME TypeOK, FreshInv, NEW f \in Frames, ArriveFrame(f)
  PROVE  FreshInv'
<1> SUFFICES ASSUME NEW p \in DOMAIN remotes'
             PROVE  \/ remotes'[p].age <= silence'[p]
                    \/ HeardOf(p, waiting') \/ HeardOf(p, handed')
  BY DEF FreshInv
<1>1. waiting' = Append(waiting, f) /\ handed' = handed /\ remotes' = remotes
  BY DEF ArriveFrame, Channel!Arrive
<1>2. waiting \in Seq(Frames) /\ p \in Players
  BY <1>1 DEF TypeOK, Channel!TypeOK
<1>3. \A i \in DOMAIN waiting : i \in DOMAIN waiting' /\ waiting'[i] = waiting[i]
  BY <1>1, <1>2
<1>4. Len(waiting) + 1 \in DOMAIN waiting' /\ waiting'[Len(waiting) + 1] = f
  BY <1>1, <1>2
<1>5. CASE Of(f, p)
  BY <1>4, <1>5 DEF HeardOf
<1>6. CASE ~Of(f, p)
  <2>1. silence'[p] = silence[p]
    BY <1>2, <1>6, NamesAssumption DEF ArriveFrame, Of, Usable
  <2> QED  BY <1>1, <1>3, <2>1 DEF FreshInv, HeardOf
<1> QED  BY <1>5, <1>6

LEMMA FreshTick == ASSUME TypeOK, FreshInv, Tick PROVE FreshInv'
<1> SUFFICES ASSUME NEW p \in DOMAIN remotes'
             PROVE  \/ remotes'[p].age <= silence'[p]
                    \/ HeardOf(p, waiting') \/ HeardOf(p, handed')
  BY DEF FreshInv
<1>1. p \in DOMAIN remotes /\ p \in Players /\ UNCHANGED <<waiting, handed>>
  BY DEF Tick, TypeOK, channel
<1>2. remotes[p].age \in Ages /\ silence[p] \in Ages
  BY <1>1 DEF TypeOK, Entries
<1>3. remotes'[p].age = Older(remotes[p].age) /\ silence'[p] = Older(silence[p])
  BY <1>1 DEF Tick, TypeOK, Entries
<1> QED  BY <1>1, <1>2, <1>3, OlderAges DEF FreshInv

LEMMA FreshDrain == ASSUME TypeOK, QueueInv, FreshInv, DrainPositionEvents PROVE FreshInv'
<1> SUFFICES ASSUME NEW p \in DOMAIN remotes' PROVE remotes'[p].age <= silence'[p]
  BY DEF FreshInv
<1>1. stage = 2 /\ waiting = <<>>
  BY Stages DEF TypeOK, QueueInv, DrainPositionEvents
<1>2. p \in DOMAIN remotes \cup Speakers /\ p \in Players /\ silence' = silence
  BY DEF DrainPositionEvents, TypeOK, Speakers
<1>3. silence[p] \in Nat
  BY <1>2, OlderAges DEF TypeOK
<1>4. CASE p \in Speakers
  <2>1. remotes'[p].age = 0
    BY <1>2, <1>4 DEF DrainPositionEvents, Heard
  <2> QED  BY <1>2, <1>3, <2>1
<1>5. CASE p \notin Speakers
  <2>1. remotes'[p] = remotes[p] /\ p \in DOMAIN remotes
    BY <1>2, <1>5 DEF DrainPositionEvents
  <2>2. ~HeardOf(p, handed)
    BY <1>2, <1>5 DEF HeardOf, Of, Speakers, Said
  <2>3. ~HeardOf(p, waiting)
    BY <1>1 DEF HeardOf
  <2> QED  BY <1>2, <2>1, <2>2, <2>3 DEF FreshInv
<1> QED  BY <1>4, <1>5

LEMMA FreshStep ==
  ASSUME TypeOK, LinkInv, QueueInv, FreshInv, [Next]_vars
  PROVE  FreshInv'
<1>1. CASE ReceivePositions
  <2>1. stage = 1 /\ handed = <<>>
    BY <1>1, Stages DEF TypeOK, QueueInv, ReceivePositions
  <2>2. handed' = waiting /\ UNCHANGED <<remotes, silence>>
    BY <1>1 DEF ReceivePositions, Channel!Take, history
  <2> QED  BY <2>1, <2>2 DEF FreshInv, HeardOf
<1>2. CASE RenderRemotePlayers
  <2>1. PICK given \in [Kept -> Entities] :
          remotes' = [p \in Kept |-> [remotes[p] EXCEPT !.entity = given[p]]]
    BY <1>2, RenderGives
  <2>2. /\ DOMAIN remotes' \subseteq DOMAIN remotes
        /\ \A p \in DOMAIN remotes' : remotes'[p].age = remotes[p].age
    BY <2>1 DEF Kept, TypeOK, Entries
  <2>3. UNCHANGED <<waiting, handed, silence>>
    BY <1>2 DEF RenderRemotePlayers, channel
  <2> QED  BY <2>2, <2>3 DEF FreshInv
<1>3. CASE UNCHANGED <<waiting, handed, remotes, silence>>
  BY <1>3 DEF FreshInv
<1>4. \/ UNCHANGED <<waiting, handed, remotes, silence>> \/ Update \/ Tick
      \/ \E f \in Frames : ArriveFrame(f)
  BY DEF Next, vars, channel, history, PublishSelfPosition, Leave, PublishOther, Lose
<1> QED  BY <1>1, <1>2, <1>3, <1>4, FreshArrive, FreshTick, FreshDrain DEF Update

LEMMA SilentStep ==
  ASSUME TypeOK, LinkInv, QueueInv, FreshInv, [Next]_vars,
         NEW p \in DOMAIN remotes \ DOMAIN remotes'
  PROVE  silence[p] > Timeout
<1>1. RenderRemotePlayers
  BY DEF Next, Update, vars, history, PublishSelfPosition, Leave, PublishOther, Lose,
         ArriveFrame, Tick, ReceivePositions, DrainPositionEvents
<1>2. stage = 3 /\ waiting = <<>> /\ handed = <<>>
  BY <1>1, Stages DEF TypeOK, QueueInv, RenderRemotePlayers
<1>3. remotes[p].age <= silence[p]
  BY <1>2 DEF FreshInv, HeardOf
<1>4. remotes[p].age > Timeout
  <2>1. DOMAIN remotes' = Kept
    BY <1>1, RenderGives
  <2> QED  BY <2>1 DEF Kept, Stale
<1>5. remotes[p].age \in Nat /\ silence[p] \in Nat
  BY OlderAges DEF TypeOK, Entries
<1> QED  BY <1>3, <1>4, <1>5, TimeoutAssumption

\* A player is removed only if nothing of it has arrived for the timeout, also
\* after a time without updates: the chain drains the queue before anyone is
\* judged.
THEOREM SilentVanish == Spec => OnlyTheSilentVanish
<1>1. Init => QueueInv /\ FreshInv
  BY DEF Init, Channel!Init, QueueInv, FreshInv
<1>2. TypeOK /\ LinkInv /\ QueueInv /\ FreshInv /\ [Next]_vars => (QueueInv /\ FreshInv)'
  BY QueueStep, FreshStep
<1>3. TypeOK /\ LinkInv /\ QueueInv /\ FreshInv /\ [Next]_vars =>
        [\A p \in DOMAIN remotes \ DOMAIN remotes' : silence[p] > Timeout]_vars
  BY SilentStep
<1> QED  BY <1>1, <1>2, <1>3, Linked, PTL DEF Spec, OnlyTheSilentVanish

-----------------------------------------------------------------------------
(* This tab and laye-p2p: Presence keeps to the contract of a host *)

\* What the host does with its topic is what FrameChannel lets a host do: the
\* promise that P2pPump is shown to keep is the one Presence relies on.
ChannelUsed == Channel!Spec

LEMMA ChannelStep ==
  [Next]_vars => [Channel!Next]_<<waiting, handed>>
<1> SUFFICES ASSUME [Next]_vars PROVE Channel!Next \/ UNCHANGED <<waiting, handed>>
  OBVIOUS
<1>1. ASSUME NEW f \in Frames, ArriveFrame(f) PROVE Channel!Next
  BY <1>1 DEF ArriveFrame, Channel!Next
<1>2. CASE ReceivePositions \/ DrainPositionEvents
  BY <1>2 DEF ReceivePositions, DrainPositionEvents, Channel!Next
<1>3. CASE UNCHANGED <<waiting, handed>>
  BY <1>3
<1>4. \/ UNCHANGED <<waiting, handed>> \/ ReceivePositions \/ DrainPositionEvents
      \/ \E f \in Frames : ArriveFrame(f)
  BY DEF Next, Update, vars, channel, PublishSelfPosition, Leave, PublishOther, Lose, Tick,
         RenderRemotePlayers
<1> QED  BY <1>1, <1>2, <1>3, <1>4

\* The update of this tab is a host of FrameChannel.  With ChannelImplemented,
\* the pump's side of the same contract, the two modules fit.
THEOREM HostKeepsContract == Spec => ChannelUsed
<1>1. Init => Channel!Init
  BY DEF Init
<1> QED  BY <1>1, ChannelStep, PTL DEF Spec, ChannelUsed, Channel!Spec

-----------------------------------------------------------------------------
(* Who has gone stays gone *)

\* The tab of p is closed, it is not held here, and no frame of it is anywhere.
Departed(p) ==
  /\ p \notin online /\ p \notin DOMAIN remotes
  /\ \A f \in air : ~Of(f, p)
  /\ ~HeardOf(p, waiting) /\ ~HeardOf(p, handed)

\* Once the last late frame of a closed tab is through and its player removed,
\* nothing brings the player back: neither the frames of others nor a second
\* tab with this tab's key.  (drain_position_events, render_remote_players.)
\* What DepartedVanish adds is that the frames get through and the age runs out.
DepartedForGood == [][\A p \in Players : Departed(p) => Departed(p)']_vars

LEMMA DepartedStep ==
  ASSUME TypeOK, LinkInv, [Next]_vars, NEW p \in Players, Departed(p)
  PROVE  Departed(p)'
<1> USE DEF Departed
<1>1. CASE \/ \E q \in Players : PublishSelfPosition(q)
           \/ PublishOther \/ \E q \in Players : Leave(q)
           \/ \E f \in Frames : Lose(f)
  <2>1. UNCHANGED <<waiting, handed, remotes>>
    BY <1>1 DEF PublishSelfPosition, PublishOther, Leave, Lose, channel
  <2>2. online' \subseteq online
    BY <1>1 DEF PublishSelfPosition, PublishOther, Leave, Lose
  <2>3. \A f \in air' : ~Of(f, p)
    <3>1. ~Of(Own, p) /\ ~Of(Garbage, p)
      BY DEF Of, Usable, Own
    <3>2. ASSUME NEW q \in Players, PublishSelfPosition(q), NEW f \in air' PROVE ~Of(f, p)
      <4>1. q # p
        BY <3>2 DEF PublishSelfPosition
      <4>2. f \in air \/ f.peer = q
        BY <3>2 DEF PublishSelfPosition
      <4> QED  BY <4>1, <4>2 DEF Of
    <3>3. PublishOther => \A f \in air' : ~Of(f, p)
      BY <3>1 DEF PublishOther
    <3>4. ASSUME NEW q \in Players, Leave(q) PROVE air' = air
      BY <3>4 DEF Leave
    <3>5. ASSUME NEW f \in Frames, Lose(f) PROVE air' \subseteq air
      BY <3>5 DEF Lose
    <3> QED  BY <1>1, <3>2, <3>3, <3>4, <3>5
  <2> QED  BY <2>1, <2>2, <2>3 DEF HeardOf
<1>2. ASSUME NEW f \in Frames, ArriveFrame(f) PROVE Departed(p)'
  <2>1. /\ f \in air /\ air' \subseteq air /\ waiting' = Append(waiting, f)
        /\ UNCHANGED <<handed, online, remotes>>
    BY <1>2 DEF ArriveFrame, Channel!Arrive
  <2>2. waiting \in Seq(Frames)
    BY DEF TypeOK, Channel!TypeOK
  <2>3. \A i \in DOMAIN waiting' : waiting'[i] = f \/ (i \in DOMAIN waiting /\ waiting'[i] = waiting[i])
    BY <2>1, <2>2
  <2>4. ~HeardOf(p, waiting')
    BY <2>1, <2>3 DEF HeardOf
  <2> QED  BY <2>1, <2>4
<1>3. CASE Tick
  BY <1>3 DEF Tick, channel
<1>4. CASE ReceivePositions
  BY <1>4 DEF ReceivePositions, Channel!Take, HeardOf, history
<1>5. CASE DrainPositionEvents
  <2>1. p \notin Speakers
    BY DEF Speakers, Said, HeardOf, Of
  <2>2. DOMAIN remotes' = DOMAIN remotes \cup Speakers
    BY <1>5 DEF DrainPositionEvents
  <2>3. handed' = <<>> /\ UNCHANGED <<online, air, waiting>>
    BY <1>5 DEF DrainPositionEvents, Channel!Done
  <2>4. ~HeardOf(p, handed')
    BY <2>3 DEF HeardOf
  <2> QED  BY <2>1, <2>2, <2>3, <2>4
<1>6. CASE RenderRemotePlayers
  <2>1. DOMAIN remotes' \subseteq DOMAIN remotes
    BY <1>6, RenderGives DEF Kept
  <2>2. UNCHANGED <<online, air, waiting, handed>>
    BY <1>6 DEF RenderRemotePlayers, channel
  <2> QED  BY <2>1, <2>2
<1>7. CASE UNCHANGED vars
  BY <1>7 DEF vars
<1> QED  BY <1>1, <1>2, <1>3, <1>4, <1>5, <1>6, <1>7 DEF Next, Update

\* A player whose last frame is through and who was removed never reappears.
THEOREM GoneForGood == Spec => DepartedForGood
<1>1. TypeOK /\ LinkInv /\ [Next]_vars => [\A p \in Players : Departed(p) => Departed(p)']_vars
  BY DepartedStep
<1> QED  BY <1>1, Linked, PTL DEF Spec, DepartedForGood

=============================================================================
