# laye in TLA+

laye is a browser library (wasm) that puts several tabs into one libp2p
gossipsub mesh, and `relaye`, the relay those tabs dial.  The relay also serves a
WebSocket gateway for clients that do not speak libp2p, signs identity bindings
for logins (Mastodon, atproto) and shows a status page.  This directory holds
TLA+ modules that model the parts of the two programs in which the order of
events matters, TLC configurations that check them on small instances, and
TLAPS proofs for instances of any size.

`PROJECT.json` lists the components, the runs, the source lines each definition
stands for, the hazards found in the code and the theorems.

## 1. Inventory

| component | state | operations | talks to |
|---|---|---|---|
| gateway (`relaye/src/gateway.rs`) | topic registry of weak references behind one mutex; a bounded queue, a mutex and a `Notify` per client | accept, subscribe, broadcast with pruning in place, push with drop-oldest, `next`, collapse of a connection | main loop (command channel, broadcast), sockets |
| main loop (`relaye/src/main.rs`) | the swarm, the command receiver | gossipsub message, gateway command | gateway, gossipsub |
| relay process (`main.rs`, `RelayeStats` in `status_page.rs`) | the identity file; counters, two sample rings, the last total | start, load or mint the identity, count an event, metrics tick, end, restart | its supervisor (systemd), swarm, status page |
| HTTP front (`relaye/src/status_page.rs`) | the bytes read so far of one connection | peek and classify, read a request, route | gateway, login, libp2p loopback |
| atproto login (`relaye/src/oauth_atproto.rs`, `broker/atproto.js`, `wasm.rs`) | two TTL tables keyed by `state`; the popup's page and session storage; the tab's poll | start, callback, result; submit, redirect, finalize; poll, message | authorization server, tab, popup |
| Mastodon login (`sign_endpoint.rs`, `broker/mastodon.js`, `wasm.rs`) | the popup's page, history and sessionStorage; the apps, codes and tokens of the instances | page load, submit, register, exchange, look up the account, sign, post to the tab | instances, relay, tab |
| laye-net (`net/src/{lib,swarm}.rs`) | command channel, event buffer, swarm | publish, subscribe, poll_events, the drive loop | gossipsub, laye-p2p |
| message pump (`laye-p2p/src/wasm.rs`, `state.rs`) | `topic_peers`, `pending_sends`, receive queues | publish, subscribe, pending_bytes, recv_bytes, drain, flush | laye-net, host |
| chat (`laye-p2p/src/chat.rs`) | a bounded history, a binding table | send, ingest | pump, overlay |
| tab identity (`wasm.rs`, `store.rs`, `identity.rs`) | IndexedDB: a key and a list of bindings; their copies in the tab | init, login, persist | database shared by tabs |
| error pipeline (`laye-p2p/src/error.rs`, `wasm.rs`) | a bounded buffer, an id counter, the blocks in the overlay | emit, drain, render, coalesce, dismiss | every failing call |
| remote players (`bevy-starter/src/scene.rs`) | a map of peers with position, clock and entity; the entities in the world | publish, receive, drain, render | pump, bevy |

What makes these hard:

- **gateway**: tokio tasks on several threads share the registry and the sinks;
  a broadcast holds the registry mutex and takes each sink's mutex in turn while
  pumps pop; the wait of an empty pump is registered after the sink's mutex was
  released; connections vanish between any two steps.
- **pump**: the tab's idea of the mesh is as old as the host's last poll;
  sends go either straight to the swarm or into an outbox, depending on that
  idea; a drain reads a whole batch before it flushes.
- **identity**: `init` awaits between reading, minting and writing; other tabs
  run meanwhile on the same database; a tab may be closed at any await.
- **login**: one result reaches a tab over two channels; the popup may lose
  its opener; a callback may be requested twice; retyped handles make several
  flows of one `state`; two caches expire while a poll is counting rounds.
- **Mastodon login**: the page is loaded several times in one login and remembers
  only its URL and its sessionStorage; the form stays live while a registration
  is awaited; every request of the callback may fail after the code was spent; the
  window is the user's, to reload, go back in, navigate from the tab or close.
- **relay process**: what the swarm reports is counted later; ticks missed while the
  loop was busy come in a burst; only the identity file outlives an end, and it is
  written in place.
- **remote players**: frames are lost and reordered; a hidden tab has no update for
  any time while its queue fills and its clock runs; entities must follow the map.
- **errors**: the buffer is bounded, the overlay exists only from some point of
  `init`, and errors are coalesced into blocks the user may have dismissed.

What correctness means, component by component, is the list of properties in
section 3; the hazards they answer are in `PROJECT.json`.

## 2. Modules

### Gateway, TopicFeed, GatewayProofs

`Gateway` has an action for every step a thread takes between two points where
another thread can run.  `fan` is the broadcast that holds the registry mutex:
`BroadcastFrom` takes it, `FanLive` and `FanDead` visit one weak reference each,
`FanDone` stores the pruned list and releases it.  `Pop`, `FindEmpty` and `Park`
are the three ways through `BroadcastSink::next`; `Park` comes after the mutex is
released, so a push may fall between `FindEmpty` and `Park`.  A `Notify` is one
stored permit.  A connection runs its two pumps on one task (`select!`), so the
write pump does not move while the read pump is in a broadcast (`Reading`).
A client that reconnects is another connection.  The main loop's two arms are
`MeshMessage` and `SwarmPublish`; gossipsub may refuse any publish.

`TopicFeed` says what the gateway promises without sinks, locks or wakeups: each
topic is a log, each client has a window of at most `Cap` frames that only moves
forward, and takes frames from its lower end.  `Gateway` implements it with
`hi` computed from the log and the broadcast under way, and `lo` from `hi` and the
length of the queue.  That is the property `ImplementsFeed`.

### P2pPump, P2pPumpProofs

The tab is one thread.  `call` is the polling host call under way, and every
other action waits for it; its steps take one event (`Drain...`) or flush one
topic (`FlushTopic`) each.  `Send` is `publish_inner`: it asks `topicPeers`.  The
drive task is `SwarmPublish`, `SwarmSubscribe` (commands first, as `select_biased!`
has it) and the swarm's events; gossipsub accepts a publish iff a peer is
subscribed.  Host frames are numbered per topic.  Signatures and encodings are a
choice: a message is this peer's, another's, or does not verify.

### TabIdentity, TabProofs

One action per database request of `init_inner` and `handle_login_message`, and
`Close`, which may come between any two.  Keys and bindings are numbered as they
are made.  The database may hold a key from an earlier visit.  Two history
variables record what the tabs did beside each other: `clash` when two were between
minting and writing at once, `crowded` when two were open at once.

### AtprotoLogin, AtprotoLoginProofs

Popup, relay and tab in one module, because the properties are about the three.
`page` is what the popup shows; `flows` and `results` are the two tables of
`FlowCache` with the age of each entry; `poll` is the tab's polling task.  `Tick`
is one poll interval: entries age and sleeping polls become due.  A fetch may
take any time, so any number of ticks may pass between `PollFetch` and
`PollReply`.  The authorization server and the user are actions of the
environment: they approve with any account, refuse, go back, reload, close.  The
token endpoint redeems a code once and only with the flow it was issued to.
`handle_callback` is three actions: `Callback` up to the await of the token endpoint,
`Challenge` for the retry after a DPoP nonce challenge, `Exchange` for the rest.
`RelayRestarts` empties both tables and cuts off every request under way; the page,
the authorization server and the tab go on with what they have.

### MastodonLogin, MastodonLoginProofs

The same three parties for the other provider, whose relay keeps nothing.  `LoadForm`,
`LoadCode`, `LoadRefused` and `LoadAuthorize` are the loads of a page, and every way
the window comes to a URL (a click in the tab, a redirect, the user's reload or
back, a form submitted without a handler) ends in one of them; leaving a page
stops its scripts.  `run` is the `handleCallback` under way, at one of its three
awaits.  A client, a code and an account are numbers or values; an instance redeems
a code once and only for the client it was issued to.

### RelayProcess, RelayProcessProofs

`proc` says how far a start has come; `CreateFile` and `WriteFile` are the two halves of
`fs::write`.  `Report` is the swarm queueing an event, `HandleEvent` the main loop
counting it, `IntervalEnds` and `MetricsTick` the same for the clock.  `End` is any
end of the process, a failing start included, and the next `Start` is the supervisor's.

### FrameChannel, Presence, PresenceProofs

`FrameChannel` is a polled topic as its host sees it: frames arrive, `Take` hands over
all that wait.  `P2pPump` implements it for every host topic (`ImplementsChannel`), and
`Presence` is a host that uses it: its arrivals and its `receive` step are actions of
an instance of `FrameChannel`.  `Presence` looks at one tab; the others publish, leave
and are late.  An update is three chained systems, and the clock may move between
them.  Times are ages, up to one beyond the timeout.  `Said(p)` is where the frames of
player `p` are among those handed over; the drain keeps what the last of them says.

### ErrorPipe, TabProofs

An error is its coalescing key; ids are numbers.  `call` is what the page's thread is
doing.  `Fail` emits the next error of a burst of at most `MaxBurst`, `Render` drains the
buffer, and `RenderOne` is one round of the loop over what was drained; until that
loop ends nothing else runs.  Two places emit without rendering (`FailQuietly`).
`InstallOverlay` is the point of `init` where the overlay exists, `Dismiss` the click.
The specification is `ErrorSpec`, so that `TabProofs` can extend the module together with
`TabIdentity`.

### HttpFront, HttpFrontProofs

One connection to the public port.  A request is its target and the positions at
which its line, its upgrade header, its head and its body end; the client sends it
in segments cut anywhere, may stop half-way, finish its side or drop the connection.
`Peek` is the one look at what has arrived, `Classified` the four ways from it,
`Read` a round of `read_full_request` with `After` for what it decides, `Respond`
the routing.  An outcome `gateway` is where `Gateway` begins (`Accept`); `start`,
`callback` and `result` are the requests of `AtprotoLogin`.

### Faults

A definition whose comment begins "A fault" is not used by any action.  It is a
form the neighbouring definition would take with a plausible slip; putting it in
that definition's place makes the property named in `PROJECT.json` fail, which
shows that the run looks at the case.

## 3. Runs

| run | instance | what it shows |
|---|---|---|
| `gateway_all` | 2 clients of a topic, sinks of 2; one client sends 2 frames, the mesh 1 on either of 2 topics; fair | every live sink holds the newest frames of its topic (`QueueIsNewest`), pruning in place neither loses nor doubles a live sink (`LiveRegisteredOnce`), a client's frames keep their order to the mesh (`ClientOrderKept`), the gateway implements `TopicFeed` (`ImplementsFeed`), no pump sleeps on a frame (`NoLostWakeup`), queued frames are picked up (`QueueServed`), what was fanned out locally is offered to the mesh (`OfferedToMesh`) |
| `pump_out` | 2 peers; 3 host frames and a chat line; outboxes of 2; fair | no frame overtakes a queued one and the outbox keeps the newest (`OutboxSound`, `SentOrderKept`), only overflow loses a frame without a report (`LostOnlyByOverflow`), the view of the mesh catches up (`ViewCatchesUp`), the outbox is flushed (`OutboxFlushed`) |
| `pump_in` | arrivals on two host topics subscribed late, on chat and identity | each host topic is a `FrameChannel`: its frames reach the host once and in order whichever topic's call drains them (`ImplementsChannel`); the chat's cap |
| `identity_all` | 2 tabs, with and without a stored key, 3 logins | a tab runs under the stored key with its own logins (`KeyInUseIsStored`, `BindingsAreOwn`), what it shows is what it stores (`QuietMeansPersisted`), and what can lose a key or a login (`KeyLostOnlyByClash`, `LoginsLostOnlyByCrowd`) |
| `login_all` | 1 click, 2 flows, 2 accounts, 2 callback requests, a restart of the relay, a TTL of 2 rounds; fair | what is signed is what was typed and granted (`SignedAsGranted`), a flow goes to the token endpoint with one callback only (`ExchangedOnce`), a result lives for its TTL or until the relay restarts (`NeverRefused`), and reaches the tab without an opener (`LoginSurvivesCoop`) |
| `mastodon_all` | 2 instances, 2 accounts, 2 clicks, 2 registrations, 2 approvals, 4 entries of history; fair | a code is presented where it was issued unless the user goes back (`CodeAtHome`), a failure on the way costs a retry neither state nor key (`UnsignedOnlyAfterEnd`), an approved login is bound or its error shown (`ApprovedIsBound`) |
| `errors_all` | 2 coalescing keys, a buffer of 2, 6 errors in bursts of 3 | every error is accounted for and the newest survive (`EveryErrorAccounted`), a dismissed error that recurs is shown (`RecurringResurfaces`) |
| `front_all` | every target; lines, headers and heads within and beyond a peek buffer of 4; bodies of up to 4, shorter and longer than declared; reads of 2, a limit of 6; fair | an upgrade is taken for HTTP only if it came too late for the peek (`UpgradeHandedOver`), the router gets whole requests and none that fits is refused (`RoutedWhole`), what has arrived is answered and a finished client's connection ends (`ArrivedIsAnswered`) |
| `presence_all` | 2 other players, a second tab with this tab's key, undecodable frames; 1 frame on its way, 2 waiting; fair | entities and players held correspond one to one, drawn where last heard (`WorldShowsRemotes`), only a player silent for the timeout is removed, also after a time without updates (`OnlyTheSilentVanish`), one whose tab closed goes for good (`DepartedVanish`) |
| `relay_all` | every identity source, with and without a file; 2 ends of the process, 2 connections, 3 messages, 4 ticks, rings of 2; fair | a configured identity survives every end that leaves a relay able to start (`IdentityKept`), the counters are the connections and the rings the last ticks of this process, in bursts too (`StatsTrue`), the relay comes up again unless part of a key is in the file (`ComesBack`) |

Two runs expect a violation.  Each checks one statement of a comment that the code
does not keep, and the finding of that name in `PROJECT.json` quotes it:

| run | statement | what TLC shows |
|---|---|---|
| `pump_flush` | bytes are queued until the mesh forms | a peer that joins and leaves within one drain empties the outbox into a refused publish |
| `identity_mint` | a stored key is the one a reload finds | two tabs on an empty database mint two keys, the second write wins |

More was met while modelling and has no run of its own, because the code and what is
written about it differ at a glance, or because nothing is written about it:

- `topic_peers` "publish will succeed" (wasm.rs:109): the set is as old as the last
  drain.  `ViewCatchesUp` states what does hold, and `LostOnlyByOverflow` that such a
  failure is not silent.
- The first subscriber of a topic makes the relay join it (docs/gateway.md:37-39): the
  gateway never subscribes (gateway.rs:34), so a client of a topic the relay does not
  have hears local clients only.
- Two clients' frames may reach gossipsub in another order than their local
  subscribers saw: broadcast and command are two steps (gateway.rs:52).
- The poll of an atproto login ends after 150 rounds, which may be half of the 600 s
  the relay keeps its result (wasm.rs:1447).
- "One-shot: reading drains the entry" (oauth_atproto.rs:477) is contradicted by
  `get_result` and its own comment; `NeverRefused` depends on the read that leaves it.
- The message from the popup and the poll both end in `handle_login_message`, which
  does not compare: the late answer to an earlier login's poll puts its account back
  over a later login.
- The logins of a tab are stored as a whole (wasm.rs:1572), so two tabs that log in
  side by side overwrite each other's.  `LoginsLostOnlyByCrowd` states the condition.
- An error rendered before the overlay exists is lost (error.rs:7-10, wasm.rs:1181);
  `EveryErrorAccounted` counts these apart (`early`).
- A refusal at a Mastodon instance clears the tab's key with the rest of the state
  (mastodon.js:27), so what the user then does in that window ends in a login the tab
  can only report as empty; `UnsignedOnlyAfterEnd` states that nothing else does that.
  After an error the page's form has no handler, and submitting it reloads the page.
- What a hidden tab finds queued revives a player that has left for another timeout,
  and `at_ms` is never compared, so a frame that overtook a newer one sets its player
  back until the next; `DepartedVanish` and `WorldShowsRemotes` state what holds.
- The status page's "connected peers" counts connections (main.rs:311).  The error of
  a public port that cannot be bound is dropped with its task (main.rs:150).  A metrics
  interval of 0 ends the process at once.  An identity file of which a crash has left
  a part stops every later start (main.rs:227), the exception in `ComesBack`.

### Bounds

Every bound is a CONSTANT whose comment says so; it is a guard of the action that
would count past it:

| module | bounds |
|---|---|
| `Gateway` | `Budget`: frames each source sends |
| `P2pPump` | `MaxSent`, `MaxArrived`, `MaxChanges`: frames out and in, joins and leaves, per topic |
| `TabIdentity` | `MaxKeys`, `MaxLogins` |
| `AtprotoLogin` | `MaxLogins`, `MaxFlows`, `MaxTries`, `MaxRestarts` |
| `MastodonLogin` | `MaxOpens`, `MaxClients`, `MaxGrants`, `MaxPast`: clicks, apps, approvals, history entries |
| `ErrorPipe` | `MaxErrors`, `MaxBurst` |
| `Presence` | `MaxAir`, `MaxWaiting`: frames on their way, frames between two updates |
| `RelayProcess` | `MaxMishaps`, `MaxPending`, `MaxConns`, `MaxMessages`, `MaxSamples`: ends, events or ticks waiting, connections, messages and ticks of a process |

They are chosen so that the case each property is about does happen: sinks, outboxes,
rings and buffers of one or two overflow, a mesh forms, goes and forms again with
another peer, two broadcasts contend for one registry, a dead reference is met by the
broadcast after the one its connection died in, two flows share a state, a result
reaches its TTL, a second registration answers after the first, a player goes stale
and comes back, a relay ends within its first start and again after it.  With one
frame in the air none overtakes another, but every order of arrival is there without:
a player publishes from any spot, and its frames carry no number the code compares.
The faults show it:
each run finds the fault planted for each of its properties.  The relation between
`Rounds` and `FlowTtl` is that of the code (150 rounds of at least 2 s against 600 s,
so half).

`CHECK_DEADLOCK FALSE` stands in every cfg because the bounds end every behaviour; the
program itself has no final state.  That nothing waits for ever on something that is there is checked
by the liveness properties instead.

### Fairness

- `Gateway`: tokio runs runnable tasks, and `select!` picks its ready arms at
  random, so the command arm of the main loop is served.  A socket may block for
  ever (no fairness on `Sent`), clients and mesh may stay silent.
- `P2pPump`: the browser runs the drive task when it has a command, and a host
  call that has begun returns; the host polls, as bevy-starter does every frame.
  Nothing is assumed of peers.
- `HttpFront`: tokio polls a task whose socket is ready.  Nothing is assumed of the
  client, and there is no read timeout: half a request keeps its task for as long as
  its client stays.
- `AtprotoLogin`: timers fire, a fetch ends one way or the other, events are
  dispatched.  The user and the authorization server owe nothing.
- `MastodonLogin`: a request of the callback ends one way or the other (`Callback`) and
  a posted message is dispatched (`HandleLoginMessage`).  The user owes nothing.
- `Presence`: time passes, the tab is looked at again and again (no bound on how
  seldom), and a frame on its way arrives or is lost.  Other tabs owe nothing.
- `RelayProcess`: the supervisor starts the relay whenever it has ended
  (`Restart=always` in infra/userdata/relaye.sh), and a start goes on.  Nothing is
  assumed of the swarm, the clock or the ends.

## 4. Proofs

What the runs show for small instances the theorems state for every value of the
constants.  Each rests on an inductive invariant that holds initially, is kept by every
step (a case for each action) and implies the property.

`GatewayProofs`, for every set of connections and topics, every sink capacity and
every amount of traffic:

- `TypeCorrect` (`Spec => []TypeOK`), which includes that no sink exceeds its cap.
  `TypeOK` alone is not inductive: `SendCmd` sends the last frame its connection
  made, so the invariant adds that a connection in the middle of its read turn
  has made one (`FrameInHand`).
- `NoWakeupLost` (`Spec => []NoLostWakeup`).  The inductive form `WakeupInv` is about
  the permit: a pump that waits has an empty queue and no permit, and one that has
  seen an empty queue and not yet registered its wait has a permit if anything was
  pushed since.
- `OrderKept` (`Spec => []ClientOrderKept`).  The argument needs the whole path of a
  frame: what was published, what is in the channel and what a connection still
  owes are, for each client, strictly increasing in this order and bounded by the
  number of frames it has made (`OrderInv`).
- `RegisteredOnce` (`Spec => []LiveRegisteredOnce`).  `RegisteredInv` is about the list
  of a topic as it is in the middle of a broadcast, the part kept so far followed by
  the part still to visit: it names no connection twice, only such as were accepted
  for the topic, and every live one.
- `NewestKept` (`Spec => []QueueIsNewest`).  `NewestInv` adds that the frame of a
  broadcast under way is the last of its topic's log and that a sink nobody holds is
  empty; `EndsAt` says of a queue at which position of the log it ends, one short of
  the end for those the broadcast has yet to visit.
- `FeedImplemented` (`Spec => ImplementsFeed`), the refinement of `TopicFeed`.  The
  pruning, waiting, sending and unlocking steps stutter; a broadcast that begins is `Fan`,
  each of its visits to a live sink `Arrive`, and `Accept`, `Pop` and the end of a
  connection are `Join`, `Take` and `Leave`.  It uses
  both invariants above: without the first a client's window could move twice in one
  broadcast, without the second what is popped need not be what the window begins with.
- `OneOrderForAll` (`Spec => []TakenInLogOrder`): what each client was handed is a
  subsequence of its topic's log, so no two clients see two frames in different
  orders.  It follows from the refinement: `TakenInv` says of a live client that what
  it took lies behind the lower end of its window.
- `NoFrameLost` (`Spec => []OnItsWay`): every frame a connection has made is in its
  read pump's hands, in the channel, published or refused.  It needs that a
  connection is in one turn at a time (`OneTurn`, part of `OrderInv`).

`HttpFrontProofs`, for requests and buffers of any length:

- `TypeCorrect`, whose point is the request buffer: never more than one read above
  the limit.
- `WholeRouted` (`Spec => []RoutedWhole`) and `HandedOver` (`Spec =>
  []UpgradeHandedOver`).  The inductive invariant adds what each stage says
  (`StageInv`): nothing is read before the peek, reading goes on only within the limit,
  and whoever is on the HTTP path did not look like an upgrade when it was peeked at.
- `WaitsForMissing` (`Spec => []OnlyMissingAwaited`): while the relay reads on, the
  buffer does not hold the whole request and has room, so no byte is waited for that
  need not come.

`P2pPumpProofs`, for any sets of topics and peers, any caps and any amount of
traffic:

- `TypeCorrect`.  The sequences of `TypeOK` are too wide to drain from: the invariant
  `TypeInv` says which events name a topic and a peer (`Shaped`), so that taking the
  head of the batch stays within the functions it updates.
- `OutboxKept` (`Spec => []OutboxSound`).  The addition is `IdleInv`: between two host
  calls nothing is left to drain and nothing is left to flush.
- `OrderKept` (`Spec => []SentOrderKept`).  For each topic, what gossipsub has taken
  or refused, then what is in the channel, then what the outbox holds are strictly
  increasing (`Ordered`); `Floor(t)`, the frames of `t` that have left the outbox,
  separates the last two.  A flush passes the floor over the whole outbox at once, and
  an overflow passes it over the frame that drops out.
- `NothingLost` (`Spec => []LostOnlyByOverflow`).  Beyond `OrderInv` every frame up to the
  floor is settled (`Settled`), and what settles it stays so: a command moves towards
  the head of the channel, a reported refusal from the buffer to the batch to the
  error pipeline (`ReportStays`), and an overflowed frame was never refused because
  refused frames lie below the floor it passed.
- `ViewRight` (`Spec => []ViewCatchesUp`).  For each topic and peer, the last event not
  yet looked at that concerns them tells what gossipsub knows, or there is none and
  the view is right already (`Tracks`, about `batch \o events`).
- `ChannelImplemented` (`Spec => ImplementsChannel`), the refinement of `FrameChannel`
  by every host topic.  What waits on a topic is its queue followed by its messages
  among `batch \o events`; looking at an event moves one from the second part to the
  first, and a drain that starts moves the border inside the second.  `DrainInv` adds
  that no event is queued while a host call runs, so that `recv_bytes` hands over all.
  The k-th message is defined by counting (`Rank`), and `MessagesAppend` and
  `MessagesTail` say what a selection does when its sequence grows or shrinks.

`RelayProcessProofs`, for any number of starts, crashes, ends, connections and ticks:

- `OneIdentity` (`Spec => []IdentityKept`).  `KeyInv` tells the three key sources apart:
  bytes from the environment never change, a file holds the first identity from the
  first time the relay came up, and a start that found the file torn never comes up.
- `StatsKept` (`Spec => []StatsTrue`).  `BacklogInv` is about every prefix of the events
  that wait: handling it closes no connection that was not counted, so the counter
  never falls below zero on the way, and handling all of it leaves the open
  connections.  `SampleInv` relates each entry of a ring to the tick it came from.
- `TornForGood` (`Spec => TornStaysDown`): a relay down with part of an identity in its
  file stays down, and no start of it replaces the file.  `TornInv`: only a file that
  was configured is ever torn.

`TabProofs` on `TabIdentity`, for any number of tabs, providers, keys and logins:

- `TypeCorrect`, `KeyStored` (`Spec => []KeyInUseIsStored`) and `KeyNotLost` (`Spec =>
  KeyLostOnlyByClash`).  `KeyInv`: until two tabs mint at once, a tab that has minted and
  not written is the only one and nothing is stored yet, and every tab past that point
  holds the stored key.
- `OwnBindings` (`Spec => []BindingsAreOwn`).  `OwnInv` extends it to every binding
  anywhere, the snapshots on their way to the database included.
- `QuietPersisted` (`Spec => []QuietMeansPersisted`) and `LoginsNotLost` (`Spec =>
  LoginsLostOnlyByCrowd`), about tabs that come one at a time.  The writes of a tab may
  overlap its later logins: `Ordered` says that what is stored, each snapshot still to
  be written and what the tab shows cover each other provider by provider with
  logins no older (`Covered`), and `NumbersInv` that a new login is newer than all.

`TabProofs` on `ErrorPipe`, for any keys, any capacity and any number
of errors in bursts of any length:

- `PipeTyped`, whose point is that the buffer never exceeds its capacity,
  `ErrorsAccounted` (`[]EveryErrorAccounted`) and `DismissedComesBack`
  (`RecurringResurfaces`).  The inductive invariant `PipeInv` is the accounting itself,
  the types and `ThreadInv`: the loop runs exactly while it has errors before it, so a
  drain never overwrites what an earlier one left.  Every step moves errors of one key
  between their five places, and `CountAppend` and `CountTail` say by how
  much the two sequences among these change.

`AtprotoLoginProofs`, for any number of clicks, flows, accounts, callback requests and
restarts and any TTL:

- `TypeCorrect`.  `PopupInv` relates a popup's page to the flow it shows and to who
  approved it; `PollInv` says that a poll that is on has a round to go.
- `OwnAccount` (`Spec => []SignedAsGranted`).  `GrantInv`: the account a callback carries
  is the one that granted its flow, before and during the exchange; with the
  comparison in `handle_callback` the rest of the way, table, poll, message and tab,
  only has to copy (`BindingInv`).
- `OneExchange` (`Spec => []ExchangedOnce`).  `OnceInv`: a flow is in one place, the start
  under way, the table under one login, or out of it for good.
- `ResultsStay` (`Spec => []NeverRefused`).  `AgeInv`: while a login's first result is
  within its TTL the table has one for it that is no older, whatever sweeps, reads and
  second signings have done.
- `SignedBrought` (`Spec => SignedIsBrought`): once a login is signed the next round of
  its poll brings the result, is lost or comes too late, and a result that was
  brought is handled as that login's.  Besides `AgeInv` it needs that the entry and the
  answer of a login are its own (`OwnInv`).

`MastodonLoginProofs`, for any instances, accounts, windows and histories:

- `TypeCorrect` (`Spec => []TypeOK`).  What a page may show depends on the address and on
  the session, so the invariant has both (`PageInv`, `SessionInv`).
- `CodesComeHome` (`Spec => []CodeAtHome`).  `HomeInv`: until the user goes back, the
  address shown belongs to the session's client, on the instance's page as on the
  page its code came back to.  It fails with the first step back, hence the
  condition in the property.
- `KeyUntilEnd` (`Spec => UnsignedOnlyAfterEnd`).  While the tab is still the window's opener
  its session has the key unless a login has ended in it (`KeyInv`).
- `OnlyApprovedBound` (`Spec => []BoundWasApproved`): the tab binds, and is told of, only
  accounts whose approval was redeemed.  `RunInv`: from the exchange on a run's code
  is spent and its account is that of the code's grant.

`PresenceProofs`, for any players, spots and number of frames:

- `TypeCorrect`, which includes that there is always an entity to give out: `EntitiesLeft`
  counts them, and `InjectionExists` gives each player without one its own.
- `WorldShown` (`Spec => []WorldShowsRemotes`).  `LinkInv`: no entity is two players', and
  the entities in the world are those of the players held.
- `SilentVanish` (`Spec => OnlyTheSilentVanish`).  `FreshInv`: a player is no older than it
  has been silent, unless a frame of it waits or has been handed over; `QueueInv` says
  that none does when the render looks for the stale.
- `HostKeepsContract` (`Spec => ChannelUsed`): an update takes from its topic as
  `FrameChannel` has it, so what `ChannelImplemented` promises is what `Presence` uses.
- `GoneForGood` (`Spec => DepartedForGood`): a player whose tab is closed, of whom no
  frame is left and who was removed never reappears.

The assumptions are those named in the modules; TLC evaluates them in every run.  They
are bounds and caps that are numbers, caps, timeouts and lengths that are not zero,
constants that are told apart, an entity more than players (`EntitiesAssumption`: bevy
never runs out), and, in `AtprotoLogin`, `MastodonLogin` and `ErrorPipe`, that what
stands for nothing is no record (`NoEntryAssumption`, `NoRunAssumption`, `NoBlockAssumption`).

Only model-checked is liveness, which needs ENABLED or fairness, both out of the
prover's reach: `QueueServed`, `OfferedToMesh`, `OutboxFlushed`, `LoginSurvivesCoop`,
`ArrivedIsAnswered`, `DepartedVanish`, `ApprovedIsBound`, `ComesBack`.  Of most the safety half
is proved, which says that nothing on the way is lost or undone and leaves to
fairness only that the way is gone:

| liveness (TLC) | its safety half (TLAPS) |
|---|---|
| `QueueServed` | `NoWakeupLost`, `NewestKept`, `OneOrderForAll` |
| `OfferedToMesh` | `NoFrameLost`, `OrderKept` |
| `OutboxFlushed` | `NothingLost` |
| `LoginSurvivesCoop` | `ResultsStay`, `SignedBrought` |
| `ArrivedIsAnswered` | `WaitsForMissing` |
| `DepartedVanish` | `GoneForGood` |
| `ApprovedIsBound` | `OnlyApprovedBound` |
| `ComesBack` | `TornForGood`, its exception |

These halves are stated in the modules of proofs and no run has them as a property.

## 5. Not modelled

- Handle resolution, DPoP and JWT construction, claims and signatures are sequential
  or pure; the models use their outcome, success or failure.
- The relay's client key is read or made at a start and never written; `RelayProcess`
  has its failure as one of the ends of a start.
- Shared types, input capture, drawer, observability, deployment: no behaviour in
  which order matters.
- Within modelled parts: the rendering of overlays; a login page opened by hand
  (the relay mints the `state`); a reload of the tab during a login (it ends the
  poll; `TabIdentity` has the reload); `unsubscribe`, which nothing calls; the instance
  history that the Mastodon form offers; the scene, the camera and this tab's own
  movement in bevy-starter; the listening sockets of the relay.

## 6. Plan

Done, in this order: `TopicFeed`, `Gateway`, `GatewayProofs`, `P2pPump`,
`TabIdentity`, `AtprotoLogin`, `ErrorPipe`, `HttpFront`, `HttpFrontProofs`,
`FrameChannel` with its refinement by `P2pPump`, `Presence`, `MastodonLogin`,
`RelayProcess`, restarts of the relay in `AtprotoLogin`, `RelayProcessProofs`,
`P2pPumpProofs`, the refinement of `TopicFeed`, `TabProofs`, `AtprotoLoginProofs`,
`MastodonLoginProofs`, `PresenceProofs`, the refinement of `FrameChannel`,
`ErrorPipe` step by step with its proofs, the safety halves of the liveness properties.

Every component in which the order of events matters has its module, and every
safety property of a passing run its theorem.  What is left is liveness under
fairness, which stays with TLC, and the parts named in section 5.
