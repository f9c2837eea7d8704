---------------------------- MODULE AtprotoLogin ----------------------------
(***************************************************************************)
(* The atproto login: a host tab opens the broker page in a popup and      *)
(* polls the relay; the popup sends the user through the authorization     *)
(* server; the relay keeps the flow, exchanges the code, signs the binding *)
(* and keeps it for whoever asks (crates/relaye/src/oauth_atproto.rs,      *)
(* broker/atproto.js, crates/laye-p2p/src/wasm.rs).                        *)
(*                                                                         *)
(* The n-th click on the login button has n as its `state`, and the n-th   *)
(* start request makes flow n: a PKCE verifier and DPoP key of its own.    *)
(* Time is counted in rounds of the tab's poll: a Tick lets every sleeping *)
(* poll wake once and every cache entry grow older by one.                 *)
(***************************************************************************)
EXTENDS Integers, Sequences, FiniteSets

CONSTANTS
  Accounts,    \* DIDs
  None,
  FlowTtl,     \* FLOW_TTL (600 s), in poll rounds
  Rounds,      \* rounds poll_atproto_result makes (150 of 2 s and more)
  MaxLogins,   \* bound: clicks on the login button
  MaxFlows,    \* bound: start requests
  MaxTries,    \* bound: times one callback URL is requested
  MaxRestarts  \* bound: restarts of the relay

ASSUME TtlAssumption == FlowTtl \in Nat \ {0} /\ Rounds \in Nat \ {0}
ASSUME BoundsAssumption == MaxLogins \in Nat /\ {MaxFlows, MaxTries, MaxRestarts} \subseteq Nat
ASSUME NoneAssumption == None \notin Accounts \cup Nat

Logins == 1..MaxLogins
FlowIds == 1..MaxFlows

VARIABLES
  \* the popups
  opened,      \* clicks so far
  page,        \* login -> what its popup shows
  severed,     \* login -> COOP has cut window.opener
  flowOf,      \* login -> the flow its popup was last sent to authorize
  user,        \* login -> the account the user approved there
  try,         \* login -> requests made for its callback URL
  \* the relay
  starts,      \* start requests under way
  asked,       \* flow -> the account whose handle was typed
  flows,       \* FlowCache.flows: login -> entry or None
  callbacks,   \* callback requests on their way
  exchanging,  \* callbacks past take_flow, waiting for the token endpoint
  results,     \* FlowCache.results: login -> entry or None
  \* the authorization server
  redeemed,    \* flows whose code was exchanged
  restarts,    \* of the relay, so far
  \* the tab
  poll,        \* login -> its poll_atproto_result task
  mail,        \* postMessages on their way to the tab
  bound,       \* the tab's atproto binding, or None
  \* history
  exchanges,   \* flow -> callbacks that took it to the token endpoint
  granted,     \* flow -> the account its authorization was granted by
  handled,     \* logins whose binding the tab has handled
  signedAge,   \* login -> rounds since its first result, None before it
  refused,     \* logins answered 404 within the TTL of a result
  lost         \* logins with a fetch, since their first result, that was lost or
               \* reached the relay after the TTL

popupVars == <<opened, page, severed, flowOf, user, try>>
relayVars == <<starts, asked, flows, callbacks, exchanging, results, redeemed, restarts>>
tabVars == <<poll, mail, bound, handled>>
history == <<exchanges, granted, signedAge, refused, lost>>
vars == <<opened, page, severed, flowOf, user, try, starts, asked, flows, callbacks,
          exchanging, results, redeemed, restarts, poll, mail, bound, exchanges, granted,
          handled, signedAge, refused, lost>>

Pages == {"none", "form", "starting", "authorize", "callback", "result", "done", "failed"}
FlowEntries == [flow: FlowIds, age: 0..FlowTtl]
\* A SignedBinding of provider atproto for this tab's key.
Signed == [login: Logins, flow: FlowIds, account: Accounts]
ResultEntries == [signed: Signed, age: 0..FlowTtl]
Starts == [login: Logins, flow: FlowIds]
Callbacks == [login: Logins, flow: FlowIds, user: Accounts, try: 1..MaxTries]
Exchanges == [callback: Callbacks, taken: FlowIds, attempt: {0, 1}]
Polls == [left: 0..Rounds, state: {"off", "sleep", "due", "reply"},
          reply: Signed \cup {None}]

ASSUME NoEntryAssumption == None \notin Signed \cup ResultEntries

TypeOK ==
  /\ opened \in 0..MaxLogins
  /\ page \in [Logins -> Pages]
  /\ severed \in [Logins -> BOOLEAN]
  /\ flowOf \in [Logins -> FlowIds \cup {None}]
  /\ user \in [Logins -> Accounts \cup {None}]
  /\ try \in [Logins -> 0..MaxTries]
  /\ starts \subseteq Starts
  /\ asked \in [FlowIds -> Accounts \cup {None}]
  /\ flows \in [Logins -> FlowEntries \cup {None}]
  /\ callbacks \subseteq Callbacks
  /\ exchanging \subseteq Exchanges
  /\ results \in [Logins -> ResultEntries \cup {None}]
  /\ redeemed \subseteq FlowIds
  /\ restarts \in 0..MaxRestarts
  /\ poll \in [Logins -> Polls]
  /\ mail \in Seq(Signed)
  /\ bound \in Signed \cup {None}
  /\ exchanges \in [FlowIds -> Nat]
  /\ granted \in [FlowIds -> Accounts \cup {None}]
  /\ handled \subseteq Logins
  /\ signedAge \in [Logins -> 0..FlowTtl \cup {None}]
  /\ refused \subseteq Logins
  /\ lost \subseteq Logins

Asleep(n) == [left |-> n, state |-> "sleep", reply |-> None]
Off == [left |-> 0, state |-> "off", reply |-> None]

Init ==
  /\ opened = 0
  /\ page = [i \in Logins |-> "none"]
  /\ severed = [i \in Logins |-> FALSE]
  /\ flowOf = [i \in Logins |-> None]
  /\ user = [i \in Logins |-> None]
  /\ try = [i \in Logins |-> 0]
  /\ starts = {}
  /\ asked = [f \in FlowIds |-> None]
  /\ flows = [i \in Logins |-> None]
  /\ callbacks = {}
  /\ exchanging = {}
  /\ results = [i \in Logins |-> None]
  /\ redeemed = {}
  /\ restarts = 0
  /\ poll = [i \in Logins |-> Off]
  /\ mail = <<>>
  /\ bound = None
  /\ exchanges = [f \in FlowIds |-> 0]
  /\ granted = [f \in FlowIds |-> None]
  /\ handled = {}
  /\ signedAge = [i \in Logins |-> None]
  /\ refused = {}
  /\ lost = {}

-----------------------------------------------------------------------------
(* The popup *)

\* open_login_popup: the popup of an earlier login is taken over unless COOP
\* has cut it off, in which case a second window opens.
OpenPopup ==
  /\ opened < MaxLogins
  /\ opened' = opened + 1
  /\ page' = [i \in Logins |-> IF i = opened + 1 THEN "form"
                               ELSE IF severed[i] THEN page[i] ELSE "none"]
  /\ poll' = [poll EXCEPT ![opened + 1] = Asleep(Rounds)]
  /\ UNCHANGED <<severed, flowOf, user, try, relayVars, mail, bound, handled, history>>

\* The user types a handle and submits.
Submit(i, a) ==
  /\ page[i] = "form"
  /\ \E f \in FlowIds :
       /\ asked[f] = None
       /\ \A g \in FlowIds : g < f => asked[g] # None
       /\ asked' = [asked EXCEPT ![f] = a]
       /\ flowOf' = [flowOf EXCEPT ![i] = f]
       /\ starts' = starts \cup {[login |-> i, flow |-> f]}
  /\ page' = [page EXCEPT ![i] = "starting"]
  /\ UNCHANGED <<opened, severed, user, try, flows, callbacks, exchanging, results,
                 redeemed, restarts, tabVars, history>>

\* The user approves; the redirect takes the popup to the callback URL.  The
\* account may be another one than the handle typed (login_hint is a hint).
Approve(i, u) ==
  /\ page[i] = "authorize"
  /\ granted[flowOf[i]] = None
  /\ MaxTries > 0
  /\ page' = [page EXCEPT ![i] = "callback"]
  /\ user' = [user EXCEPT ![i] = u]
  /\ try' = [try EXCEPT ![i] = 1]
  /\ granted' = [granted EXCEPT ![flowOf[i]] = u]
  /\ callbacks' = callbacks \cup {[login |-> i, flow |-> flowOf[i], user |-> u, try |-> 1]}
  /\ UNCHANGED <<opened, severed, flowOf, starts, asked, flows, exchanging, results,
                 redeemed, restarts, tabVars, exchanges, signedAge, refused, lost>>

\* The browser asks for the callback URL again (reload, or back and forward).
CallbackAgain(i) ==
  /\ page[i] \in {"callback", "failed"} /\ user[i] # None
  /\ try[i] < MaxTries
  /\ page' = [page EXCEPT ![i] = "callback"]
  /\ try' = [try EXCEPT ![i] = @ + 1]
  /\ callbacks' = callbacks \cup
       {[login |-> i, flow |-> flowOf[i], user |-> user[i], try |-> try[i] + 1]}
  /\ UNCHANGED <<opened, severed, flowOf, user, starts, asked, flows, exchanging,
                 results, redeemed, restarts, tabVars, history>>

\* The user refuses: the callback carries no code and changes nothing.
Refuse(i) ==
  /\ page[i] = "authorize"
  /\ page' = [page EXCEPT ![i] = "failed"]
  /\ UNCHANGED <<opened, severed, flowOf, user, try, relayVars, tabVars, history>>

\* Back to the form; sessionStorage still has the state.
GoBack(i) ==
  /\ page[i] \in {"authorize", "callback", "failed"}
  /\ page' = [page EXCEPT ![i] = "form"]
  /\ user' = [user EXCEPT ![i] = None]
  /\ UNCHANGED <<opened, severed, flowOf, try, relayVars, tabVars, history>>

ClosePopup(i) ==
  /\ page[i] \notin {"none", "done"}
  /\ page' = [page EXCEPT ![i] = "none"]
  /\ UNCHANGED <<opened, severed, flowOf, user, try, relayVars, tabVars, history>>

-----------------------------------------------------------------------------
(* The relay *)

\* gc, run by every access to the cache.
Expired(cache) ==
  [i \in Logins |-> IF cache[i] # None /\ cache[i].age >= FlowTtl THEN None ELSE cache[i]]

Gc == flows' = Expired(flows) /\ results' = Expired(results)

\* handle_start ends: the flow is kept under the login's state, replacing an
\* earlier one, and the popup, if it still waits, goes on.  COOP may cut the
\* opener as it leaves.
FinishStart(s) ==
  /\ s \in starts
  /\ starts' = starts \ {s}
  /\ flows' = [Expired(flows) EXCEPT ![s.login] = [flow |-> s.flow, age |-> 0]]
  /\ results' = Expired(results)
  /\ LET waits == page[s.login] = "starting" /\ flowOf[s.login] = s.flow
     IN /\ page' = [page EXCEPT ![s.login] = IF waits THEN "authorize" ELSE @]
        /\ severed' \in {severed, [severed EXCEPT ![s.login] = @ \/ waits]}
  /\ UNCHANGED <<opened, flowOf, user, try, asked, callbacks, exchanging, redeemed,
                 restarts, tabVars, history>>

\* handle_start fails (resolution, PAR): the form shows the error.
FailStart(s) ==
  /\ s \in starts
  /\ starts' = starts \ {s}
  /\ page' = [page EXCEPT ![s.login] =
                IF page[s.login] = "starting" /\ flowOf[s.login] = s.flow THEN "form" ELSE @]
  /\ UNCHANGED <<opened, severed, flowOf, user, try, asked, flows, callbacks, exchanging,
                 results, redeemed, restarts, tabVars, history>>

\* The popup shows the answer to the last request it made.
Answer(c, p) ==
  page' = [page EXCEPT ![c.login] =
             IF page[c.login] = "callback" /\ flowOf[c.login] = c.flow /\ try[c.login] = c.try
             THEN p ELSE @]

\* "Faults" are what a slip in the code would give; no action uses them.
\* A fault: the flow is read and left in the cache.
CallbackPeeking(c) ==
  /\ c \in callbacks
  /\ callbacks' = callbacks \ {c}
  /\ Gc
  /\ IF flows'[c.login] = None
       THEN /\ Answer(c, "failed")
            /\ UNCHANGED <<exchanging, exchanges>>
       ELSE /\ exchanging' = exchanging \cup {[callback |-> c, taken |-> flows'[c.login].flow, attempt |-> 0]}
            /\ exchanges' = [exchanges EXCEPT ![flows'[c.login].flow] = @ + 1]
            /\ UNCHANGED page
  /\ UNCHANGED <<opened, severed, flowOf, user, try, starts, asked, redeemed,
                 restarts, tabVars, granted, signedAge, refused, lost>>

\* handle_callback up to its await: take_flow removes the flow, so a second
\* request finds none (UnknownState).
Callback(c) ==
  /\ c \in callbacks
  /\ callbacks' = callbacks \ {c}
  /\ results' = Expired(results)
  /\ flows' = [Expired(flows) EXCEPT ![c.login] = None]
  /\ LET e == Expired(flows)[c.login]
     IN IF e = None
          THEN /\ Answer(c, "failed")
               /\ UNCHANGED <<exchanging, exchanges>>
          ELSE /\ exchanging' = exchanging \cup {[callback |-> c, taken |-> e.flow, attempt |-> 0]}
               /\ exchanges' = [exchanges EXCEPT ![e.flow] = @ + 1]
               /\ UNCHANGED page
  /\ UNCHANGED <<opened, severed, flowOf, user, try, starts, asked, redeemed,
                 restarts, tabVars, granted, signedAge, refused, lost>>

\* A fault: the account the token names is not compared with the flow's.
SubUnchecked(x) == x.callback.user

\* `sub != flow.did` is an error; the account signed for is the flow's.
SubMatching(x) == IF x.callback.user = asked[x.taken] THEN asked[x.taken] ELSE None

\* post_form_with_dpop: the first attempt is refused for want of the server's
\* DPoP nonce; the same code is presented once more with it.
Challenge(x) ==
  /\ x \in exchanging /\ x.attempt = 0
  /\ exchanging' = (exchanging \ {x}) \cup {[x EXCEPT !.attempt = 1]}
  /\ UNCHANGED <<popupVars, starts, asked, flows, callbacks, results, redeemed, restarts, tabVars,
                 history>>

\* The token endpoint answers.  It takes a code once, and only from the flow it
\* was issued to (the PKCE verifier); anything else, and any failure, ends the
\* callback with an error.
Exchange(x) ==
  /\ x \in exchanging
  /\ exchanging' = exchanging \ {x}
  /\ \/ /\ x.callback.flow = x.taken /\ x.taken \notin redeemed
        /\ redeemed' = redeemed \cup {x.taken}
        /\ LET account == SubMatching(x)
               i == x.callback.login
           IN IF account = None
                THEN /\ Answer(x.callback, "failed")
                     /\ UNCHANGED <<flows, results, signedAge>>
                ELSE /\ flows' = Expired(flows)
                     /\ results' = [Expired(results) EXCEPT ![i] =
                          [signed |-> [login |-> i, flow |-> x.taken, account |-> account],
                           age |-> 0]]
                     /\ signedAge' = [signedAge EXCEPT ![i] = IF @ = None THEN 0 ELSE @]
                     /\ Answer(x.callback, "result")
     \/ /\ Answer(x.callback, "failed")
        /\ UNCHANGED <<flows, results, redeemed, signedAge>>
  /\ UNCHANGED <<opened, severed, flowOf, user, try, starts, asked, callbacks,
                 restarts, tabVars, exchanges, granted, refused, lost>>

\* The relay ends and is started again: both tables and every request under way
\* are gone, and each waiting popup is left with an error.  What the popup kept
\* in sessionStorage is there, and so is the tab's poll.
RelayRestarts ==
  /\ restarts < MaxRestarts
  /\ restarts' = restarts + 1
  /\ starts' = {} /\ callbacks' = {} /\ exchanging' = {}
  /\ flows' = [i \in Logins |-> None]
  /\ results' = [i \in Logins |-> None]
  /\ page' = [i \in Logins |-> CASE page[i] = "starting" -> "form"
                                [] page[i] = "callback" -> "failed"
                                [] OTHER -> page[i]]
  /\ signedAge' = [i \in Logins |-> None]
  /\ lost' = lost \cup {i \in Logins : signedAge[i] # None}
  /\ UNCHANGED <<opened, severed, flowOf, user, try, asked, redeemed, tabVars,
                 exchanges, granted, refused>>

\* What get_result answers for login i, None being UnknownState.
Answered(i) == LET r == Expired(results)[i] IN IF r = None THEN None ELSE r.signed

\* A fault: reading takes the result out.
GetResultDraining(i) ==
  /\ flows' = Expired(flows)
  /\ results' = [Expired(results) EXCEPT ![i] = None]
  /\ refused' = IF Answered(i) = None /\ signedAge[i] \in 0..(FlowTtl - 1)
                THEN refused \cup {i} ELSE refused

\* handle_result: a read leaves the result where it is.
GetResult(i) ==
  /\ Gc
  /\ refused' = IF Answered(i) = None /\ signedAge[i] \in 0..(FlowTtl - 1)
                THEN refused \cup {i} ELSE refused

\* finalizeAtprotoResult: the popup reads the result and posts it to the tab if
\* it still has one; an error leaves the page, to be reloaded.
Finalize(i) ==
  /\ page[i] = "result"
  /\ GetResult(i)
  /\ IF Answered(i) = None
       THEN UNCHANGED <<page, mail>>
       ELSE /\ page' = [page EXCEPT ![i] = "done"]
            /\ mail' = IF severed[i] THEN mail ELSE Append(mail, Answered(i))
  /\ UNCHANGED <<opened, severed, flowOf, user, try, starts, asked, callbacks, exchanging,
                 redeemed, restarts, poll, bound, handled, exchanges, granted, signedAge, lost>>

-----------------------------------------------------------------------------
(* The tab *)

\* handle_login_message for the tab's own key: the binding replaces the
\* provider's earlier one, whichever of the two was signed later.
HandleLogin(signed) ==
  /\ bound' = signed
  /\ handled' = handled \cup {signed.login}

LoginMessage ==
  /\ mail # <<>>
  /\ mail' = Tail(mail)
  /\ HandleLogin(Head(mail))
  /\ UNCHANGED <<popupVars, relayVars, poll, history>>

\* A round of the poll reaches the relay, or is lost on the way there.
PollFetch(i) ==
  /\ poll[i].state = "due"
  /\ \/ /\ GetResult(i)
        /\ poll' = [poll EXCEPT ![i].state = "reply", ![i].reply = Answered(i)]
        /\ lost' = IF signedAge[i] = FlowTtl THEN lost \cup {i} ELSE lost
     \/ /\ poll' = [poll EXCEPT ![i].state = "reply", ![i].reply = None]
        /\ lost' = IF signedAge[i] # None THEN lost \cup {i} ELSE lost
        /\ UNCHANGED <<flows, results, refused>>
  /\ UNCHANGED <<popupVars, starts, asked, callbacks, exchanging, redeemed, restarts, mail, bound,
                 handled, exchanges, granted, signedAge>>

\* Its answer arrives, however much later: a result ends the poll.
PollReply(i) ==
  /\ poll[i].state = "reply"
  /\ IF poll[i].reply = None
       THEN /\ poll' = [poll EXCEPT ![i] =
                          IF @.left = 1 THEN Off ELSE Asleep(@.left - 1)]
            /\ UNCHANGED <<bound, handled>>
       ELSE /\ HandleLogin(poll[i].reply)
            /\ poll' = [poll EXCEPT ![i] = Off]
  /\ UNCHANGED <<popupVars, relayVars, mail, history>>

-----------------------------------------------------------------------------
Older(cache) ==
  [i \in Logins |-> IF cache[i] # None /\ cache[i].age < FlowTtl
                    THEN [cache[i] EXCEPT !.age = @ + 1] ELSE cache[i]]

\* The interval between two rounds passes.
Tick ==
  /\ flows' = Older(flows)
  /\ results' = Older(results)
  /\ poll' = [i \in Logins |-> IF poll[i].state = "sleep"
                               THEN [poll[i] EXCEPT !.state = "due"] ELSE poll[i]]
  /\ signedAge' = [i \in Logins |-> IF signedAge[i] # None /\ signedAge[i] < FlowTtl
                                    THEN signedAge[i] + 1 ELSE signedAge[i]]
  /\ UNCHANGED <<popupVars, starts, asked, callbacks, exchanging, redeemed, restarts, mail, bound,
                 handled, exchanges, granted, refused, lost>>

User ==
  \/ OpenPopup
  \/ \E i \in Logins :
       \/ \E a \in Accounts : Submit(i, a) \/ Approve(i, a)
       \/ CallbackAgain(i) \/ Refuse(i) \/ GoBack(i) \/ ClosePopup(i)

Relay ==
  \/ \E s \in starts : FinishStart(s) \/ FailStart(s)
  \/ \E c \in callbacks : Callback(c)
  \/ \E x \in exchanging : Challenge(x) \/ Exchange(x)
  \/ RelayRestarts

Next ==
  \/ User \/ Relay
  \/ \E i \in Logins : Finalize(i) \/ PollFetch(i) \/ PollReply(i)
  \/ LoginMessage
  \/ Tick

\* Timers fire, fetches end one way or the other, events are dispatched.  The
\* user and the authorization server owe nothing.
Fairness ==
  /\ WF_vars(Tick)
  /\ \A i \in Logins : WF_vars(PollFetch(i)) /\ WF_vars(PollReply(i))
  /\ WF_vars(LoginMessage)

Spec == Init /\ [][Next]_vars
FairSpec == Spec /\ Fairness

-----------------------------------------------------------------------------
(* Safety *)

\* Whatever was signed, and whatever reached the tab, names the account whose
\* handle was typed for that flow, and that very account granted it: through
\* retyped handles, stale codes and repeated callbacks.
SignedAsGranted ==
  LET kept == {results[i].signed : i \in {j \in Logins : results[j] # None}}
      told == {bound} \cup {poll[i].reply : i \in Logins} \cup {mail[k] : k \in DOMAIN mail}
  IN \A r \in kept \cup (told \ {None}) :
       r.account = asked[r.flow] /\ r.account = granted[r.flow]

\* One callback at most takes a flow to the token endpoint (where it may try
\* twice, see Challenge): a repeated callback never presents the code again, not
\* even after a failure.
ExchangedOnce == \A f \in FlowIds : exchanges[f] <= 1

\* The relay never forgets a result within its TTL, whoever has read it.
NeverRefused == refused = {}

-----------------------------------------------------------------------------
(* Liveness *)

\* A login signed while its poll still has a round to go reaches the tab, though
\* COOP has severed the popup, unless a fetch is lost or comes after the TTL.
LoginSurvivesCoop ==
  \A i \in Logins :
    signedAge[i] = 0 /\ poll[i].state \in {"sleep", "due"}
      ~> i \in handled \cup lost
=============================================================================
