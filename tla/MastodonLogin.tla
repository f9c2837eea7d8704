--------------------------- MODULE MastodonLogin ---------------------------
(***************************************************************************)
(* The Mastodon login: the popup page of the broker (broker/mastodon.js),  *)
(* the relay's /me/sign/mastodon (crates/relaye/src/sign_endpoint.rs) and  *)
(* the tab that opened the popup and waits for its message                 *)
(* (crates/laye-p2p/src/wasm.rs, handle_login_message).                    *)
(*                                                                         *)
(* The page is loaded many times in one login, and its scripts know only   *)
(* the URL and what sessionStorage kept.  The user submits the form twice  *)
(* before the first registration answers, reloads, goes back, refuses,     *)
(* clicks the tab's button again (the same window is navigated) or closes  *)
(* the popup at any point.                                                 *)
(***************************************************************************)
EXTENDS Naturals, FiniteSets, Sequences, SequencesExt

CONSTANTS
  Instances, Accounts,  \* an account's name is unique over all instances
  None,
  MaxOpens,    \* bound: clicks on the tab's login button
  MaxClients,  \* bound: apps registered
  MaxGrants,   \* bound: approvals
  MaxPast      \* bound: entries behind the current one in the popup's history

ASSUME BoundsAssumption == {MaxOpens, MaxClients, MaxGrants, MaxPast} \subseteq Nat
ASSUME NoneAssumption == None \notin Instances \cup Accounts

VARIABLES
  \* the popup
  page,         \* what it shows
  url, past,    \* its address, and those behind it in its history
  session,      \* sessionStorage
  registering,  \* instances whose registerApp has not answered
  going,        \* the client to whose page it is being navigated, 0 for none
  run,          \* the handleCallback under way
  shown,        \* an error is on the page
  opener,       \* window.opener is the tab
  \* the instances
  clients,      \* the apps registered: number -> instance
  grants,       \* the codes issued: number -> client and account
  spent,        \* the codes redeemed
  \* the tab
  opens,
  mail,         \* messages posted to it and not handled: account or None (signed: null)
  bound,        \* whose binding it took last
  complained,   \* it has reported a login without a binding
  \* history
  wentBack,     \* the user has gone back in the popup
  ended         \* a login has ended in this window since its key was last stored

popup == <<page, url, past, session, registering, going, run, shown>>
instances == <<clients, grants, spent>>
tab == <<opens, mail, bound, complained>>
vars == <<page, url, past, session, registering, going, run, shown, opener,
          clients, grants, spent, opens, mail, bound, complained, wentBack, ended>>

Peer == <<"peer">>            \* /me/?peer=...&state=...
Plain == <<"plain">>          \* /me/
Code(n) == <<"code", n>>      \* /me/?code=...
Authorize(c) == <<"auth", c>> \* the instance's page for client c
Urls == {Peer, Plain} \cup {Code(n) : n \in 1..MaxGrants} \cup {Authorize(c) : c \in 1..MaxClients}

Sessions == [inst: Instances \cup {None}, client: 0..MaxClients, peer: BOOLEAN]
Runs == [step: {"exchange", "actor", "sign"}, code: 1..MaxGrants, inst: Instances,
         client: 1..MaxClients, account: Accounts \cup {None}]

ASSUME NoRunAssumption == None \notin Runs

\* "idle" is the broker page without a handler on its form.
TypeOK ==
  /\ page \in {"closed", "form", "instance", "callback", "idle", "result"}
  /\ url \in Urls /\ past \in Seq(Urls)
  /\ session \in Sessions
  /\ registering \subseteq Instances
  /\ going \in 0..MaxClients
  /\ run \in Runs \cup {None}
  /\ (run # None) = (page = "callback")
  /\ shown \in BOOLEAN /\ opener \in BOOLEAN /\ complained \in BOOLEAN
  /\ wentBack \in BOOLEAN /\ ended \in BOOLEAN
  /\ clients \in Seq(Instances)
  /\ grants \in Seq([client: 1..MaxClients, account: Accounts])
  /\ spent \subseteq 1..MaxGrants
  /\ opens \in 0..MaxOpens
  /\ mail \in Seq(Accounts \cup {None})
  /\ bound \in Accounts \cup {None}

Empty == [inst |-> None, client |-> 0, peer |-> FALSE]

Init ==
  /\ page = "closed" /\ url = Plain /\ past = <<>>
  /\ session = Empty
  /\ registering = {} /\ going = 0
  /\ run = None
  /\ shown = FALSE /\ opener = FALSE
  /\ clients = <<>> /\ grants = <<>> /\ spent = {}
  /\ opens = 0 /\ mail = <<>> /\ bound = None /\ complained = FALSE
  /\ wentBack = FALSE /\ ended = FALSE

-----------------------------------------------------------------------------
(* Loading the broker page: the top level of mastodon.js *)

\* setupForm
ShowForm(u, s) ==
  /\ page' = "form" /\ url' = u
  /\ session' = s
  /\ run' = None
  /\ shown' = FALSE

ShowError(u, s) ==
  /\ page' = "idle" /\ url' = u
  /\ session' = s
  /\ run' = None
  /\ shown' = TRUE

\* A peer in the URL is kept for later loads; the callback without one.
LoadForm(u) ==
  /\ u \in {Peer, Plain}
  /\ ShowForm(u, [session EXCEPT !.peer = @ \/ u = Peer])
  /\ ended' = (ended /\ u # Peer)

\* Definitions marked "fault" are what a slip in the code would give; no action
\* uses them.  A fault: nobody looks whether a login is in progress.
LoadCodeUnchecked(n) ==
  /\ page' = "callback" /\ url' = Code(n)
  /\ run' = [step |-> "exchange", code |-> n, inst |-> session.inst,
             client |-> session.client, account |-> None]
  /\ shown' = FALSE
  /\ UNCHANGED <<session, ended>>

\* A code starts handleCallback if a login is in progress.
LoadCode(n) ==
  /\ IF session.inst = None
       THEN ShowError(Code(n), session)
       ELSE /\ page' = "callback" /\ url' = Code(n)
            /\ run' = [step |-> "exchange", code |-> n, inst |-> session.inst,
                       client |-> session.client, account |-> None]
            /\ shown' = FALSE
            /\ UNCHANGED session
  /\ UNCHANGED ended

\* An error parameter: clearState, and replaceState drops the parameter.
LoadRefused ==
  /\ ShowError(Plain, Empty)
  /\ ended' = TRUE

\* The instance's own page.
LoadAuthorize(c) ==
  /\ page' = "instance" /\ url' = Authorize(c)
  /\ run' = None
  /\ shown' = FALSE
  /\ UNCHANGED <<session, ended>>

\* Leaving a page stops its scripts.
Unload == registering' = {} /\ going' = 0

Pushed ==
  /\ Len(past) < MaxPast
  /\ past' = Append(past, url)
  /\ Unload

-----------------------------------------------------------------------------
(* The tab: open_login_popup *)

\* A window of that name which is still the tab's is navigated, with the
\* sessionStorage it has; otherwise a new one opens.
OpenLoginPopup ==
  /\ opens < MaxOpens
  /\ opens' = opens + 1
  /\ IF opener
       THEN Pushed /\ LoadForm(Peer)
       ELSE /\ past' = <<>> /\ Unload
            /\ ShowForm(Peer, [Empty EXCEPT !.peer = TRUE])
            /\ ended' = FALSE
  /\ opener' = TRUE
  /\ UNCHANGED <<instances, mail, bound, complained, wentBack>>

\* handle_login_message: without a signed binding it reports "login-empty".
HandleLoginMessage ==
  /\ mail # <<>>
  /\ mail' = Tail(mail)
  /\ IF Head(mail) = None
       THEN complained' = TRUE /\ UNCHANGED bound
       ELSE bound' = Head(mail) /\ UNCHANGED complained
  /\ UNCHANGED <<popup, opener, instances, opens, wentBack, ended>>

-----------------------------------------------------------------------------
(* The form *)

\* A fault: the instance is stored before its registration answers.
SubmitStoring(i) ==
  /\ page = "form" /\ i \notin registering
  /\ Len(clients) + Cardinality(registering) < MaxClients
  /\ registering' = registering \cup {i}
  /\ session' = [session EXCEPT !.inst = i]
  /\ UNCHANGED <<page, url, past, going, run, shown, opener, instances, tab, wentBack, ended>>

\* The handler of the form, up to the await of registerApp; the form stays
\* usable until the page has gone.
Submit(i) ==
  /\ page = "form" /\ i \notin registering
  /\ Len(clients) + Cardinality(registering) < MaxClients
  /\ registering' = registering \cup {i}
  /\ UNCHANGED <<page, url, past, session, going, run, shown, opener, instances, tab,
                 wentBack, ended>>

\* The rest of the handler: the registration is stored, and the popup starts
\* for the instance, wherever it was being navigated before.
Registered(i) ==
  /\ i \in registering
  /\ registering' = registering \ {i}
  /\ clients' = Append(clients, i)
  /\ going' = Len(clients) + 1
  /\ session' = [session EXCEPT !.inst = i, !.client = Len(clients) + 1]
  /\ UNCHANGED <<page, url, past, run, shown, opener, grants, spent, tab, wentBack, ended>>

RegisterFails(i) ==
  /\ i \in registering
  /\ registering' = registering \ {i}
  /\ shown' = TRUE
  /\ UNCHANGED <<page, url, past, session, going, run, opener, instances, tab, wentBack, ended>>

\* The instance's page replaces the form, and may sever the popup from the tab
\* (COOP).
Arrive ==
  /\ going # 0
  /\ Pushed
  /\ LoadAuthorize(going)
  /\ opener' \in {opener, FALSE}
  /\ UNCHANGED <<instances, tab, wentBack>>

\* Without a handler the browser submits the form itself: to the same page,
\* with an empty query, since its field has no name.
NativeSubmit ==
  /\ page \in {"idle", "callback"}
  /\ Pushed
  /\ LoadForm(Plain)
  /\ UNCHANGED <<opener, instances, tab, wentBack>>

-----------------------------------------------------------------------------
(* The instance's page, and the user *)

Approve(a) ==
  /\ page = "instance" /\ Len(grants) < MaxGrants
  /\ grants' = Append(grants, [client |-> url[2], account |-> a])
  /\ Pushed
  /\ LoadCode(Len(grants) + 1)
  /\ UNCHANGED <<opener, clients, spent, tab, wentBack>>

Refuse ==
  /\ page = "instance"
  /\ Pushed
  /\ LoadRefused
  /\ UNCHANGED <<opener, instances, tab, wentBack>>

Load(u) ==
  \/ LoadForm(u)
  \/ \E n \in 1..Len(grants) : u = Code(n) /\ LoadCode(n)
  \/ \E c \in 1..Len(clients) : u = Authorize(c) /\ LoadAuthorize(c)

Reload ==
  /\ page # "closed"
  /\ Load(url)
  /\ Unload
  /\ UNCHANGED <<past, opener, instances, tab, wentBack>>

\* The browser loads the page again, or brings a form back as it was left.
Back ==
  /\ page # "closed" /\ past # <<>>
  /\ past' = Front(past)
  /\ wentBack' = TRUE
  /\ Unload
  /\ \/ Load(Last(past))
     \/ Last(past) \in {Peer, Plain} /\ ShowForm(Last(past), session) /\ UNCHANGED ended
  /\ UNCHANGED <<opener, instances, tab>>

\* sessionStorage goes with the window.
ClosePopup ==
  /\ page # "closed"
  /\ page' = "closed" /\ url' = Plain /\ past' = <<>>
  /\ session' = Empty
  /\ Unload
  /\ run' = None /\ shown' = FALSE /\ opener' = FALSE
  /\ UNCHANGED <<instances, tab, wentBack, ended>>

-----------------------------------------------------------------------------
(* handleCallback, await by await *)

\* A fault: a failure ends the login as a success would.
FailedClearing ==
  /\ run # None
  /\ ShowError(url, Empty)
  /\ UNCHANGED <<past, registering, going, opener, clients, grants, tab, wentBack, ended>>

\* The catch: an error on the page, whose state and URL stay.
Failed ==
  /\ run # None
  /\ ShowError(url, session)
  /\ UNCHANGED <<past, registering, going, opener, clients, grants, tab, wentBack, ended>>

\* exchangeCode.  The instance redeems a code once, for the client it was
\* issued to; the answer may be lost.
Redeemable == run.code \notin spent /\ grants[run.code].client = run.client

Continue(step, account) ==
  /\ run' = [run EXCEPT !.step = step, !.account = account]
  /\ UNCHANGED <<page, url, past, session, registering, going, shown, opener, clients,
                 grants, tab, wentBack, ended>>

ExchangeCode ==
  /\ run # None /\ run.step = "exchange"
  /\ \/ /\ Redeemable
        /\ spent' = spent \cup {run.code}
        /\ Continue("actor", None) \/ Failed
     \/ Failed /\ UNCHANGED spent

FetchActor ==
  /\ run # None /\ run.step = "actor"
  /\ \/ Continue("sign", grants[run.code].account)
     \/ Failed
  /\ UNCHANGED spent

\* clearState, replaceState and showResult, which posts to the opener.
Finish(signed) ==
  /\ page' = "result" /\ url' = Plain
  /\ session' = Empty
  /\ run' = None
  /\ mail' = IF opener THEN Append(mail, signed) ELSE mail
  /\ ended' = TRUE
  /\ UNCHANGED <<past, registering, going, shown, opener, instances, opens, bound,
                 complained, wentBack>>

\* fetch_mastodon_actor_url: whose token it is, by the instance.
TokenActor == grants[run.code].account

\* handle_sign: the relay asks the instance itself and signs only for the
\* account the token belongs to.  None is an error: a refusal, or a request
\* that failed.
HandleSign(claimed) == {None} \cup ({claimed} \cap {TokenActor})

\* A fault: the state is cleared before the key is read.
SignBindingCleared ==
  /\ run # None /\ run.step = "sign"
  /\ Finish(None)

\* signBinding, if a key is stored.
SignBinding ==
  /\ run # None /\ run.step = "sign"
  /\ IF session.peer
       THEN \E signed \in HandleSign(run.account) :
              IF signed = None THEN Failed /\ UNCHANGED spent ELSE Finish(signed)
       ELSE Finish(None)

-----------------------------------------------------------------------------
Callback == ExchangeCode \/ FetchActor \/ SignBinding

User ==
  \/ OpenLoginPopup \/ NativeSubmit \/ Refuse \/ Reload \/ Back \/ ClosePopup
  \/ \E i \in Instances : Submit(i)
  \/ \E a \in Accounts : Approve(a)

Next ==
  \/ User
  \/ \E i \in Instances : Registered(i) \/ RegisterFails(i)
  \/ Arrive
  \/ Callback
  \/ HandleLoginMessage

\* Requests end one way or the other and messages are dispatched; the user owes
\* nothing.
Fairness == WF_vars(Callback) /\ WF_vars(HandleLoginMessage)

Spec == Init /\ [][Next]_vars
FairSpec == Spec /\ Fairness

-----------------------------------------------------------------------------
(* Properties *)

\* Unless the user goes back, a code is presented to the instance it came from,
\* by the client it was issued to, however often the form was submitted, the
\* page reloaded or the window opened anew.
CodeAtHome ==
  ~wentBack /\ run # None =>
    /\ run.client = grants[run.code].client
    /\ run.inst = clients[run.client]

\* The tab is told of a login without a binding only when an earlier login had
\* ended in the same window, with a result or a refusal, and taken the tab's
\* key with it: a failure on the way leaves a retry its key.
UnsignedOnlyAfterEnd ==
  [][mail' # mail /\ Len(mail') > Len(mail) /\ Last(mail') = None => ended]_vars

\* An approved login of a popup that has its key and its opener reaches the tab
\* as that account's, or an error is left on the page, unless the user takes
\* the page away.
ApprovedIsBound ==
  \A n \in 1..MaxGrants :
    run # None /\ run.code = n /\ session.peer /\ opener
      ~> \/ n <= Len(grants) /\ bound = grants[n].account
         \/ page \notin {"callback", "result"}
=============================================================================
