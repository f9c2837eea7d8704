------------------------ MODULE MastodonLoginProofs ------------------------
(***************************************************************************)
(* Proofs about MastodonLogin: the types, the codes' way home, and the key *)
(* that a retry keeps, for every value of the constants.                   *)
(***************************************************************************)
EXTENDS MastodonLogin, FiniteSetTheorems, TLAPS

-----------------------------------------------------------------------------
(* The address and the page go together, the popup is navigated only from  *)
(* the form, and an app's registration is paid for when it is asked for.   *)

PageInv ==
  /\ registering # {} \/ going # 0 => page = "form"
  /\ IsFiniteSet(registering)
  /\ registering # {} => Len(clients) + Cardinality(registering) <= MaxClients
  /\ page \in {"closed", "form", "result"} => url \in {Peer, Plain}
  /\ page = "instance" => \E c \in 1..Len(clients) : url = Authorize(c)
  /\ page = "callback" => run.code \in 1..Len(grants) /\ url = Code(run.code)
  /\ page = "idle" => url = Plain \/ \E n \in 1..Len(grants) : url = Code(n)

\* What the session says of the instance it is at.
SessionInv ==
  /\ session.inst # None => /\ session.client \in 1..Len(clients)
                            /\ clients[session.client] = session.inst
  /\ going # 0 => session.inst # None /\ session.client = going
  /\ run # None => run.client \in 1..Len(clients) /\ clients[run.client] = run.inst

TypeInv == TypeOK /\ PageInv /\ SessionInv

LEMMA BoundTypes ==
  /\ MaxOpens \in Nat /\ MaxClients \in Nat /\ MaxGrants \in Nat /\ MaxPast \in Nat
BY BoundsAssumption

LEMMA UrlTypes ==
  /\ Peer \in Urls /\ Plain \in Urls
  /\ \A n \in 1..MaxGrants : Code(n) \in Urls
  /\ \A c \in 1..MaxClients : Authorize(c) \in Urls
BY DEF Urls

LEMMA UrlsDiffer ==
  /\ Peer # Plain
  /\ \A n : Code(n) # Peer /\ Code(n) # Plain
  /\ \A c : Authorize(c) # Peer /\ Authorize(c) # Plain /\ Authorize(c)[2] = c
  /\ \A n, c : Code(n) # Authorize(c)
  /\ \A m, n : Code(m) = Code(n) => m = n
  /\ \A c, d : Authorize(c) = Authorize(d) => c = d
<1>1. \A n : Code(n)[1] = "code" /\ Code(n)[2] = n /\ Len(Code(n)) = 2
  BY DEF Code
<1>2. \A c : Authorize(c)[1] = "auth" /\ Authorize(c)[2] = c /\ Len(Authorize(c)) = 2
  BY DEF Authorize
<1>3. Peer[1] = "peer" /\ Plain[1] = "plain" /\ Len(Peer) = 1 /\ Len(Plain) = 1
  BY DEF Peer, Plain
<1> HIDE DEF Peer, Plain
<1> QED  BY <1>1, <1>2, <1>3

LEMMA SessionTypes ==
  /\ Empty \in Sessions /\ Empty.inst = None /\ Empty.client = 0 /\ Empty.peer = FALSE
  /\ \A s \in Sessions, b \in BOOLEAN :
       /\ [s EXCEPT !.peer = b] \in Sessions
       /\ [s EXCEPT !.peer = b].inst = s.inst
       /\ [s EXCEPT !.peer = b].client = s.client
       /\ [s EXCEPT !.peer = b].peer = b
<1>1. 0 \in 0..MaxClients
  BY BoundTypes
<1>2. Empty \in Sessions
  BY <1>1 DEF Empty, Sessions
<1>3. Empty.inst = None /\ Empty.client = 0
  BY DEF Empty
<1>4. Empty.peer = FALSE
  BY Zenon DEF Empty
<1>5. ASSUME NEW s \in Sessions, NEW b \in BOOLEAN
      PROVE  /\ [s EXCEPT !.peer = b] \in Sessions
             /\ [s EXCEPT !.peer = b].inst = s.inst
             /\ [s EXCEPT !.peer = b].client = s.client
  BY DEF Sessions
<1>6. ASSUME NEW s \in Sessions, NEW b \in BOOLEAN
      PROVE  [s EXCEPT !.peer = b].peer = b
  <2>1. DOMAIN s = {"inst", "client", "peer"}
    BY DEF Sessions
  <2> QED  BY <2>1
<1> QED  BY <1>2, <1>3, <1>4, <1>5, <1>6

LEMMA TypeInit == Init => TypeInv
<1> SUFFICES ASSUME Init PROVE TypeInv
  OBVIOUS
<1>1. TypeOK
  <2>1. /\ page = "closed" /\ url \in Urls /\ past \in Seq(Urls) /\ session \in Sessions
        /\ registering \subseteq Instances /\ run = None
        /\ spent \subseteq 1..MaxGrants /\ bound = None
    BY UrlTypes, SessionTypes DEF Init
  <2>2. /\ going \in 0..MaxClients /\ opens \in 0..MaxOpens
        /\ clients \in Seq(Instances) /\ mail \in Seq(Accounts \cup {None})
        /\ grants \in Seq([client: 1..MaxClients, account: Accounts])
    BY BoundTypes DEF Init
  <2>3. /\ shown \in BOOLEAN /\ opener \in BOOLEAN /\ complained \in BOOLEAN
        /\ wentBack \in BOOLEAN /\ ended \in BOOLEAN
    BY Zenon DEF Init
  <2> QED  BY <2>1, <2>2, <2>3 DEF TypeOK
<1>2. PageInv
  BY FS_EmptySet DEF Init, PageInv
<1>3. SessionInv
  BY SessionTypes DEF Init, SessionInv
<1> QED  BY <1>1, <1>2, <1>3 DEF TypeInv

-----------------------------------------------------------------------------
(* Loads of a page *)

\* The variables that a load gives a value.
LoadTypes ==
  /\ page \in {"closed", "form", "instance", "callback", "idle", "result"}
  /\ url \in Urls
  /\ session \in Sessions
  /\ run \in Runs \cup {None}
  /\ (run # None) = (page = "callback")
  /\ shown \in BOOLEAN /\ ended \in BOOLEAN
  /\ registering \subseteq Instances
  /\ going \in 0..MaxClients

GoodSession(s, apps) ==
  /\ s \in Sessions
  /\ s.inst # None => s.client \in 1..Len(apps) /\ apps[s.client] = s.inst

LEMMA SessionsGood ==
  ASSUME TypeInv
  PROVE  /\ GoodSession(session, clients) /\ GoodSession(Empty, clients)
         /\ \A b \in BOOLEAN : /\ GoodSession([session EXCEPT !.peer = b], clients)
                               /\ GoodSession([Empty EXCEPT !.peer = b], clients)
BY SessionTypes DEF GoodSession, TypeInv, TypeOK, SessionInv

\* A form, or a page without a handler, shown with a session that is as good.
LEMMA ShowLoads ==
  ASSUME TypeInv, Unload, UNCHANGED clients,
         NEW s, GoodSession(s, clients), ended' \in BOOLEAN,
         \/ \E u \in {Peer, Plain} : ShowForm(u, s)
         \/ ShowError(Plain, s)
         \/ \E n \in 1..Len(grants') : n \in 1..MaxGrants /\ ShowError(Code(n), s)
  PROVE  LoadTypes' /\ PageInv' /\ SessionInv'
<1>1. /\ registering' = {} /\ going' = 0 /\ run' = None /\ session' = s
      /\ page' \in {"form", "idle"} /\ url' \in Urls
      /\ page' = "form" => url' \in {Peer, Plain}
      /\ page' = "idle" => url' = Plain \/ \E n \in 1..Len(grants') : url' = Code(n)
  BY UrlTypes DEF Unload, ShowForm, ShowError
<1>2. shown' \in BOOLEAN
  BY Zenon DEF ShowForm, ShowError
<1>3. LoadTypes'
  BY <1>1, <1>2, BoundTypes DEF LoadTypes, GoodSession
<1>4. PageInv'
  BY <1>1, FS_EmptySet DEF PageInv
<1>5. SessionInv'
  BY <1>1 DEF SessionInv, GoodSession
<1> QED  BY <1>3, <1>4, <1>5

LEMMA FormLoads ==
  ASSUME TypeInv, Unload, UNCHANGED <<clients, grants>>, NEW u, LoadForm(u)
  PROVE  LoadTypes' /\ PageInv' /\ SessionInv'
<1>1. u \in {Peer, Plain} /\ ShowForm(u, [session EXCEPT !.peer = @ \/ u = Peer])
  BY DEF LoadForm
<1>2. PICK b \in BOOLEAN : b = (session.peer \/ u = Peer)
  OBVIOUS
<1>3. ShowForm(u, [session EXCEPT !.peer = b])
  BY <1>1, <1>2
<1>4. ended' \in BOOLEAN
  BY Zenon DEF LoadForm
<1>5. GoodSession([session EXCEPT !.peer = b], clients)
  BY SessionsGood
<1> QED  BY <1>1, <1>3, <1>4, <1>5, ShowLoads

\* A code's page: the callback of the login in progress, if there is one.
LEMMA CodeLoads ==
  ASSUME TypeInv, Unload, UNCHANGED clients,
         NEW n \in 1..MaxGrants, n \in 1..Len(grants'), LoadCode(n)
  PROVE  LoadTypes' /\ PageInv' /\ SessionInv'
<1>1. ended' \in BOOLEAN
  BY Zenon DEF LoadCode, TypeInv, TypeOK
<1>2. CASE session.inst = None
  <2>1. ShowError(Code(n), session)
    BY <1>2 DEF LoadCode
  <2>2. \E k \in 1..Len(grants') : k \in 1..MaxGrants /\ ShowError(Code(k), session)
    BY <2>1
  <2> QED  BY <1>1, <2>2, SessionsGood, ShowLoads
<1>3. CASE session.inst # None
  <2> DEFINE r == [step |-> "exchange", code |-> n, inst |-> session.inst,
                   client |-> session.client, account |-> None]
  <2>1. /\ page' = "callback" /\ url' = Code(n) /\ run' = r /\ session' = session
        /\ registering' = {} /\ going' = 0
    BY <1>3 DEF LoadCode, Unload
  <2>2. shown' \in BOOLEAN
    BY <1>3, Zenon DEF LoadCode
  <2>3. /\ session.client \in 1..Len(clients) /\ clients[session.client] = session.inst
        /\ session.inst \in Instances /\ session.client \in 1..MaxClients
    BY <1>3, BoundTypes DEF TypeInv, TypeOK, SessionInv, Sessions
  <2>4. r \in Runs /\ r # None
    BY <2>3, NoRunAssumption DEF Runs
  <2>5. r.code = n /\ r.client = session.client /\ r.inst = session.inst
    OBVIOUS
  <2> HIDE DEF r
  <2>6. LoadTypes'
    BY <1>1, <2>1, <2>2, <2>4, UrlTypes, BoundTypes DEF LoadTypes, TypeInv, TypeOK
  <2>7. PageInv'
    BY <2>1, <2>5, FS_EmptySet DEF PageInv
  <2>8. SessionInv'
    BY <2>1, <2>3, <2>5 DEF SessionInv
  <2> QED  BY <2>6, <2>7, <2>8
<1> QED  BY <1>2, <1>3

LEMMA RefusedLoads ==
  ASSUME TypeInv, Unload, UNCHANGED clients, LoadRefused
  PROVE  LoadTypes' /\ PageInv' /\ SessionInv'
<1>1. ShowError(Plain, Empty)
  BY DEF LoadRefused
<1>2. ended' \in BOOLEAN
  BY Zenon DEF LoadRefused
<1> QED  BY <1>1, <1>2, SessionsGood, ShowLoads

LEMMA AuthorizeLoads ==
  ASSUME TypeInv, Unload, UNCHANGED clients, NEW c \in 1..Len(clients), c \in 1..MaxClients,
         LoadAuthorize(c)
  PROVE  LoadTypes' /\ PageInv' /\ SessionInv'
<1>1. /\ page' = "instance" /\ url' = Authorize(c) /\ run' = None
      /\ registering' = {} /\ going' = 0 /\ session' = session
  BY DEF LoadAuthorize, Unload
<1>2. shown' \in BOOLEAN /\ ended' \in BOOLEAN
  BY Zenon DEF LoadAuthorize, TypeInv, TypeOK
<1>3. LoadTypes'
  BY <1>1, <1>2, UrlTypes, BoundTypes DEF LoadTypes, TypeInv, TypeOK
<1>4. PageInv'
  BY <1>1, FS_EmptySet DEF PageInv
<1>5. SessionInv'
  BY <1>1 DEF SessionInv, TypeInv
<1> QED  BY <1>3, <1>4, <1>5

\* Any page whose address is in the history.
LEMMA Loads ==
  ASSUME TypeInv, Unload, UNCHANGED <<clients, grants>>, NEW u \in Urls, Load(u)
  PROVE  LoadTypes' /\ PageInv' /\ SessionInv'
<1>1. CASE LoadForm(u)
  BY <1>1, FormLoads
<1>2. ASSUME NEW n \in 1..Len(grants), u = Code(n), LoadCode(n)
      PROVE  LoadTypes' /\ PageInv' /\ SessionInv'
  <2>1. n \in 1..MaxGrants
    <3>1. PICK m \in 1..MaxGrants : u = Code(m)
      BY <1>2, UrlsDiffer DEF Urls
    <3> QED  BY <1>2, <3>1, UrlsDiffer
  <2> QED  BY <1>2, <2>1, CodeLoads
<1>3. ASSUME NEW c \in 1..Len(clients), u = Authorize(c), LoadAuthorize(c)
      PROVE  LoadTypes' /\ PageInv' /\ SessionInv'
  <2>1. c \in 1..MaxClients
    <3>1. PICK d \in 1..MaxClients : u = Authorize(d)
      BY <1>3, UrlsDiffer DEF Urls
    <3> QED  BY <1>3, <3>1, UrlsDiffer
  <2> QED  BY <1>3, <2>1, AuthorizeLoads
<1> QED  BY <1>1, <1>2, <1>3 DEF Load

LEMMA PushedType ==
  ASSUME TypeInv, Pushed
  PROVE  past' \in Seq(Urls) /\ Unload
BY DEF TypeInv, TypeOK, Pushed

-----------------------------------------------------------------------------
(* The actions keep the types *)

RestTypes ==
  /\ past \in Seq(Urls)
  /\ opener \in BOOLEAN /\ complained \in BOOLEAN /\ wentBack \in BOOLEAN
  /\ clients \in Seq(Instances)
  /\ grants \in Seq([client: 1..MaxClients, account: Accounts])
  /\ spent \subseteq 1..MaxGrants
  /\ opens \in 0..MaxOpens
  /\ mail \in Seq(Accounts \cup {None})
  /\ bound \in Accounts \cup {None}

LEMMA TypeParts == TypeOK <=> LoadTypes /\ RestTypes
BY DEF TypeOK, LoadTypes, RestTypes

\* A load leaves everything else alone, but for the history, the opener and what
\* the user or a click adds.
LEMMA LoadStep ==
  ASSUME TypeInv, LoadTypes', PageInv', SessionInv', past' \in Seq(Urls),
         opener' \in BOOLEAN, wentBack' \in BOOLEAN, opens' \in 0..MaxOpens,
         grants' \in Seq([client: 1..MaxClients, account: Accounts]),
         UNCHANGED <<clients, spent, mail, bound, complained>>
  PROVE  TypeInv'
<1>1. RestTypes'
  BY TypeParts DEF TypeInv, RestTypes
<1>2. TypeOK'
  BY <1>1 DEF TypeOK, LoadTypes, RestTypes
<1> QED  BY <1>2 DEF TypeInv

LEMMA TypeOpenLoginPopup == ASSUME TypeInv, OpenLoginPopup PROVE TypeInv'
<1>1. UNCHANGED <<clients, grants, spent, mail, bound, complained, wentBack>>
  BY DEF OpenLoginPopup, instances
<1>2. opens' \in 0..MaxOpens
  BY BoundTypes DEF OpenLoginPopup, TypeInv, TypeOK
<1>3. opener' \in BOOLEAN /\ wentBack' \in BOOLEAN
  BY Zenon DEF OpenLoginPopup, TypeInv, TypeOK
<1>4. LoadTypes' /\ PageInv' /\ SessionInv' /\ past' \in Seq(Urls)
  <2>1. CASE opener
    <3>1. Pushed /\ LoadForm(Peer)
      BY <2>1 DEF OpenLoginPopup
    <3> QED  BY <1>1, <3>1, PushedType, FormLoads
  <2>2. CASE ~opener
    <3>1. past' = <<>> /\ Unload /\ ShowForm(Peer, [Empty EXCEPT !.peer = TRUE])
      BY <2>2 DEF OpenLoginPopup
    <3>2. ended' \in BOOLEAN
      BY <2>2, Zenon DEF OpenLoginPopup
    <3>3. GoodSession([Empty EXCEPT !.peer = TRUE], clients)
      BY SessionsGood
    <3>4. past' \in Seq(Urls)
      BY <3>1
    <3> QED  BY <1>1, <3>1, <3>2, <3>3, <3>4, ShowLoads
  <2> QED  BY <2>1, <2>2
<1>5. grants \in Seq([client: 1..MaxClients, account: Accounts])
  BY DEF TypeInv, TypeOK
<1> QED  BY <1>1, <1>2, <1>3, <1>4, <1>5, LoadStep

LEMMA TypeSubmit ==
  ASSUME TypeInv, NEW i \in Instances, Submit(i)
  PROVE  TypeInv'
<1>1. TypeOK'
  BY DEF TypeInv, TypeOK, Submit, instances, tab
<1>2. /\ IsFiniteSet(registering')
      /\ Cardinality(registering') = Cardinality(registering) + 1
  BY FS_AddElement DEF TypeInv, PageInv, Submit
<1>3. Len(clients) + Cardinality(registering) + 1 <= MaxClients
  <2>1. IsFiniteSet(registering)  BY DEF TypeInv, PageInv
  <2>2. Cardinality(registering) \in Nat  BY <2>1, FS_CardinalityType
  <2>3. Len(clients) \in Nat  BY DEF TypeInv, TypeOK
  <2> QED  BY <2>2, <2>3, BoundTypes DEF Submit
<1>4. PageInv'
  <2>1. Cardinality(registering) \in Nat /\ Len(clients) \in Nat
    BY FS_CardinalityType DEF TypeInv, TypeOK, PageInv
  <2>2. Len(clients) + Cardinality(registering') <= MaxClients
    BY <1>2, <1>3, <2>1
  <2>3. page = "form" /\ UNCHANGED <<page, url, run, clients, grants, going>>
    BY DEF Submit, instances
  <2> QED  BY <1>2, <2>2, <2>3 DEF PageInv, TypeInv
<1>5. SessionInv'
  BY DEF TypeInv, SessionInv, Submit, instances
<1> QED  BY <1>1, <1>4, <1>5 DEF TypeInv

\* An answered registration leaves room for those still under way.
LEMMA TypeRegistered ==
  ASSUME TypeInv, NEW i \in Instances, Registered(i)
  PROVE  TypeInv'
<1>1. /\ registering' = registering \ {i} /\ i \in registering
      /\ clients' = Append(clients, i) /\ going' = Len(clients) + 1
      /\ session' = [session EXCEPT !.inst = i, !.client = Len(clients) + 1]
      /\ UNCHANGED <<page, url, run, grants>> /\ page = "form"
  BY DEF Registered, TypeInv, PageInv
<1>2. clients \in Seq(Instances) /\ session \in Sessions
  BY DEF TypeInv, TypeOK
<1>3. /\ IsFiniteSet(registering') /\ Cardinality(registering') \in Nat
      /\ Cardinality(registering') = Cardinality(registering) - 1
  <2>1. IsFiniteSet(registering)  BY DEF TypeInv, PageInv
  <2> QED  BY <1>1, <2>1, FS_RemoveElement, FS_CardinalityType
<1>4. Len(clients) + Cardinality(registering) <= MaxClients /\ Cardinality(registering) \in Nat
  BY <1>1, FS_CardinalityType DEF TypeInv, PageInv
<1>5. /\ clients' \in Seq(Instances) /\ Len(clients') = Len(clients) + 1
      /\ clients'[Len(clients) + 1] = i
      /\ \A c \in 1..Len(clients) : clients'[c] = clients[c]
      /\ Len(clients) \in Nat
  BY <1>1, <1>2
<1>6. Len(clients) + 1 \in 1..MaxClients /\ Len(clients') + Cardinality(registering') <= MaxClients
  BY <1>3, <1>4, <1>5, BoundTypes
<1>7. session' \in Sessions
  <2>1. PICK n \in 1..MaxClients : n = Len(clients) + 1
    BY <1>6
  <2>2. session' = [session EXCEPT !.inst = i, !.client = n]
    BY <1>1, <2>1
  <2>3. \A s \in Sessions :
          [s EXCEPT !.inst = i] \in Sessions /\ [s EXCEPT !.client = n] \in Sessions
    BY <2>1, BoundTypes DEF Sessions
  <2> QED  BY <1>2, <2>2, <2>3
<1>8. session'.inst = i /\ session'.client = Len(clients) + 1
  BY <1>1, <1>2 DEF Sessions
<1>9. TypeOK'
  BY <1>1, <1>5, <1>6, <1>7, BoundTypes DEF TypeInv, TypeOK, Registered, tab
<1>10. PageInv'
  BY <1>1, <1>3, <1>6 DEF TypeInv, PageInv
<1>11. SessionInv'
  <2>1. run = None
    BY <1>1 DEF TypeInv, TypeOK
  <2>2. Len(clients) + 1 \in 1..Len(clients') /\ run' = None
    BY <1>1, <1>5, <2>1
  <2> QED  BY <1>1, <1>5, <1>8, <2>2, NoneAssumption DEF SessionInv
<1> QED  BY <1>9, <1>10, <1>11 DEF TypeInv

LEMMA TypeRegisterFails ==
  ASSUME TypeInv, NEW i \in Instances, RegisterFails(i)
  PROVE  TypeInv'
<1>1. TypeOK'
  BY DEF TypeInv, TypeOK, RegisterFails, instances, tab
<1>2. PageInv'
  <2>1. /\ registering' = registering \ {i} /\ i \in registering
        /\ UNCHANGED <<page, url, run, clients, grants, going>>
    BY DEF RegisterFails, instances
  <2>2. IsFiniteSet(registering) /\ Len(clients) \in Nat
    BY DEF TypeInv, TypeOK, PageInv
  <2>3. /\ IsFiniteSet(registering') /\ Cardinality(registering') \in Nat
        /\ Cardinality(registering) \in Nat
        /\ Cardinality(registering') = Cardinality(registering) - 1
    BY <2>1, <2>2, FS_RemoveElement, FS_CardinalityType
  <2>4. Len(clients) + Cardinality(registering) <= MaxClients
    BY <2>1 DEF TypeInv, PageInv
  <2>5. Len(clients') + Cardinality(registering') <= MaxClients
    BY <2>1, <2>2, <2>3, <2>4, BoundTypes
  <2> QED  BY <2>1, <2>3, <2>5 DEF TypeInv, PageInv
<1>3. SessionInv'
  BY DEF TypeInv, SessionInv, RegisterFails, instances
<1> QED  BY <1>1, <1>2, <1>3 DEF TypeInv

LEMMA TypeArrive == ASSUME TypeInv, Arrive PROVE TypeInv'
<1>1. UNCHANGED <<clients, grants, spent, opens, mail, bound, complained, wentBack>>
  BY DEF Arrive, instances, tab
<1>2. going \in 1..Len(clients) /\ going \in 1..MaxClients
  BY BoundTypes DEF Arrive, TypeInv, TypeOK, SessionInv
<1>3. past' \in Seq(Urls) /\ Unload
  BY PushedType DEF Arrive
<1>4. LoadTypes' /\ PageInv' /\ SessionInv'
  BY <1>1, <1>2, <1>3, AuthorizeLoads DEF Arrive
<1>5. opener' \in BOOLEAN
  BY Zenon DEF Arrive, TypeInv, TypeOK
<1> QED  BY <1>1, <1>3, <1>4, <1>5, LoadStep DEF TypeInv, TypeOK

LEMMA TypeNativeSubmit == ASSUME TypeInv, NativeSubmit PROVE TypeInv'
<1>1. UNCHANGED <<clients, grants, spent, opens, mail, bound, complained, wentBack, opener>>
  BY DEF NativeSubmit, instances, tab
<1>2. past' \in Seq(Urls) /\ Unload
  BY PushedType DEF NativeSubmit
<1>3. LoadTypes' /\ PageInv' /\ SessionInv'
  BY <1>1, <1>2, FormLoads DEF NativeSubmit
<1> QED  BY <1>1, <1>2, <1>3, LoadStep DEF TypeInv, TypeOK

LEMMA TypeApprove ==
  ASSUME TypeInv, NEW a \in Accounts, Approve(a)
  PROVE  TypeInv'
<1>1. UNCHANGED <<clients, spent, opens, mail, bound, complained, wentBack, opener>>
  BY DEF Approve, tab
<1>2. past' \in Seq(Urls) /\ Unload
  BY PushedType DEF Approve
<1>3. PICK c \in 1..Len(clients) : url = Authorize(c)
  BY DEF Approve, TypeInv, PageInv
<1>4. c \in 1..MaxClients /\ url[2] = c
  <2>1. PICK d \in 1..MaxClients : url = Authorize(d)
    BY <1>3, UrlsDiffer DEF TypeInv, TypeOK, Urls
  <2> QED  BY <1>3, <2>1, UrlsDiffer
<1>5. /\ grants \in Seq([client: 1..MaxClients, account: Accounts])
      /\ Len(grants) < MaxGrants
      /\ grants' = Append(grants, [client |-> c, account |-> a])
  BY <1>4 DEF Approve, TypeInv, TypeOK
<1>6. /\ grants' \in Seq([client: 1..MaxClients, account: Accounts])
      /\ Len(grants) + 1 \in 1..MaxGrants /\ Len(grants) + 1 \in 1..Len(grants')
  BY <1>4, <1>5, BoundTypes
<1>7. LoadTypes' /\ PageInv' /\ SessionInv'
  BY <1>1, <1>2, <1>6, CodeLoads DEF Approve
<1> QED  BY <1>1, <1>2, <1>6, <1>7, LoadStep DEF TypeInv, TypeOK

LEMMA TypeRefuse == ASSUME TypeInv, Refuse PROVE TypeInv'
<1>1. UNCHANGED <<clients, grants, spent, opens, mail, bound, complained, wentBack, opener>>
  BY DEF Refuse, instances, tab
<1>2. past' \in Seq(Urls) /\ Unload
  BY PushedType DEF Refuse
<1>3. LoadTypes' /\ PageInv' /\ SessionInv'
  BY <1>1, <1>2, RefusedLoads DEF Refuse
<1> QED  BY <1>1, <1>2, <1>3, LoadStep DEF TypeInv, TypeOK

LEMMA TypeReload == ASSUME TypeInv, Reload PROVE TypeInv'
<1>1. UNCHANGED <<past, clients, grants, spent, opens, mail, bound, complained, wentBack, opener>>
  BY DEF Reload, instances, tab
<1>2. url \in Urls
  BY DEF TypeInv, TypeOK
<1>3. LoadTypes' /\ PageInv' /\ SessionInv'
  BY <1>1, <1>2, Loads DEF Reload
<1> QED  BY <1>1, <1>3, LoadStep DEF TypeInv, TypeOK

LEMMA TypeBack == ASSUME TypeInv, Back PROVE TypeInv'
<1>1. UNCHANGED <<clients, grants, spent, opens, mail, bound, complained, opener>>
  BY DEF Back, instances, tab
<1>2. past \in Seq(Urls) /\ past # <<>>
  BY DEF Back, TypeInv, TypeOK
<1>3. past' \in Seq(Urls) /\ Last(past) \in Urls
  BY <1>2 DEF Back, Front, Last
<1>4. LoadTypes' /\ PageInv' /\ SessionInv'
  <2>1. CASE Load(Last(past))
    BY <1>1, <1>3, <2>1, Loads DEF Back
  <2>2. CASE Last(past) \in {Peer, Plain} /\ ShowForm(Last(past), session) /\ UNCHANGED ended
    <3>1. ended' \in BOOLEAN
      BY <2>2 DEF TypeInv, TypeOK
    <3> QED  BY <1>1, <2>2, <3>1, SessionsGood, ShowLoads DEF Back
  <2> QED  BY <2>1, <2>2 DEF Back
<1>5. wentBack' \in BOOLEAN
  BY Zenon DEF Back
<1> QED  BY <1>1, <1>3, <1>4, <1>5, LoadStep DEF TypeInv, TypeOK

LEMMA TypeClosePopup == ASSUME TypeInv, ClosePopup PROVE TypeInv'
<1>1. UNCHANGED <<clients, grants, spent, opens, mail, bound, complained, wentBack, ended>>
  BY DEF ClosePopup, instances, tab
<1>2. /\ page' = "closed" /\ url' = Plain /\ past' = <<>> /\ session' = Empty
      /\ registering' = {} /\ going' = 0 /\ run' = None
  BY DEF ClosePopup, Unload
<1>3. shown' \in BOOLEAN /\ opener' \in BOOLEAN /\ ended' \in BOOLEAN
  BY Zenon DEF ClosePopup, TypeInv, TypeOK
<1>4. LoadTypes'
  BY <1>2, <1>3, UrlTypes, SessionTypes, BoundTypes DEF LoadTypes
<1>5. PageInv'
  BY <1>2, FS_EmptySet DEF PageInv
<1>6. SessionInv'
  BY <1>2, SessionTypes DEF SessionInv
<1> QED  BY <1>1, <1>2, <1>3, <1>4, <1>5, <1>6, LoadStep DEF TypeInv, TypeOK

\* handleCallback: it goes on, fails or ends; the page has no form.
LEMMA TypeFailed ==
  ASSUME TypeInv, Failed, spent' \subseteq 1..MaxGrants
  PROVE  TypeInv'
<1>1. /\ page = "callback" /\ registering = {} /\ going = 0
      /\ run.code \in 1..Len(grants) /\ url = Code(run.code)
  BY DEF Failed, TypeInv, TypeOK, PageInv
<1>2. /\ page' = "idle" /\ url' = url /\ session' = session /\ run' = None
      /\ registering' = {} /\ going' = 0
      /\ UNCHANGED <<past, opener, clients, grants, opens, mail, bound, complained, wentBack,
                     ended>>
  BY <1>1 DEF Failed, ShowError, tab
<1>3. shown' \in BOOLEAN /\ ended' \in BOOLEAN
  BY Zenon DEF Failed, ShowError, TypeInv, TypeOK
<1>4. TypeOK'
  BY <1>2, <1>3, BoundTypes DEF TypeInv, TypeOK
<1>5. PageInv'
  BY <1>1, <1>2, FS_EmptySet DEF PageInv
<1>6. SessionInv'
  BY <1>2 DEF TypeInv, SessionInv
<1> QED  BY <1>4, <1>5, <1>6 DEF TypeInv

LEMMA TypeContinue ==
  ASSUME TypeInv, run # None, NEW step \in {"exchange", "actor", "sign"},
         NEW account \in Accounts \cup {None}, Continue(step, account),
         spent' \subseteq 1..MaxGrants
  PROVE  TypeInv'
<1>1. run \in Runs /\ page = "callback"
  BY DEF TypeInv, TypeOK
<1>2. /\ run' = [run EXCEPT !.step = step, !.account = account]
      /\ UNCHANGED <<page, url, past, session, registering, going, shown, opener, clients,
                     grants, opens, mail, bound, complained, wentBack, ended>>
  BY DEF Continue, tab
<1>3. run' \in Runs /\ run'.code = run.code /\ run'.client = run.client /\ run'.inst = run.inst
  BY <1>1, <1>2 DEF Runs
<1>4. run' # None
  BY <1>3, NoRunAssumption
<1>5. TypeOK'
  BY <1>1, <1>2, <1>3, <1>4 DEF TypeInv, TypeOK
<1>6. PageInv'
  BY <1>2, <1>3 DEF TypeInv, PageInv
<1>7. SessionInv'
  BY <1>2, <1>3, <1>4 DEF TypeInv, SessionInv
<1> QED  BY <1>5, <1>6, <1>7 DEF TypeInv

LEMMA TypeFinish ==
  ASSUME TypeInv, run # None, NEW signed \in Accounts \cup {None}, Finish(signed)
  PROVE  TypeInv'
<1>1. page = "callback" /\ registering = {} /\ going = 0
  BY DEF TypeInv, TypeOK, PageInv
<1>2. /\ page' = "result" /\ url' = Plain /\ session' = Empty /\ run' = None
      /\ registering' = {} /\ going' = 0
      /\ UNCHANGED <<past, shown, opener, clients, grants, spent, opens, bound, complained,
                     wentBack>>
  BY <1>1 DEF Finish, instances
<1>3. mail' \in Seq(Accounts \cup {None})
  <2>1. mail' \in {mail, Append(mail, signed)}
    BY DEF Finish
  <2>2. mail \in Seq(Accounts \cup {None})
    BY DEF TypeInv, TypeOK
  <2> QED  BY <2>1, <2>2
<1>4. ended' \in BOOLEAN
  BY Zenon DEF Finish
<1>5. TypeOK'
  BY <1>2, <1>3, <1>4, UrlTypes, SessionTypes, BoundTypes DEF TypeInv, TypeOK
<1>6. PageInv'
  BY <1>2, FS_EmptySet DEF PageInv
<1>7. SessionInv'
  BY <1>2, SessionTypes DEF SessionInv
<1> QED  BY <1>5, <1>6, <1>7 DEF TypeInv

LEMMA RunTypes ==
  ASSUME TypeInv, run # None
  PROVE  /\ run \in Runs /\ run.code \in 1..Len(grants) /\ run.code \in 1..MaxGrants
         /\ grants[run.code].account \in Accounts /\ run.account \in Accounts \cup {None}
<1>1. run \in Runs /\ run.code \in 1..Len(grants)
  BY DEF TypeInv, TypeOK, PageInv
<1>2. grants[run.code] \in [client: 1..MaxClients, account: Accounts]
  <2> DEFINE Issued == [client: 1..MaxClients, account: Accounts]
  <2>1. grants \in Seq(Issued)
    BY DEF TypeInv, TypeOK
  <2> HIDE DEF Issued
  <2>2. grants[run.code] \in Issued
    BY <1>1, <2>1
  <2> QED  BY <2>2 DEF Issued
<1> QED  BY <1>1, <1>2 DEF Runs

\* The ways handleCallback goes on.
LEMMA CallbackCases ==
  ASSUME TypeInv, Callback
  PROVE  /\ run # None /\ spent' \subseteq 1..MaxGrants
         /\ \/ Failed
            \/ \E step \in {"exchange", "actor", "sign"}, account \in Accounts \cup {None} :
                 Continue(step, account)
            \/ \E signed \in Accounts \cup {None} :
                 Finish(signed) /\ (signed = None => ~session.peer)
<1>1. CASE ExchangeCode
  BY <1>1, RunTypes DEF ExchangeCode, TypeInv, TypeOK
<1>2. CASE FetchActor
  BY <1>2, RunTypes DEF FetchActor, TypeInv, TypeOK
<1>3. CASE SignBinding
  <2>1. CASE session.peer
    BY <1>3, <2>1, RunTypes DEF SignBinding, HandleSign, Finish, instances, TypeInv, TypeOK
  <2>2. CASE ~session.peer
    BY <1>3, <2>2 DEF SignBinding, Finish, instances, TypeInv, TypeOK
  <2> QED  BY <2>1, <2>2
<1> QED  BY <1>1, <1>2, <1>3 DEF Callback

LEMMA TypeHandleLoginMessage == ASSUME TypeInv, HandleLoginMessage PROVE TypeInv'
<1>1. /\ UNCHANGED <<page, url, past, session, registering, going, run, shown, opener, clients,
                     grants, spent, opens, wentBack, ended>>
  BY DEF HandleLoginMessage, popup, instances
<1>2. mail' \in Seq(Accounts \cup {None}) /\ bound' \in Accounts \cup {None}
  BY DEF HandleLoginMessage, TypeInv, TypeOK
<1>3. complained' \in BOOLEAN
  BY Zenon DEF HandleLoginMessage, TypeInv, TypeOK
<1>4. TypeOK'
  BY <1>1, <1>2, <1>3 DEF TypeInv, TypeOK
<1>5. PageInv' /\ SessionInv'
  BY <1>1 DEF TypeInv, PageInv, SessionInv
<1> QED  BY <1>4, <1>5 DEF TypeInv

LEMMA TypeStep == ASSUME TypeInv, [Next]_vars PROVE TypeInv'
<1>1. CASE User
  BY <1>1, TypeOpenLoginPopup, TypeNativeSubmit, TypeRefuse, TypeReload, TypeBack,
     TypeClosePopup, TypeSubmit, TypeApprove DEF User
<1>2. ASSUME NEW i \in Instances, Registered(i) \/ RegisterFails(i) PROVE TypeInv'
  BY <1>2, TypeRegistered, TypeRegisterFails
<1>3. CASE Arrive
  BY <1>3, TypeArrive
<1>4. CASE Callback
  BY <1>4, CallbackCases, TypeFailed, TypeContinue, TypeFinish
<1>5. CASE HandleLoginMessage
  BY <1>5, TypeHandleLoginMessage
<1>6. CASE UNCHANGED vars
  BY <1>6 DEF vars, TypeInv, TypeOK, PageInv, SessionInv
<1> QED  BY <1>1, <1>2, <1>3, <1>4, <1>5, <1>6 DEF Next

LEMMA Typed == Spec => []TypeInv
BY TypeInit, TypeStep, PTL DEF Spec

\* Every variable keeps to its type; a callback runs exactly while its page is
\* shown.
THEOREM TypeCorrect == Spec => []TypeOK
<1>1. TypeInv => TypeOK
  BY DEF TypeInv
<1> QED  BY <1>1, Typed, PTL

-----------------------------------------------------------------------------
(* A code's way home.  Until the user goes back, the address shown belongs *)
(* to the session's client: the instance's page is the one the session     *)
(* started for, and a code on the page was issued to it.                   *)

HomeInv ==
  ~wentBack =>
    /\ \A c \in 1..Len(clients) : url = Authorize(c) => session.client = c
    /\ \A n \in 1..Len(grants) :
         url = Code(n) /\ session.inst # None => session.client = grants[n].client
    /\ run # None => run.client = grants[run.code].client

\* A page whose address names neither a client nor a code.
LEMMA HomeAway ==
  ASSUME TypeInv, url' \in {Peer, Plain}, run' = None
  PROVE  HomeInv'
BY UrlsDiffer DEF HomeInv

\* The same address with the same session, or none.
LEMMA HomeStays ==
  ASSUME TypeInv, HomeInv, UNCHANGED <<url, clients, grants, wentBack>>,
         session' = session,
         run' = None \/ (run # None /\ run'.client = run.client /\ run'.code = run.code)
  PROVE  HomeInv'
BY DEF HomeInv

\* Loading a code that the session's client was given.
LEMMA HomeCode ==
  ASSUME TypeInv, NEW n \in 1..Len(grants'), LoadCode(n),
         session.inst # None => session.client = grants'[n].client
  PROVE  HomeInv'
<1>1. url' = Code(n) /\ session' = session
  BY DEF LoadCode, ShowError
<1>2. run' # None =>
        /\ run'.code = n /\ run'.client = session.client /\ session.inst # None
  BY DEF LoadCode, ShowError
<1> QED  BY <1>1, <1>2, UrlsDiffer DEF HomeInv

LEMMA HomeAuthorize ==
  ASSUME TypeInv, NEW c, LoadAuthorize(c), session.client = c
  PROVE  HomeInv'
BY UrlsDiffer DEF HomeInv, LoadAuthorize

LEMMA HomeReload == ASSUME TypeInv, HomeInv, Reload PROVE HomeInv'
<1>1. UNCHANGED <<clients, grants, wentBack>>
  BY DEF Reload, instances
<1>2. CASE LoadForm(url)
  BY <1>2, HomeAway DEF LoadForm, ShowForm
<1>3. ASSUME NEW n \in 1..Len(grants), url = Code(n), LoadCode(n) PROVE HomeInv'
  <2>1. CASE wentBack
    BY <1>1, <2>1 DEF HomeInv
  <2>2. CASE ~wentBack
    BY <1>1, <1>3, <2>2, HomeCode DEF HomeInv
  <2> QED  BY <2>1, <2>2
<1>4. ASSUME NEW c \in 1..Len(clients), url = Authorize(c), LoadAuthorize(c) PROVE HomeInv'
  <2>1. CASE wentBack
    BY <1>1, <2>1 DEF HomeInv
  <2>2. CASE ~wentBack
    BY <1>1, <1>4, <2>2, HomeAuthorize DEF HomeInv
  <2> QED  BY <2>1, <2>2
<1> QED  BY <1>2, <1>3, <1>4 DEF Reload, Load

\* The user approves on the page of the session's client.
LEMMA HomeApprove ==
  ASSUME TypeInv, HomeInv, NEW a \in Accounts, Approve(a)
  PROVE  HomeInv'
<1>1. PICK c \in 1..Len(clients) : url = Authorize(c)
  BY DEF Approve, TypeInv, PageInv
<1>2. url[2] = c
  BY <1>1, UrlsDiffer
<1>3. /\ grants \in Seq([client: 1..MaxClients, account: Accounts])
      /\ grants' = Append(grants, [client |-> c, account |-> a])
      /\ LoadCode(Len(grants) + 1) /\ wentBack' = wentBack
  BY <1>2 DEF Approve, TypeInv, TypeOK
<1>4. /\ Len(grants) + 1 \in 1..Len(grants')
      /\ grants'[Len(grants) + 1] = [client |-> c, account |-> a]
  BY <1>3
<1>5. CASE wentBack
  BY <1>3, <1>5 DEF HomeInv
<1>6. CASE ~wentBack
  <2>1. session.client = c
    BY <1>1, <1>6 DEF HomeInv
  <2>2. session.client = grants'[Len(grants) + 1].client
    BY <1>4, <2>1
  <2> QED  BY <1>3, <1>4, <2>2, HomeCode
<1> QED  BY <1>5, <1>6

\* An answered registration changes the session, on a page that names no client.
LEMMA HomeRegistered ==
  ASSUME TypeInv, NEW i \in Instances, Registered(i)
  PROVE  HomeInv'
<1>1. page = "form"
  BY DEF Registered, TypeInv, PageInv
<1>2. url \in {Peer, Plain} /\ run = None
  BY <1>1 DEF TypeInv, TypeOK, PageInv
<1> QED  BY <1>2, HomeAway DEF Registered

LEMMA HomeStep == ASSUME TypeInv, HomeInv, [Next]_vars PROVE HomeInv'
<1>1. CASE OpenLoginPopup
  BY <1>1, HomeAway DEF OpenLoginPopup, LoadForm, ShowForm
<1>2. CASE NativeSubmit
  BY <1>2, HomeAway DEF NativeSubmit, LoadForm, ShowForm
<1>3. CASE Refuse
  BY <1>3, HomeAway DEF Refuse, LoadRefused, ShowError
<1>4. CASE Back
  BY <1>4 DEF Back, HomeInv
<1>5. CASE ClosePopup
  BY <1>5, HomeAway DEF ClosePopup
<1>6. ASSUME NEW i \in Instances, Submit(i) \/ RegisterFails(i) PROVE HomeInv'
  BY <1>6 DEF Submit, RegisterFails, instances, HomeInv
<1>7. CASE Arrive
  BY <1>7, HomeAuthorize DEF Arrive, TypeInv, SessionInv
<1>8. CASE Callback
  <2>1. run # None
    BY <1>8, CallbackCases
  <2>2. CASE Failed
    BY <2>2, HomeStays DEF Failed, ShowError
  <2>3. ASSUME NEW step, NEW account, Continue(step, account) PROVE HomeInv'
    <3>1. run \in Runs
      BY <2>1, RunTypes
    <3>2. run'.client = run.client /\ run'.code = run.code
      BY <2>3, <3>1 DEF Continue, Runs
    <3> QED  BY <2>1, <2>3, <3>2, HomeStays DEF Continue
  <2>4. ASSUME NEW signed, Finish(signed) PROVE HomeInv'
    BY <2>4, HomeAway DEF Finish
  <2> QED  BY <1>8, <2>2, <2>3, <2>4, CallbackCases
<1>9. CASE HandleLoginMessage \/ UNCHANGED vars
  BY <1>9 DEF HandleLoginMessage, popup, instances, vars, HomeInv
<1> QED
  BY <1>1, <1>2, <1>3, <1>4, <1>5, <1>6, <1>7, <1>8, <1>9, HomeReload, HomeApprove,
     HomeRegistered DEF Next, User

\* Unless the user goes back, handleCallback presents a code to the instance it
\* came from, as the client it was issued to: the session it reads is the one
\* that was stored for the page the code was granted on.
THEOREM CodesComeHome == Spec => []CodeAtHome
<1>1. Init => HomeInv
  BY HomeAway, UrlsDiffer DEF Init, HomeInv
<1>2. TypeInv /\ HomeInv /\ [Next]_vars => HomeInv'
  BY HomeStep
<1>3. TypeInv /\ HomeInv => CodeAtHome
  BY DEF TypeInv, SessionInv, HomeInv, CodeAtHome
<1> QED  BY <1>1, <1>2, <1>3, Typed, PTL DEF Spec

-----------------------------------------------------------------------------
(* The tab's key.  A window that is still the tab's has lost the key only   *)
(* with a login that ended.                                                 *)

KeyInv == opener /\ ~session.peer => ended

LEMMA KeyForm ==
  ASSUME TypeInv, KeyInv, NEW u, LoadForm(u), opener' = opener
  PROVE  KeyInv'
<1>1. session \in Sessions
  BY DEF TypeInv, TypeOK
<1>2. PICK b \in BOOLEAN : b = (session.peer \/ u = Peer)
  OBVIOUS
<1>3. session' = [session EXCEPT !.peer = b]
  BY <1>2 DEF LoadForm, ShowForm
<1>4. session'.peer = b
  BY <1>1, <1>3, SessionTypes
<1>5. ended' = (ended /\ u # Peer)
  BY DEF LoadForm
<1> QED  BY <1>2, <1>4, <1>5, Zenon DEF KeyInv

LEMMA KeyCode ==
  ASSUME KeyInv, NEW n, LoadCode(n), opener' = opener
  PROVE  KeyInv'
BY DEF KeyInv, LoadCode, ShowError

LEMMA KeyStep == ASSUME TypeInv, KeyInv, [Next]_vars PROVE KeyInv'
<1>1. CASE OpenLoginPopup
  <2>1. CASE opener
    <3>1. LoadForm(Peer) /\ opener' = TRUE
      BY <1>1, <2>1 DEF OpenLoginPopup
    <3> QED  BY <2>1, <3>1, KeyForm
  <2>2. CASE ~opener
    <3>1. session' = [Empty EXCEPT !.peer = TRUE]
      BY <1>1, <2>2 DEF OpenLoginPopup, ShowForm
    <3>2. session'.peer = TRUE
      BY <3>1, SessionTypes
    <3> QED  BY <3>2, Zenon DEF KeyInv
  <2> QED  BY <2>1, <2>2
<1>2. CASE NativeSubmit
  BY <1>2, KeyForm DEF NativeSubmit
<1>3. CASE Refuse
  BY <1>3, Zenon DEF Refuse, LoadRefused, KeyInv
<1>4. ASSUME NEW u, Load(u), opener' = opener PROVE KeyInv'
  BY <1>4, KeyForm, KeyCode DEF Load, LoadAuthorize, KeyInv
<1>5. CASE Back
  BY <1>4, <1>5 DEF Back, ShowForm, KeyInv
<1>6. CASE Reload
  BY <1>4, <1>6 DEF Reload
<1>7. CASE ClosePopup
  BY <1>7, Zenon DEF ClosePopup, KeyInv
<1>8. ASSUME NEW i \in Instances, Submit(i) \/ RegisterFails(i) PROVE KeyInv'
  BY <1>8 DEF Submit, RegisterFails, KeyInv
<1>9. ASSUME NEW i \in Instances, Registered(i) PROVE KeyInv'
  <2>1. session'.peer = session.peer
    BY <1>9 DEF Registered, TypeInv, TypeOK, Sessions
  <2> QED  BY <1>9, <2>1 DEF Registered, KeyInv
<1>10. ASSUME NEW a \in Accounts, Approve(a) PROVE KeyInv'
  BY <1>10, KeyCode DEF Approve
<1>11. CASE Arrive
  BY <1>11 DEF Arrive, LoadAuthorize, KeyInv
<1>12. CASE Callback
  <2>1. CASE Failed
    BY <2>1 DEF Failed, ShowError, KeyInv
  <2>2. ASSUME NEW step, NEW account, Continue(step, account) PROVE KeyInv'
    BY <2>2 DEF Continue, KeyInv
  <2>3. ASSUME NEW signed, Finish(signed) PROVE KeyInv'
    BY <2>3, Zenon DEF Finish, KeyInv
  <2> QED  BY <1>12, <2>1, <2>2, <2>3, CallbackCases
<1>13. CASE HandleLoginMessage \/ UNCHANGED vars
  BY <1>13 DEF HandleLoginMessage, popup, vars, KeyInv
<1> QED
  BY <1>1, <1>2, <1>3, <1>5, <1>6, <1>7, <1>8, <1>9, <1>10, <1>11, <1>12, <1>13
     DEF Next, User

LEMMA UnsignedStep ==
  ASSUME TypeInv, KeyInv, [Next]_vars, mail' # mail, Len(mail') > Len(mail),
         Last(mail') = None
  PROVE  ended
<1>1. mail \in Seq(Accounts \cup {None})
  BY DEF TypeInv, TypeOK
<1>2. Callback
  <2>1. CASE HandleLoginMessage
    BY <1>1, <2>1 DEF HandleLoginMessage
  <2>2. mail' = mail \/ HandleLoginMessage \/ Callback
    BY DEF Next, User, vars, tab, OpenLoginPopup, NativeSubmit, Refuse, Reload, Back,
           ClosePopup, Submit, Approve, Registered, RegisterFails, Arrive
  <2> QED  BY <2>1, <2>2
<1>3. PICK signed \in Accounts \cup {None} : Finish(signed) /\ (signed = None => ~session.peer)
  <2>1. Failed => mail' = mail
    BY DEF Failed, tab
  <2>2. \A step, account : Continue(step, account) => mail' = mail
    BY DEF Continue, tab
  <2> QED  BY <1>2, <2>1, <2>2, CallbackCases
<1>4. opener /\ mail' = Append(mail, signed)
  BY <1>3 DEF Finish
<1>5. signed = None
  <2>1. Last(mail') = signed
    BY <1>1, <1>4 DEF Last
  <2> QED  BY <2>1
<1> QED  BY <1>3, <1>4, <1>5 DEF KeyInv

\* The tab is told of a login without a binding only when one had ended in the
\* same window since the tab last gave it its key: no failure on the way, reload
\* or return to the form loses the key.
THEOREM KeyUntilEnd == Spec => UnsignedOnlyAfterEnd
<1>1. Init => KeyInv
  BY DEF Init, KeyInv
<1>2. TypeInv /\ KeyInv /\ [Next]_vars => KeyInv'
  BY KeyStep
<1>3. TypeInv /\ KeyInv /\ [Next]_vars =>
        [mail' # mail /\ Len(mail') > Len(mail) /\ Last(mail') = None => ended]_vars
  BY UnsignedStep
<1> QED  BY <1>1, <1>2, <1>3, Typed, PTL DEF Spec, UnsignedOnlyAfterEnd

-----------------------------------------------------------------------------
(* What is bound was approved. *)

\* Somebody approved as this account, and the code of that was redeemed.
Approved(a) == \E n \in spent : n \in DOMAIN grants /\ grants[n].account = a

\* Where the run under way stands.
RunInv ==
  run # None =>
    /\ run.step # "exchange" => run.code \in spent
    /\ run.step = "sign" => run.account = grants[run.code].account

MailInv == \A i \in DOMAIN mail : mail[i] # None => Approved(mail[i])

\* The tab binds an account, and a message with an account waits for it, only if
\* an approval of that account was redeemed: submits, reloads, a page brought
\* back and codes presented twice bind nobody else.  (handle_sign answers for
\* the token's own account; handle_login_message.)
BoundWasApproved == (bound # None => Approved(bound)) /\ MailInv

BoundInv == RunInv /\ BoundWasApproved

\* Approvals are not taken back, nor redeemed codes.
LEMMA ApprovedKept ==
  ASSUME spent \subseteq spent',
         \A n \in DOMAIN grants : n \in DOMAIN grants' /\ grants'[n] = grants[n],
         NEW a, Approved(a)
  PROVE  Approved(a)'
BY DEF Approved

\* Steps of the page and the user: a run is ended, begun or left alone.
LEMMA BoundPage ==
  ASSUME TypeInv, BoundInv, UNCHANGED <<spent, mail, bound>>,
         \A n \in DOMAIN grants : n \in DOMAIN grants' /\ grants'[n] = grants[n],
         run' = run \/ run' = None \/ run'.step = "exchange"
  PROVE  BoundInv'
<1>1. BoundWasApproved'
  BY ApprovedKept DEF BoundInv, BoundWasApproved, MailInv
<1>2. CASE run' = run
  <2>1. run # None => run.code \in DOMAIN grants
    BY RunTypes DEF TypeInv, TypeOK
  <2>2. \A n \in DOMAIN grants : grants'[n].account = grants[n].account
    OBVIOUS
  <2>3. RunInv'
    BY <1>2, <2>1, <2>2 DEF BoundInv, RunInv
  <2> QED  BY <1>1, <2>3 DEF BoundInv
<1>3. CASE run' # run
  BY <1>1, <1>3 DEF BoundInv, RunInv
<1> QED  BY <1>2, <1>3

\* Every load of a page ends the run or begins one with the exchange.
LEMMA LoadedRun ==
  /\ \A u : LoadForm(u) => run' = None
  /\ \A n : LoadCode(n) => run' = None \/ run'.step = "exchange"
  /\ \A c : LoadAuthorize(c) => run' = None
  /\ LoadRefused => run' = None
BY DEF LoadForm, ShowForm, LoadCode, ShowError, LoadAuthorize, LoadRefused

LEMMA BoundFailed ==
  ASSUME TypeInv, BoundInv, Failed, spent \subseteq spent'
  PROVE  BoundInv'
<1>1. run' = None /\ UNCHANGED <<grants, mail, bound>>
  BY DEF Failed, ShowError, tab
<1>2. BoundWasApproved'
  BY <1>1, ApprovedKept DEF BoundInv, BoundWasApproved, MailInv
<1> QED  BY <1>1, <1>2 DEF BoundInv, RunInv

LEMMA BoundContinue ==
  ASSUME TypeInv, BoundInv, run # None, NEW step, NEW account, Continue(step, account),
         spent \subseteq spent', run.code \in spent', step # "exchange",
         step = "sign" => account = grants[run.code].account
  PROVE  BoundInv'
<1>1. /\ run' = [run EXCEPT !.step = step, !.account = account]
      /\ UNCHANGED <<grants, mail, bound>>
  BY DEF Continue, tab
<1>2. run'.code = run.code /\ run'.step = step /\ run'.account = account
  BY <1>1, RunTypes DEF Runs
<1>3. BoundWasApproved'
  BY <1>1, ApprovedKept DEF BoundInv, BoundWasApproved, MailInv
<1>4. RunInv'
  BY <1>1, <1>2 DEF RunInv
<1> QED  BY <1>3, <1>4 DEF BoundInv

LEMMA BoundFinish ==
  ASSUME TypeInv, BoundInv, run # None, run.step = "sign",
         NEW signed \in {None, grants[run.code].account}, Finish(signed)
  PROVE  BoundInv'
<1>1. /\ run' = None /\ UNCHANGED <<grants, spent, bound>>
      /\ mail' = mail \/ mail' = Append(mail, signed)
  BY DEF Finish, instances
<1>2. run.code \in spent /\ run.code \in DOMAIN grants
  BY RunTypes DEF BoundInv, RunInv, TypeInv, TypeOK
<1>3. signed # None => Approved(signed)
  BY <1>2 DEF Approved
<1>4. \A a : Approved(a)' <=> Approved(a)
  BY <1>1 DEF Approved
<1>5. mail \in Seq(Accounts \cup {None}) /\ signed \in Accounts \cup {None}
  BY RunTypes DEF TypeInv, TypeOK
<1>6. ASSUME NEW i \in DOMAIN mail', mail'[i] # None PROVE Approved(mail'[i])
  <2>1. CASE mail' = mail
    BY <1>6, <2>1 DEF BoundInv, BoundWasApproved, MailInv
  <2>2. CASE mail' = Append(mail, signed)
    <3>1. (i \in DOMAIN mail /\ mail'[i] = mail[i]) \/ mail'[i] = signed
      BY <1>5, <2>2
    <3> QED  BY <1>3, <1>6, <3>1 DEF BoundInv, BoundWasApproved, MailInv
  <2> QED  BY <1>1, <2>1, <2>2
<1>7. MailInv'
  BY <1>4, <1>6 DEF MailInv
<1>8. bound' # None => Approved(bound)'
  BY <1>1, <1>4 DEF BoundInv, BoundWasApproved
<1> QED  BY <1>1, <1>7, <1>8 DEF BoundInv, RunInv, BoundWasApproved

LEMMA BoundMessage == ASSUME TypeInv, BoundInv, HandleLoginMessage PROVE BoundInv'
<1>1. /\ mail # <<>> /\ mail' = Tail(mail) /\ UNCHANGED <<run, grants, spent>>
      /\ bound' = bound \/ (bound' = Head(mail) /\ Head(mail) # None)
  BY DEF HandleLoginMessage, popup, instances
<1>2. mail \in Seq(Accounts \cup {None})
  BY DEF TypeInv, TypeOK
<1>3. /\ 1 \in DOMAIN mail /\ Head(mail) = mail[1]
      /\ \A i \in DOMAIN mail' : i + 1 \in DOMAIN mail /\ mail'[i] = mail[i + 1]
  BY <1>1, <1>2
<1>4. \A a : Approved(a)' <=> Approved(a)
  BY <1>1 DEF Approved
<1>5. MailInv'
  BY <1>3, <1>4 DEF BoundInv, BoundWasApproved, MailInv
<1>6. bound' # None => Approved(bound)'
  BY <1>1, <1>3, <1>4 DEF BoundInv, BoundWasApproved, MailInv
<1>7. RunInv'
  BY <1>1 DEF BoundInv, RunInv
<1> QED  BY <1>5, <1>6, <1>7 DEF BoundInv, BoundWasApproved

LEMMA BoundStep == ASSUME TypeInv, BoundInv, [Next]_vars PROVE BoundInv'
<1>1. CASE OpenLoginPopup
  BY <1>1, BoundPage DEF OpenLoginPopup, LoadForm, ShowForm, instances
<1>2. CASE NativeSubmit \/ Refuse \/ ClosePopup
  BY <1>2, BoundPage, LoadedRun DEF NativeSubmit, Refuse, ClosePopup, instances, tab
<1>3. CASE Arrive
  BY <1>3, BoundPage, LoadedRun DEF Arrive, instances, tab
<1>4. ASSUME NEW u, Load(u) PROVE run' = None \/ run'.step = "exchange"
  BY <1>4, LoadedRun DEF Load
<1>5. CASE Reload \/ Back
  BY <1>4, <1>5, BoundPage DEF Reload, Back, ShowForm, instances, tab
<1>6. ASSUME NEW i \in Instances, Submit(i) \/ Registered(i) \/ RegisterFails(i) PROVE BoundInv'
  BY <1>6, BoundPage DEF Submit, Registered, RegisterFails, instances, tab
<1>7. ASSUME NEW a \in Accounts, Approve(a) PROVE BoundInv'
  <2>1. grants' = Append(grants, [client |-> url[2], account |-> a])
    BY <1>7 DEF Approve
  <2>2. \A n \in DOMAIN grants : n \in DOMAIN grants' /\ grants'[n] = grants[n]
    BY <2>1 DEF TypeInv, TypeOK
  <2> QED  BY <1>7, <2>2, BoundPage, LoadedRun DEF Approve, tab
<1>8. CASE ExchangeCode
  <2>1. CASE Redeemable /\ spent' = spent \cup {run.code} /\ (Continue("actor", None) \/ Failed)
    BY <1>8, <2>1, BoundContinue, BoundFailed DEF ExchangeCode
  <2>2. CASE Failed /\ UNCHANGED spent
    BY <2>2, BoundFailed
  <2> QED  BY <1>8, <2>1, <2>2 DEF ExchangeCode
<1>9. CASE FetchActor
  <2>1. run # None /\ run.step = "actor" /\ run.code \in spent /\ spent' = spent
    BY <1>9 DEF FetchActor, BoundInv, RunInv
  <2> QED  BY <1>9, <2>1, BoundContinue, BoundFailed DEF FetchActor
<1>10. CASE SignBinding
  BY <1>10, BoundFinish, BoundFailed DEF SignBinding, HandleSign, TokenActor
<1>11. CASE UNCHANGED vars
  BY <1>11, BoundPage DEF vars
<1> QED
  BY <1>1, <1>2, <1>3, <1>5, <1>6, <1>7, <1>8, <1>9, <1>10, <1>11, BoundMessage
     DEF Next, User, Callback

\* Nobody is bound as an account whose approval was not redeemed.
THEOREM OnlyApprovedBound == Spec => []BoundWasApproved
<1>1. Init => BoundInv
  BY DEF Init, BoundInv, RunInv, BoundWasApproved, MailInv
<1>2. TypeInv /\ BoundInv /\ [Next]_vars => BoundInv'
  BY BoundStep
<1>3. BoundInv => BoundWasApproved
  BY DEF BoundInv
<1> QED  BY <1>1, <1>2, <1>3, Typed, PTL DEF Spec

=============================================================================
