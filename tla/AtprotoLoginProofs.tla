------------------------- MODULE AtprotoLoginProofs -------------------------
(***************************************************************************)
(* Proofs about AtprotoLogin: the types, and the three safety invariants   *)
(* of its run, for every value of the constants.                           *)
(***************************************************************************)
EXTENDS AtprotoLogin, TLAPS

-----------------------------------------------------------------------------
(* What the cache's two sweeps do to a table *)

FlowTables == [Logins -> FlowEntries \cup {None}]
ResultTables == [Logins -> ResultEntries \cup {None}]

LEMMA ExpiredFlows ==
  ASSUME flows \in FlowTables
  PROVE  /\ Expired(flows) \in FlowTables
         /\ \A i \in Logins : Expired(flows)[i] \in {flows[i], None}
BY DEF Expired, FlowTables

LEMMA ExpiredResults ==
  ASSUME results \in ResultTables
  PROVE  /\ Expired(results) \in ResultTables
         /\ \A i \in Logins : Expired(results)[i] \in {results[i], None}
BY DEF Expired, ResultTables

LEMMA OlderFlows ==
  ASSUME flows \in FlowTables
  PROVE  /\ Older(flows) \in FlowTables
         /\ \A i \in Logins :
              Older(flows)[i] # None =>
                flows[i] # None /\ Older(flows)[i].flow = flows[i].flow
BY TtlAssumption DEF Older, FlowTables, FlowEntries

LEMMA OlderResults ==
  ASSUME results \in ResultTables
  PROVE  /\ Older(results) \in ResultTables
         /\ \A i \in Logins :
              /\ Older(results)[i] = None <=> results[i] = None
              /\ results[i] # None =>
                   /\ Older(results)[i].signed = results[i].signed
                   /\ Older(results)[i].age <= results[i].age + 1
BY TtlAssumption, NoEntryAssumption DEF Older, ResultTables, ResultEntries

-----------------------------------------------------------------------------
(* Types.  A popup that is past its form has a flow, and no approval before *)
(* the redirect.                                                            *)

PopupInv ==
  \A i \in Logins :
    /\ i > opened => page[i] = "none" /\ user[i] = None
    /\ page[i] \in {"form", "starting", "authorize"} => user[i] = None
    /\ page[i] \in {"starting", "authorize"} => flowOf[i] \in FlowIds
    /\ user[i] # None => flowOf[i] \in FlowIds /\ granted[flowOf[i]] = user[i]

TypeInv == TypeOK /\ PopupInv

\* A poll that is on has a round to go.
PollInv == \A i \in Logins : poll[i].state # "off" => poll[i].left > 0

LEMMA TypeInit == Init => TypeInv
BY TtlAssumption, BoundsAssumption, NoneAssumption
   DEF Init, TypeInv, TypeOK, PopupInv, Logins, FlowIds, Off, Polls, Pages

LEMMA PollTypes ==
  /\ Off \in Polls
  /\ \A n \in 0..Rounds : Asleep(n) \in Polls
BY TtlAssumption DEF Off, Asleep, Polls

LEMMA TypeOpenPopup == ASSUME TypeInv, OpenPopup PROVE TypeInv'
<1>1. opened \in 0..MaxLogins /\ opened + 1 \in Logins
  BY BoundsAssumption DEF TypeInv, TypeOK, OpenPopup, Logins
<1>2. /\ opened' \in 0..MaxLogins
      /\ page' \in [Logins -> Pages]
  BY <1>1, BoundsAssumption DEF TypeInv, TypeOK, OpenPopup, Pages, Logins
<1>3. poll' \in [Logins -> Polls]
  <2>1. Asleep(Rounds) \in Polls  BY PollTypes, TtlAssumption
  <2> QED  BY <2>1, <1>1 DEF TypeInv, TypeOK, OpenPopup
<1>4. TypeOK'
  BY <1>2, <1>3 DEF TypeInv, TypeOK, OpenPopup, relayVars, history
<1>5. PopupInv'
  BY <1>1 DEF TypeInv, TypeOK, PopupInv, OpenPopup, relayVars, history, Logins
<1> QED  BY <1>4, <1>5 DEF TypeInv

LEMMA TypeSubmit ==
  ASSUME TypeInv, NEW i \in Logins, NEW a \in Accounts, Submit(i, a)
  PROVE  TypeInv'
<1>1. PICK f \in FlowIds :
        /\ asked' = [asked EXCEPT ![f] = a]
        /\ flowOf' = [flowOf EXCEPT ![i] = f]
        /\ starts' = starts \cup {[login |-> i, flow |-> f]}
  BY DEF Submit
<1>2. /\ asked' \in [FlowIds -> Accounts \cup {None}]
      /\ flowOf' \in [Logins -> FlowIds \cup {None}]
      /\ starts' \subseteq Starts
  BY <1>1 DEF TypeInv, TypeOK, Starts
<1>3. page' \in [Logins -> Pages]
  BY DEF TypeInv, TypeOK, Submit, Pages
<1>4. TypeOK'
  BY <1>2, <1>3 DEF TypeInv, TypeOK, Submit, tabVars, history
<1>5. PopupInv'
  BY <1>1 DEF TypeInv, TypeOK, PopupInv, Submit, history, Logins
<1> QED  BY <1>4, <1>5 DEF TypeInv

LEMMA TypeApprove ==
  ASSUME TypeInv, NEW i \in Logins, NEW u \in Accounts, Approve(i, u)
  PROVE  TypeInv'
<1>1. flowOf[i] \in FlowIds
  BY DEF TypeInv, PopupInv, Approve
<1>2. /\ page' \in [Logins -> Pages]
      /\ user' \in [Logins -> Accounts \cup {None}]
      /\ granted' \in [FlowIds -> Accounts \cup {None}]
  BY <1>1 DEF TypeInv, TypeOK, Approve, Pages
<1>3. /\ 1 \in 1..MaxTries
      /\ try' \in [Logins -> 0..MaxTries]
  BY BoundsAssumption DEF TypeInv, TypeOK, Approve
<1>4. callbacks' \subseteq Callbacks
  BY <1>1, <1>3 DEF TypeInv, TypeOK, Approve, Callbacks
<1>5. TypeOK'
  BY <1>2, <1>3, <1>4 DEF TypeInv, TypeOK, Approve, tabVars
<1>6. PopupInv'
  BY <1>1, NoneAssumption DEF TypeInv, TypeOK, PopupInv, Approve, Logins
<1> QED  BY <1>5, <1>6 DEF TypeInv

LEMMA TypeCallbackAgain ==
  ASSUME TypeInv, NEW i \in Logins, CallbackAgain(i)
  PROVE  TypeInv'
<1>1. flowOf[i] \in FlowIds /\ user[i] \in Accounts
  BY DEF TypeInv, TypeOK, PopupInv, CallbackAgain
<1>2. try[i] + 1 \in 1..MaxTries
  BY BoundsAssumption DEF TypeInv, TypeOK, CallbackAgain
<1>3. /\ page' \in [Logins -> Pages]
      /\ try' \in [Logins -> 0..MaxTries]
  BY <1>2, BoundsAssumption DEF TypeInv, TypeOK, CallbackAgain, Pages
<1>4. callbacks' \subseteq Callbacks
  BY <1>1, <1>2 DEF TypeInv, TypeOK, CallbackAgain, Callbacks
<1>5. TypeOK'
  BY <1>3, <1>4 DEF TypeInv, TypeOK, CallbackAgain, tabVars, history
<1>6. PopupInv'
  BY DEF TypeInv, TypeOK, PopupInv, CallbackAgain, history, Logins
<1> QED  BY <1>5, <1>6 DEF TypeInv

LEMMA TypePopup ==
  ASSUME TypeInv, NEW i \in Logins, Refuse(i) \/ GoBack(i) \/ ClosePopup(i)
  PROVE  TypeInv'
<1>1. TypeOK'
  BY DEF TypeInv, TypeOK, Refuse, GoBack, ClosePopup, Pages, relayVars, tabVars, history
<1>2. PopupInv'
  BY DEF TypeInv, TypeOK, PopupInv, Refuse, GoBack, ClosePopup, history, Logins
<1> QED  BY <1>1, <1>2 DEF TypeInv


\* Answers and sweeps.
LEMMA TypeAnswer ==
  ASSUME TypeInv, NEW c \in Callbacks, NEW p \in {"failed", "result"}, Answer(c, p),
         UNCHANGED <<opened, user, flowOf, granted>>
  PROVE  page' \in [Logins -> Pages] /\ PopupInv'
BY DEF TypeInv, TypeOK, PopupInv, Answer, Pages, Callbacks, Logins

LEMMA SamePopups ==
  ASSUME TypeInv, UNCHANGED <<opened, page, user, flowOf, granted>>
  PROVE  page' \in [Logins -> Pages] /\ PopupInv'
BY DEF TypeInv, TypeOK, PopupInv

LEMMA Tables ==
  ASSUME TypeInv
  PROVE  /\ flows \in FlowTables /\ results \in ResultTables
         /\ Expired(flows) \in FlowTables /\ Expired(results) \in ResultTables
<1>1. flows \in FlowTables /\ results \in ResultTables
  BY DEF TypeInv, TypeOK, FlowTables, ResultTables
<1> QED  BY <1>1, ExpiredFlows, ExpiredResults

LEMMA TypeFinishStart ==
  ASSUME TypeInv, NEW s \in starts, FinishStart(s)
  PROVE  TypeInv'
<1>1. s \in Starts /\ s.login \in Logins /\ s.flow \in FlowIds
  BY DEF TypeInv, TypeOK, Starts
<1>2. [flow |-> s.flow, age |-> 0] \in FlowEntries
  BY <1>1, TtlAssumption DEF FlowEntries
<1>3. flows' \in FlowTables /\ results' \in ResultTables
  <2>1. flows' = [Expired(flows) EXCEPT ![s.login] = [flow |-> s.flow, age |-> 0]]
    BY DEF FinishStart
  <2>2. results' = Expired(results)  BY DEF FinishStart
  <2> QED  BY <1>1, <1>2, <2>1, <2>2, Tables DEF FlowTables
<1>4. page' \in [Logins -> Pages] /\ severed' \in [Logins -> BOOLEAN]
  BY <1>1 DEF TypeInv, TypeOK, FinishStart, Pages
<1>5. TypeOK'
  BY <1>3, <1>4 DEF TypeInv, TypeOK, FinishStart, FlowTables, ResultTables, tabVars, history
<1>6. PopupInv'
  BY <1>1 DEF TypeInv, TypeOK, PopupInv, FinishStart, history, Logins
<1> QED  BY <1>5, <1>6 DEF TypeInv

LEMMA TypeFailStart ==
  ASSUME TypeInv, NEW s \in starts, FailStart(s)
  PROVE  TypeInv'
<1>1. s.login \in Logins
  BY DEF TypeInv, TypeOK, Starts
<1>2. TypeOK'
  BY <1>1 DEF TypeInv, TypeOK, FailStart, Pages, tabVars, history
<1>3. PopupInv'
  BY <1>1 DEF TypeInv, TypeOK, PopupInv, FailStart, history, Logins
<1> QED  BY <1>2, <1>3 DEF TypeInv

\* The flow a callback takes is one of the relay's.
LEMMA TypeCallback ==
  ASSUME TypeInv, NEW c \in callbacks, Callback(c)
  PROVE  TypeInv'
<1>1. c \in Callbacks /\ c.login \in Logins
  BY DEF TypeInv, TypeOK, Callbacks
<1>2. flows' \in FlowTables /\ results' \in ResultTables
  BY Tables DEF Callback, FlowTables
<1>3. PICK e : e = Expired(flows)[c.login]  OBVIOUS
<1>4. e \in FlowEntries \cup {None}
  BY <1>1, <1>3, Tables DEF FlowTables
<1>5. /\ exchanging' \subseteq Exchanges
      /\ exchanges' \in [FlowIds -> Nat]
      /\ page' \in [Logins -> Pages] /\ PopupInv'
  <2>1. CASE e = None
    <3>1. Answer(c, "failed") /\ UNCHANGED <<exchanging, exchanges>>
      BY <1>3, <2>1 DEF Callback
    <3>2. UNCHANGED <<opened, user, flowOf, granted>>
      BY DEF Callback
    <3>3. page' \in [Logins -> Pages] /\ PopupInv'
      BY <1>1, <3>1, <3>2, TypeAnswer
    <3> QED  BY <3>1, <3>3 DEF TypeInv, TypeOK
  <2>2. CASE e # None
    <3>1. e.flow \in FlowIds  BY <1>4, <2>2 DEF FlowEntries
    <3>2. /\ exchanging' = exchanging \cup {[callback |-> c, taken |-> e.flow, attempt |-> 0]}
          /\ exchanges' = [exchanges EXCEPT ![e.flow] = @ + 1]
          /\ UNCHANGED <<opened, page, user, flowOf, granted>>
      BY <1>3, <2>2 DEF Callback
    <3>3. [callback |-> c, taken |-> e.flow, attempt |-> 0] \in Exchanges
      BY <1>1, <3>1 DEF Exchanges
    <3>4. exchanging' \subseteq Exchanges
      BY <3>2, <3>3 DEF TypeInv, TypeOK
    <3>5. exchanges' \in [FlowIds -> Nat]
      BY <3>1, <3>2 DEF TypeInv, TypeOK
    <3>6. page' \in [Logins -> Pages] /\ PopupInv'
      BY <3>2, SamePopups
    <3> QED  BY <3>4, <3>5, <3>6
  <2> QED  BY <2>1, <2>2
<1>6. TypeOK'
  BY <1>2, <1>5 DEF TypeInv, TypeOK, Callback, FlowTables, ResultTables, tabVars
<1> QED  BY <1>5, <1>6 DEF TypeInv

LEMMA TypeChallenge ==
  ASSUME TypeInv, NEW x \in exchanging, Challenge(x)
  PROVE  TypeInv'
<1>1. x \in Exchanges /\ [x EXCEPT !.attempt = 1] \in Exchanges
  BY DEF TypeInv, TypeOK, Exchanges
<1>2. exchanging' \subseteq Exchanges
  BY <1>1 DEF TypeInv, TypeOK, Challenge
<1>3. TypeOK'
  BY <1>2 DEF TypeInv, TypeOK, Challenge, popupVars, tabVars, history
<1> QED  BY <1>3, SamePopups DEF TypeInv, Challenge, popupVars, history


\* What the relay signs for an exchange, if anything.
SignedFor(x) == [login |-> x.callback.login, flow |-> x.taken, account |-> asked[x.taken]]

LEMMA ExchangeCases ==
  ASSUME TypeInv, NEW x \in exchanging, Exchange(x)
  PROVE  /\ x \in Exchanges /\ x.callback \in Callbacks
         /\ x.callback.login \in Logins /\ x.taken \in FlowIds
         /\ \/ /\ x.callback.flow = x.taken /\ x.callback.user = asked[x.taken]
               /\ SignedFor(x) \in Signed
               /\ flows' = Expired(flows)
               /\ results' = [Expired(results) EXCEPT ![x.callback.login] =
                                [signed |-> SignedFor(x), age |-> 0]]
               /\ signedAge' = [signedAge EXCEPT ![x.callback.login] =
                                  IF @ = None THEN 0 ELSE @]
               /\ Answer(x.callback, "result")
            \/ UNCHANGED <<flows, results, signedAge>> /\ Answer(x.callback, "failed")
         /\ redeemed' \subseteq FlowIds
<1>1. /\ x \in Exchanges /\ x.callback \in Callbacks
      /\ x.callback.login \in Logins /\ x.taken \in FlowIds /\ x.callback.user \in Accounts
  BY DEF TypeInv, TypeOK, Exchanges, Callbacks
<1>2. redeemed' \subseteq FlowIds
  BY <1>1 DEF TypeInv, TypeOK, Exchange
<1>3. CASE x.callback.user = asked[x.taken]
  <2>1. SubMatching(x) = asked[x.taken] /\ SubMatching(x) # None
    BY <1>1, <1>3, NoneAssumption DEF SubMatching
  <2>2. SignedFor(x) \in Signed
    BY <1>1, <1>3 DEF SignedFor, Signed
  <2> QED  BY <1>1, <1>2, <1>3, <2>1, <2>2 DEF Exchange, SignedFor
<1>4. CASE x.callback.user # asked[x.taken]
  <2>1. SubMatching(x) = None  BY <1>4 DEF SubMatching
  <2> QED  BY <1>1, <1>2, <2>1 DEF Exchange
<1> QED  BY <1>3, <1>4

LEMMA TypeExchange ==
  ASSUME TypeInv, NEW x \in exchanging, Exchange(x)
  PROVE  TypeInv'
<1>1. x \in Exchanges /\ x.callback \in Callbacks /\ x.callback.login \in Logins
  BY ExchangeCases
<1>2. UNCHANGED <<opened, user, flowOf, granted>>
  BY DEF Exchange
<1>3. /\ page' \in [Logins -> Pages] /\ PopupInv'
  <2>1. Answer(x.callback, "result") \/ Answer(x.callback, "failed")
    BY ExchangeCases
  <2> QED  BY <1>1, <1>2, <2>1, TypeAnswer
<1>4. /\ flows' \in FlowTables /\ results' \in ResultTables
      /\ signedAge' \in [Logins -> 0..FlowTtl \cup {None}]
      /\ redeemed' \subseteq FlowIds
  <2>1. redeemed' \subseteq FlowIds  BY ExchangeCases
  <2>2. CASE UNCHANGED <<flows, results, signedAge>>
    BY <2>1, <2>2, Tables DEF TypeInv, TypeOK
  <2>3. CASE /\ SignedFor(x) \in Signed
             /\ flows' = Expired(flows)
             /\ results' = [Expired(results) EXCEPT ![x.callback.login] =
                              [signed |-> SignedFor(x), age |-> 0]]
             /\ signedAge' = [signedAge EXCEPT ![x.callback.login] =
                                IF @ = None THEN 0 ELSE @]
    <3>1. [signed |-> SignedFor(x), age |-> 0] \in ResultEntries
      BY <2>3, TtlAssumption DEF ResultEntries
    <3>2. results' \in ResultTables
      BY <1>1, <2>3, <3>1, Tables DEF ResultTables
    <3>3. signedAge' \in [Logins -> 0..FlowTtl \cup {None}]
      BY <1>1, <2>3, TtlAssumption DEF TypeInv, TypeOK
    <3> QED  BY <2>1, <2>3, <3>2, <3>3, Tables
  <2> QED  BY <2>2, <2>3, ExchangeCases
<1>5. exchanging' \subseteq Exchanges
  BY DEF TypeInv, TypeOK, Exchange
<1>6. TypeOK'
  BY <1>3, <1>4, <1>5 DEF TypeInv, TypeOK, Exchange, FlowTables, ResultTables, tabVars
<1> QED  BY <1>3, <1>6 DEF TypeInv

LEMMA TypeRestart == ASSUME TypeInv, RelayRestarts PROVE TypeInv'
<1>1. /\ flows' \in [Logins -> FlowEntries \cup {None}]
      /\ results' \in [Logins -> ResultEntries \cup {None}]
      /\ signedAge' \in [Logins -> 0..FlowTtl \cup {None}]
      /\ lost' \subseteq Logins
      /\ starts' \subseteq Starts /\ callbacks' \subseteq Callbacks
      /\ exchanging' \subseteq Exchanges
  BY DEF TypeInv, TypeOK, RelayRestarts
<1>2. restarts' \in 0..MaxRestarts
  BY BoundsAssumption DEF TypeInv, TypeOK, RelayRestarts
<1>3. page' \in [Logins -> Pages]
  BY DEF TypeInv, TypeOK, RelayRestarts, Pages
<1>4. TypeOK'
  BY <1>1, <1>2, <1>3 DEF TypeInv, TypeOK, RelayRestarts, tabVars
<1>5. \A i \in Logins :
        \/ page'[i] = page[i]
        \/ page[i] = "starting" /\ page'[i] = "form"
        \/ page[i] = "callback" /\ page'[i] = "failed"
  BY DEF TypeInv, TypeOK, RelayRestarts
<1>6. PopupInv'
  BY <1>5 DEF TypeInv, PopupInv, RelayRestarts
<1> QED  BY <1>4, <1>6 DEF TypeInv

LEMMA AnsweredType ==
  ASSUME TypeInv, NEW i \in Logins
  PROVE  /\ Answered(i) \in Signed \cup {None}
         /\ Answered(i) # None => results[i] # None /\ Answered(i) = results[i].signed
BY Tables, ExpiredResults DEF Answered, ResultTables, ResultEntries

LEMMA GetResultTypes ==
  ASSUME TypeInv, NEW i \in Logins, GetResult(i)
  PROVE  flows' \in FlowTables /\ results' \in ResultTables /\ refused' \subseteq Logins
BY Tables DEF GetResult, Gc, TypeInv, TypeOK

LEMMA TypeFinalize ==
  ASSUME TypeInv, NEW i \in Logins, Finalize(i)
  PROVE  TypeInv'
<1>1. flows' \in FlowTables /\ results' \in ResultTables /\ refused' \subseteq Logins
  BY GetResultTypes DEF Finalize
<1>2. page' \in [Logins -> Pages] /\ mail' \in Seq(Signed)
  <2>1. page \in [Logins -> Pages] /\ mail \in Seq(Signed)
    BY DEF TypeInv, TypeOK
  <2>2. CASE Answered(i) = None
    BY <2>1, <2>2 DEF Finalize
  <2>3. CASE Answered(i) # None
    <3>1. PICK signed \in Signed : signed = Answered(i)
      BY <2>3, AnsweredType
    <3>2. page' = [page EXCEPT ![i] = "done"]
      BY <2>3 DEF Finalize
    <3>3. mail' \in {mail, Append(mail, signed)}
      BY <2>3, <3>1 DEF Finalize
    <3> QED  BY <2>1, <3>2, <3>3 DEF Pages
  <2> QED  BY <2>2, <2>3
<1>3. TypeOK'
  BY <1>1, <1>2 DEF TypeInv, TypeOK, Finalize, FlowTables, ResultTables
<1>4. PopupInv'
  BY DEF TypeInv, TypeOK, PopupInv, Finalize, Logins
<1> QED  BY <1>3, <1>4 DEF TypeInv

LEMMA TypeLoginMessage == ASSUME TypeInv, LoginMessage PROVE TypeInv'
<1>1. Head(mail) \in Signed /\ mail' \in Seq(Signed)
  BY DEF TypeInv, TypeOK, LoginMessage
<1>2. bound' \in Signed \cup {None} /\ handled' \subseteq Logins
  BY <1>1 DEF TypeInv, TypeOK, LoginMessage, HandleLogin, Signed
<1>3. TypeOK'
  BY <1>1, <1>2 DEF TypeInv, TypeOK, LoginMessage, popupVars, relayVars, history
<1> QED  BY <1>3, SamePopups DEF TypeInv, LoginMessage, popupVars, history

LEMMA TypePollFetch ==
  ASSUME TypeInv, NEW i \in Logins, PollFetch(i)
  PROVE  TypeInv'
<1>1. flows' \in FlowTables /\ results' \in ResultTables /\ refused' \subseteq Logins
  BY GetResultTypes, Tables DEF TypeInv, TypeOK, PollFetch
<1>2. PICK r \in Signed \cup {None} :
        poll' = [poll EXCEPT ![i].state = "reply", ![i].reply = r]
  BY AnsweredType DEF PollFetch
<1>3. poll' \in [Logins -> Polls]
  <2>1. poll \in [Logins -> Polls]
    BY DEF TypeInv, TypeOK
  <2>2. \A q \in Polls : [q EXCEPT !.state = "reply", !.reply = r] \in Polls
    BY DEF Polls
  <2>3. poll' = [poll EXCEPT ![i] = [poll[i] EXCEPT !.state = "reply", !.reply = r]]
    BY <1>2, <2>1
  <2> QED  BY <2>1, <2>2, <2>3
<1>4. lost' \subseteq Logins
  BY DEF TypeInv, TypeOK, PollFetch
<1>5. TypeOK'
  BY <1>1, <1>3, <1>4 DEF TypeInv, TypeOK, PollFetch, popupVars, FlowTables, ResultTables
<1> QED  BY <1>5, SamePopups DEF TypeInv, PollFetch, popupVars

LEMMA TypePollReply ==
  ASSUME TypeInv, PollInv, NEW i \in Logins, PollReply(i)
  PROVE  TypeInv'
<1>1. poll[i] \in Polls
  BY DEF TypeInv, TypeOK
<1>2. /\ bound' \in Signed \cup {None} /\ handled' \subseteq Logins
      /\ poll' \in [Logins -> Polls]
  <2>1. CASE poll[i].reply = None
    <3>1. poll[i].left \in 1..Rounds
      BY <1>1 DEF PollInv, PollReply, Polls
    <3>2. CASE poll[i].left = 1
      BY <2>1, <3>2, PollTypes DEF TypeInv, TypeOK, PollReply
    <3>3. CASE poll[i].left # 1
      <4>1. /\ poll' = [poll EXCEPT ![i] = Asleep(poll[i].left - 1)]
            /\ UNCHANGED <<bound, handled>>
        BY <2>1, <3>3 DEF PollReply, TypeInv, TypeOK
      <4>2. poll[i].left - 1 \in 0..Rounds
        BY <3>1, <3>3, TtlAssumption
      <4>3. Asleep(poll[i].left - 1) \in Polls
        BY <4>2, PollTypes
      <4> QED  BY <4>1, <4>3 DEF TypeInv, TypeOK
    <3> QED  BY <3>2, <3>3
  <2>2. CASE poll[i].reply # None
    <3>1. poll[i].reply \in Signed
      BY <1>1, <2>2 DEF Polls
    <3>2. poll[i].reply.login \in Logins
      BY <3>1 DEF Signed
    <3>3. /\ bound' = poll[i].reply /\ handled' = handled \cup {poll[i].reply.login}
          /\ poll' = [poll EXCEPT ![i] = Off]
      BY <2>2 DEF PollReply, HandleLogin
    <3>4. handled \subseteq Logins /\ poll \in [Logins -> Polls]
      BY DEF TypeInv, TypeOK
    <3> QED  BY <3>1, <3>2, <3>3, <3>4, PollTypes
  <2> QED  BY <2>1, <2>2
<1>3. TypeOK'
  BY <1>2 DEF TypeInv, TypeOK, PollReply, popupVars, relayVars, history
<1> QED  BY <1>3, SamePopups DEF TypeInv, PollReply, popupVars, history

LEMMA TypeTick == ASSUME TypeInv, Tick PROVE TypeInv'
<1>1. flows' \in FlowTables /\ results' \in ResultTables
  BY Tables, OlderFlows, OlderResults DEF Tick
<1>2. poll' \in [Logins -> Polls]
  <2>1. poll \in [Logins -> Polls]
    BY DEF TypeInv, TypeOK
  <2>2. \A q \in Polls : [q EXCEPT !.state = "due"] \in Polls
    BY DEF Polls
  <2> QED  BY <2>1, <2>2 DEF Tick
<1>3. signedAge' \in [Logins -> 0..FlowTtl \cup {None}]
  BY TtlAssumption DEF TypeInv, TypeOK, Tick
<1>4. TypeOK'
  BY <1>1, <1>2, <1>3 DEF TypeInv, TypeOK, Tick, popupVars, FlowTables, ResultTables
<1> QED  BY <1>4, SamePopups DEF TypeInv, Tick, popupVars


LEMMA TypeStep == ASSUME TypeInv, PollInv, [Next]_vars PROVE TypeInv'
<1>1. CASE UNCHANGED vars
  BY <1>1 DEF TypeInv, TypeOK, PopupInv, vars
<1>2. CASE User
  BY <1>2, TypeOpenPopup, TypeSubmit, TypeApprove, TypeCallbackAgain, TypePopup DEF User
<1>3. CASE Relay
  BY <1>3, TypeFinishStart, TypeFailStart, TypeCallback, TypeChallenge, TypeExchange,
     TypeRestart DEF Relay
<1>4. ASSUME NEW i \in Logins, Finalize(i) \/ PollFetch(i) \/ PollReply(i) PROVE TypeInv'
  BY <1>4, TypeFinalize, TypePollFetch, TypePollReply
<1>5. CASE LoginMessage
  BY <1>5, TypeLoginMessage
<1>6. CASE Tick
  BY <1>6, TypeTick
<1> QED  BY <1>1, <1>2, <1>3, <1>4, <1>5, <1>6 DEF Next

LEMMA PollStep == ASSUME TypeInv, PollInv, [Next]_vars PROVE PollInv'
<1>1. /\ opened \in 0..MaxLogins
      /\ \A i \in Logins : poll[i] \in [left: 0..Rounds, state: {"off", "sleep", "due", "reply"},
                                        reply: Signed \cup {None}]
      /\ DOMAIN poll = Logins
  BY DEF TypeInv, TypeOK, Polls
<1>2. CASE OpenPopup
  BY <1>1, <1>2, TtlAssumption DEF OpenPopup, PollInv, Asleep, Logins
<1>3. ASSUME NEW i \in Logins, PollFetch(i) PROVE PollInv'
  <2>1. PICK r : poll' = [poll EXCEPT ![i].state = "reply", ![i].reply = r]
    BY <1>3 DEF PollFetch
  <2> QED  BY <1>1, <1>3, <2>1 DEF PollInv, PollFetch
<1>4. ASSUME NEW i \in Logins, PollReply(i) PROVE PollInv'
  BY <1>1, <1>4 DEF PollReply, PollInv, Asleep, Off
<1>5. CASE Tick
  BY <1>1, <1>5 DEF Tick, PollInv
<1>6. CASE UNCHANGED poll
  BY <1>6 DEF PollInv
<1>7. \/ OpenPopup \/ Tick \/ UNCHANGED poll
      \/ \E i \in Logins : PollFetch(i) \/ PollReply(i)
  BY DEF Next, User, Relay, vars, tabVars, Submit, Approve, CallbackAgain, Refuse, GoBack,
         ClosePopup, FinishStart, FailStart, Callback, Challenge, Exchange, RelayRestarts,
         Finalize, LoginMessage
<1> QED  BY <1>2, <1>3, <1>4, <1>5, <1>6, <1>7

LEMMA Typed == Spec => []TypeInv
<1>1. Init => TypeInv /\ PollInv
  BY TypeInit DEF Init, PollInv, Off
<1>2. TypeInv /\ PollInv /\ [Next]_vars => (TypeInv /\ PollInv)'
  BY TypeStep, PollStep
<1> QED  BY <1>1, <1>2, PTL DEF Spec

\* Every variable keeps to its type, the relay's tables, the polls and the
\* messages included.
THEOREM TypeCorrect == Spec => []TypeOK
<1>1. TypeInv => TypeOK
  BY DEF TypeInv
<1> QED  BY <1>1, Typed, PTL

-----------------------------------------------------------------------------
(* Whose binding it is.  The account that granted a flow travels with its   *)
(* callback to the exchange, where it is compared with the one asked for;   *)
(* neither is ever another one for the same flow.                           *)

TrueTo(r, askedOf, grantedBy) == r.account = askedOf[r.flow] /\ r.account = grantedBy[r.flow]

GrantInv ==
  /\ \A c \in callbacks : granted[c.flow] = c.user
  /\ \A x \in exchanging : granted[x.callback.flow] = x.callback.user

BindingInv ==
  /\ \A i \in Logins : results[i] # None => TrueTo(results[i].signed, asked, granted)
  /\ \A i \in Logins : poll[i].reply # None => TrueTo(poll[i].reply, asked, granted)
  /\ \A k \in DOMAIN mail : TrueTo(mail[k], asked, granted)
  /\ bound # None => TrueTo(bound, asked, granted)

LEMMA FlowsFixed ==
  ASSUME TypeInv, [Next]_vars
  PROVE  \A f \in FlowIds : /\ asked[f] # None => asked'[f] = asked[f]
                            /\ granted[f] # None => granted'[f] = granted[f]
<1>1. ASSUME NEW i \in Logins, NEW a \in Accounts, Submit(i, a) PROVE
        \A f \in FlowIds : /\ asked[f] # None => asked'[f] = asked[f]
                           /\ granted[f] # None => granted'[f] = granted[f]
  BY <1>1 DEF Submit, TypeInv, TypeOK, history
<1>2. ASSUME NEW i \in Logins, NEW a \in Accounts, Approve(i, a) PROVE
        \A f \in FlowIds : /\ asked[f] # None => asked'[f] = asked[f]
                           /\ granted[f] # None => granted'[f] = granted[f]
  BY <1>2 DEF Approve, TypeInv, TypeOK
<1>3. \/ UNCHANGED <<asked, granted>>
      \/ \E i \in Logins, a \in Accounts : Submit(i, a) \/ Approve(i, a)
  BY DEF Next, User, Relay, vars, relayVars, history, OpenPopup, CallbackAgain, Refuse, GoBack,
         ClosePopup, FinishStart, FailStart, Callback, Challenge, Exchange, RelayRestarts,
         Finalize, LoginMessage, PollFetch, PollReply, Tick
<1> QED  BY <1>1, <1>2, <1>3

LEMMA TrueKept ==
  ASSUME TypeInv, [Next]_vars, NEW r \in Signed, TrueTo(r, asked, granted)
  PROVE  TrueTo(r, asked', granted')
<1>1. r.flow \in FlowIds /\ r.account # None
  BY NoneAssumption DEF Signed
<1> QED  BY <1>1, FlowsFixed DEF TrueTo

LEMMA GrantStep == ASSUME TypeInv, GrantInv, [Next]_vars PROVE GrantInv'
<1>1. /\ \A c \in Callbacks : c.flow \in FlowIds /\ c.user # None
      /\ callbacks \subseteq Callbacks
      /\ \A x \in exchanging : x.callback \in Callbacks
  BY NoneAssumption DEF TypeInv, TypeOK, Callbacks, Exchanges
<1>2. /\ \A c \in callbacks : granted'[c.flow] = c.user
      /\ \A x \in exchanging : granted'[x.callback.flow] = x.callback.user
  BY <1>1, FlowsFixed DEF GrantInv
<1>3. ASSUME NEW c \in callbacks' PROVE granted'[c.flow] = c.user
  <2>1. CASE c \in callbacks
    BY <1>2, <2>1
  <2>2. ASSUME NEW i \in Logins, NEW u \in Accounts, Approve(i, u), c \notin callbacks
        PROVE  granted'[c.flow] = c.user
    <3>1. c.flow = flowOf[i] /\ c.user = u
      BY <2>2 DEF Approve
    <3>2. flowOf[i] \in FlowIds /\ granted' = [granted EXCEPT ![flowOf[i]] = u]
      BY <2>2 DEF Approve, TypeInv, PopupInv
    <3> QED  BY <3>1, <3>2 DEF TypeInv, TypeOK
  <2>3. ASSUME NEW i \in Logins, CallbackAgain(i), c \notin callbacks
        PROVE  granted'[c.flow] = c.user
    <3>1. c.flow = flowOf[i] /\ c.user = user[i]
      BY <2>3 DEF CallbackAgain
    <3>2. granted[flowOf[i]] = user[i] /\ granted' = granted
      BY <2>3 DEF CallbackAgain, TypeInv, PopupInv, history
    <3> QED  BY <3>1, <3>2
  <2>4. \/ callbacks' \subseteq callbacks
        \/ \E i \in Logins : CallbackAgain(i) \/ \E u \in Accounts : Approve(i, u)
    BY DEF Next, User, Relay, vars, relayVars, OpenPopup, Submit, Refuse, GoBack,
           ClosePopup, FinishStart, FailStart, Callback, Challenge, Exchange, RelayRestarts,
           Finalize, LoginMessage, PollFetch, PollReply, Tick
  <2> QED  BY <2>1, <2>2, <2>3, <2>4
<1>4. ASSUME NEW x \in exchanging' PROVE granted'[x.callback.flow] = x.callback.user
  <2>1. CASE x \in exchanging
    BY <1>2, <2>1
  <2>2. ASSUME NEW c \in callbacks, Callback(c), x \notin exchanging
        PROVE  x.callback \in callbacks
    BY <2>2 DEF Callback
  <2>3. ASSUME NEW y \in exchanging, Challenge(y), x \notin exchanging
        PROVE  x.callback = y.callback
    BY <2>3 DEF Challenge, TypeInv, TypeOK, Exchanges
  <2>4. \/ exchanging' \subseteq exchanging
        \/ \E c \in callbacks : Callback(c)
        \/ \E y \in exchanging : Challenge(y)
    BY DEF Next, User, Relay, vars, relayVars, OpenPopup, Submit, Approve, CallbackAgain,
           Refuse, GoBack, ClosePopup, FinishStart, FailStart, Exchange, RelayRestarts,
           Finalize, LoginMessage, PollFetch, PollReply, Tick
  <2> QED  BY <1>2, <2>1, <2>2, <2>3, <2>4
<1> QED  BY <1>3, <1>4 DEF GrantInv

LEMMA ExchangedTrue ==
  ASSUME TypeInv, GrantInv, NEW x \in exchanging, Exchange(x),
         x.callback.flow = x.taken, x.callback.user = asked[x.taken]
  PROVE  TrueTo(SignedFor(x), asked', granted')
<1>1. granted[x.taken] = asked[x.taken]
  BY DEF GrantInv
<1>2. UNCHANGED <<asked, granted>>
  BY DEF Exchange
<1> QED  BY <1>1, <1>2 DEF TrueTo, SignedFor

LEMMA ResultsStep ==
  ASSUME TypeInv, GrantInv, BindingInv, [Next]_vars,
         NEW i \in Logins, results'[i] # None
  PROVE  TrueTo(results'[i].signed, asked', granted')
<1>1. /\ results \in ResultTables /\ Expired(results) \in ResultTables
      /\ \A j \in Logins : Expired(results)[j] \in {results[j], None}
  BY Tables, ExpiredResults
<1>2. ASSUME results[i] # None, results'[i].signed = results[i].signed
      PROVE  TrueTo(results'[i].signed, asked', granted')
  <2>1. results[i].signed \in Signed
    BY <1>1, <1>2 DEF ResultTables, ResultEntries
  <2>2. TrueTo(results[i].signed, asked, granted)
    BY <1>2 DEF BindingInv
  <2>3. PICK r \in Signed : r = results[i].signed
    BY <2>1
  <2>4. TrueTo(r, asked', granted')
    BY <2>2, <2>3, TrueKept
  <2>5. r = results'[i].signed  BY <1>2, <2>3
  <2> QED  BY <2>4, <2>5 DEF TrueTo
<1>3. ASSUME NEW x \in exchanging, Exchange(x) PROVE TrueTo(results'[i].signed, asked', granted')
  <2>1. CASE UNCHANGED results
    BY <1>2, <2>1
  <2>2. CASE /\ x.callback.flow = x.taken /\ x.callback.user = asked[x.taken]
             /\ x.callback.login \in Logins
             /\ results' = [Expired(results) EXCEPT ![x.callback.login] =
                              [signed |-> SignedFor(x), age |-> 0]]
    <3>1. CASE i = x.callback.login
      <4>1. results'[i].signed = SignedFor(x)
        BY <1>1, <2>2, <3>1 DEF ResultTables
      <4>2. TrueTo(SignedFor(x), asked', granted')
        BY <1>3, <2>2, ExchangedTrue
      <4>3. UNCHANGED asked
        BY <1>3 DEF Exchange
      <4> QED  BY <4>1, <4>2, <4>3 DEF TrueTo, SignedFor
    <3>2. CASE i # x.callback.login
      BY <1>1, <1>2, <2>2, <3>2 DEF ResultTables
    <3> QED  BY <3>1, <3>2
  <2> QED  BY <1>3, <2>1, <2>2, ExchangeCases
<1>4. CASE results' = Expired(results)
  BY <1>1, <1>2, <1>4
<1>5. CASE results' = Older(results)
  BY <1>1, <1>2, <1>5, OlderResults
<1>6. CASE UNCHANGED results
  BY <1>2, <1>6
<1>7. \/ UNCHANGED results
      \/ results' = Expired(results)
      \/ results' = Older(results)
      \/ results' = [j \in Logins |-> None]
      \/ \E x \in exchanging : Exchange(x)
  BY DEF Next, User, Relay, vars, relayVars, OpenPopup, Submit, Approve, CallbackAgain,
         Refuse, GoBack, ClosePopup, FinishStart, FailStart, Callback, Challenge,
         RelayRestarts, Finalize, GetResult, Gc, LoginMessage, PollFetch, PollReply, Tick
<1> QED  BY <1>3, <1>4, <1>5, <1>6, <1>7

\* What the relay answers is true to its flow, before and after the step.
LEMMA AnsweredTrue ==
  ASSUME TypeInv, BindingInv, [Next]_vars, NEW i \in Logins, NEW r \in Signed,
         r = Answered(i)
  PROVE  TrueTo(r, asked', granted')
<1>1. results[i] # None /\ r = results[i].signed
  <2>1. CASE Answered(i) # None
    BY <2>1, AnsweredType
  <2>2. CASE Answered(i) = None
    BY <2>2, NoEntryAssumption
  <2> QED  BY <2>1, <2>2
<1>2. TrueTo(r, asked, granted)
  BY <1>1 DEF BindingInv
<1> QED  BY <1>2, TrueKept

LEMMA PollsStep ==
  ASSUME TypeInv, BindingInv, [Next]_vars, NEW i \in Logins, poll'[i].reply # None
  PROVE  TrueTo(poll'[i].reply, asked', granted')
<1>1. poll \in [Logins -> Polls]
  BY DEF TypeInv, TypeOK
<1>2. ASSUME poll'[i].reply = poll[i].reply PROVE TrueTo(poll'[i].reply, asked', granted')
  <2>1. PICK r \in Signed : r = poll[i].reply
    BY <1>1, <1>2 DEF Polls
  <2>2. TrueTo(r, asked', granted')
    BY <1>2, <2>1, TrueKept DEF BindingInv
  <2> QED  BY <1>2, <2>1, <2>2 DEF TrueTo
<1>3. ASSUME NEW j \in Logins, PollFetch(j) PROVE TrueTo(poll'[i].reply, asked', granted')
  <2>1. PICK r \in {Answered(j), None} :
          poll' = [poll EXCEPT ![j].state = "reply", ![j].reply = r]
    BY <1>3 DEF PollFetch
  <2>2. CASE i # j
    BY <1>1, <1>2, <2>1, <2>2
  <2>3. CASE i = j
    <3>1. poll'[i].reply = r
      BY <1>1, <2>1, <2>3 DEF Polls
    <3>2. r = Answered(j) /\ r \in Signed
      BY <2>1, <3>1, AnsweredType
    <3>3. TrueTo(r, asked', granted')
      BY <3>2, AnsweredTrue
    <3> QED  BY <3>1, <3>3 DEF TrueTo
  <2> QED  BY <2>2, <2>3
<1>4. \/ UNCHANGED poll
      \/ poll'[i].reply = None
      \/ poll'[i].reply = poll[i].reply
      \/ \E j \in Logins : PollFetch(j)
  <2>1. CASE OpenPopup
    BY <1>1, <2>1 DEF OpenPopup, Asleep, TypeInv, TypeOK
  <2>2. ASSUME NEW j \in Logins, PollReply(j)
        PROVE  poll'[i].reply = None \/ poll'[i].reply = poll[i].reply
    BY <1>1, <2>2 DEF PollReply, Asleep, Off
  <2>3. CASE Tick
    BY <1>1, <2>3 DEF Tick, Polls
  <2> QED
    BY <2>1, <2>2, <2>3
       DEF Next, User, Relay, vars, tabVars, Submit, Approve, CallbackAgain, Refuse, GoBack,
           ClosePopup, FinishStart, FailStart, Callback, Challenge, Exchange, RelayRestarts,
           Finalize, LoginMessage
<1> QED  BY <1>2, <1>3, <1>4

LEMMA MailStep ==
  ASSUME TypeInv, BindingInv, [Next]_vars, NEW k \in DOMAIN mail'
  PROVE  TrueTo(mail'[k], asked', granted')
<1>1. mail \in Seq(Signed)
  BY DEF TypeInv, TypeOK
<1>2. ASSUME NEW n \in DOMAIN mail, mail'[k] = mail[n] PROVE TrueTo(mail'[k], asked', granted')
  <2>1. PICK r \in Signed : r = mail[n]
    BY <1>1
  <2>2. TrueTo(r, asked', granted')
    BY <2>1, TrueKept DEF BindingInv
  <2> QED  BY <1>2, <2>1, <2>2 DEF TrueTo
<1>3. ASSUME NEW i \in Logins, Finalize(i) PROVE TrueTo(mail'[k], asked', granted')
  <2>1. CASE UNCHANGED mail
    BY <1>2, <2>1
  <2>2. CASE ~UNCHANGED mail
    <3>1. Answered(i) # None /\ mail' = Append(mail, Answered(i))
      BY <1>3, <2>2 DEF Finalize
    <3>2. PICK r \in Signed : r = Answered(i)
      BY <3>1, AnsweredType
    <3>3. (k \in DOMAIN mail /\ mail'[k] = mail[k]) \/ mail'[k] = r
      BY <1>1, <3>1, <3>2
    <3>4. TrueTo(r, asked', granted')
      BY <3>2, AnsweredTrue
    <3> QED  BY <1>2, <3>3, <3>4 DEF TrueTo
  <2> QED  BY <2>1, <2>2
<1>4. CASE LoginMessage
  <2>1. k + 1 \in DOMAIN mail /\ mail'[k] = mail[k + 1]
    BY <1>1, <1>4 DEF LoginMessage
  <2> QED  BY <1>2, <2>1
<1>5. CASE UNCHANGED mail
  BY <1>2, <1>5
<1>6. UNCHANGED mail \/ LoginMessage \/ \E i \in Logins : Finalize(i)
  BY DEF Next, User, Relay, vars, tabVars, OpenPopup, Submit, Approve, CallbackAgain, Refuse,
         GoBack, ClosePopup, FinishStart, FailStart, Callback, Challenge, Exchange,
         RelayRestarts, PollFetch, PollReply, Tick
<1> QED  BY <1>3, <1>4, <1>5, <1>6

LEMMA BoundStep ==
  ASSUME TypeInv, BindingInv, [Next]_vars, bound' # None
  PROVE  TrueTo(bound', asked', granted')
<1>1. ASSUME NEW r \in Signed, bound' = r, TrueTo(r, asked, granted) PROVE TrueTo(bound', asked', granted')
  <2>1. TrueTo(r, asked', granted')
    BY <1>1, TrueKept
  <2> QED  BY <1>1, <2>1 DEF TrueTo
<1>2. CASE LoginMessage
  <2>1. 1 \in DOMAIN mail /\ mail[1] \in Signed /\ bound' = mail[1]
    BY <1>2 DEF LoginMessage, HandleLogin, TypeInv, TypeOK
  <2> QED  BY <1>1, <2>1 DEF BindingInv
<1>3. ASSUME NEW i \in Logins, PollReply(i), ~UNCHANGED bound PROVE TrueTo(bound', asked', granted')
  <2>1. poll[i].reply # None /\ bound' = poll[i].reply
    BY <1>3 DEF PollReply, HandleLogin
  <2>2. poll[i].reply \in Signed
    BY <2>1 DEF TypeInv, TypeOK, Polls
  <2> QED  BY <1>1, <2>1, <2>2 DEF BindingInv
<1>4. CASE UNCHANGED bound
  BY <1>1, <1>4 DEF BindingInv, TypeInv, TypeOK
<1>5. UNCHANGED bound \/ LoginMessage \/ \E i \in Logins : PollReply(i)
  BY DEF Next, User, Relay, vars, tabVars, OpenPopup, Submit, Approve, CallbackAgain, Refuse,
         GoBack, ClosePopup, FinishStart, FailStart, Callback, Challenge, Exchange,
         RelayRestarts, Finalize, PollFetch, Tick
<1> QED  BY <1>2, <1>3, <1>4, <1>5

\* Whatever the relay has signed, and whatever the tab has been told, names the
\* account whose handle was typed for its flow, which is the account that
\* granted it: handle_callback compares the token's subject with the flow's.
THEOREM OwnAccount == Spec => []SignedAsGranted
<1>1. Init => GrantInv /\ BindingInv
  BY DEF Init, GrantInv, BindingInv, Off
<1>2. TypeInv /\ GrantInv /\ BindingInv /\ [Next]_vars => (GrantInv /\ BindingInv)'
  <2> SUFFICES ASSUME TypeInv, GrantInv, BindingInv, [Next]_vars
               PROVE  (GrantInv /\ BindingInv)'
    OBVIOUS
  <2>1. GrantInv'
    BY GrantStep
  <2>2. BindingInv'
    BY ResultsStep, PollsStep, MailStep, BoundStep DEF BindingInv
  <2> QED  BY <2>1, <2>2
<1>3. BindingInv => SignedAsGranted
  BY DEF BindingInv, SignedAsGranted, TrueTo
<1> QED  BY <1>1, <1>2, <1>3, Typed, PTL DEF Spec

-----------------------------------------------------------------------------
(* One exchange for a flow.  A flow is in one place: in a start request,    *)
(* in the cache under one login, or taken to the token endpoint; a new one  *)
(* is in none.                                                              *)

Keeps(i, f) == flows[i] # None /\ flows[i].flow = f

OnceInv ==
  /\ \A s, t \in starts : s.flow = t.flow => s = t
  /\ \A i, j \in Logins, f \in FlowIds : Keeps(i, f) /\ Keeps(j, f) => i = j
  /\ \A s \in starts, i \in Logins : ~Keeps(i, s.flow) /\ asked[s.flow] # None
  /\ \A s \in starts : exchanges[s.flow] = 0
  /\ \A i \in Logins, f \in FlowIds : Keeps(i, f) => exchanges[f] = 0 /\ asked[f] # None
  /\ \A f \in FlowIds : asked[f] = None => exchanges[f] = 0
  /\ \A f \in FlowIds : exchanges[f] <= 1

\* Nothing new is kept, started or exchanged.
LEMMA OnceShrinks ==
  ASSUME TypeInv, OnceInv, starts' \subseteq starts, UNCHANGED <<asked, exchanges>>,
         \A i \in Logins : flows'[i] # None => flows[i] # None /\ flows'[i].flow = flows[i].flow
  PROVE  OnceInv'
BY DEF OnceInv, Keeps

LEMMA OnceSubmit ==
  ASSUME TypeInv, OnceInv, NEW i \in Logins, NEW a \in Accounts, Submit(i, a)
  PROVE  OnceInv'
<1>1. PICK f \in FlowIds :
        /\ asked[f] = None
        /\ asked' = [asked EXCEPT ![f] = a]
        /\ starts' = starts \cup {[login |-> i, flow |-> f]}
  BY DEF Submit
<1>2. \A g \in FlowIds : asked[g] # None => asked'[g] = asked[g]
  BY <1>1 DEF TypeInv, TypeOK
<1>3. asked'[f] # None /\ \A g \in FlowIds : asked'[g] = None => asked[g] = None
  BY <1>1, NoneAssumption DEF TypeInv, TypeOK
<1>4. UNCHANGED <<flows, exchanges>>
  BY DEF Submit, history
<1>5. \A s \in starts : s.flow \in FlowIds /\ s.flow # f
  BY <1>1 DEF OnceInv, TypeInv, TypeOK, Starts
<1>6. \A j \in Logins : ~Keeps(j, f)
  BY <1>1 DEF OnceInv
<1>7. exchanges[f] = 0
  BY <1>1 DEF OnceInv
<1> QED  BY <1>1, <1>2, <1>3, <1>4, <1>5, <1>6, <1>7 DEF OnceInv, Keeps

LEMMA OnceFinishStart ==
  ASSUME TypeInv, OnceInv, NEW s \in starts, FinishStart(s)
  PROVE  OnceInv'
<1>1. s.login \in Logins /\ s.flow \in FlowIds
  BY DEF TypeInv, TypeOK, Starts
<1>2. /\ starts' = starts \ {s}
      /\ flows' = [Expired(flows) EXCEPT ![s.login] = [flow |-> s.flow, age |-> 0]]
      /\ UNCHANGED <<asked, exchanges>>
  BY DEF FinishStart, history
<1>3. \A i \in Logins, f \in FlowIds : Keeps(i, f)' =>
        (i = s.login /\ f = s.flow) \/ Keeps(i, f)
  <2>1. /\ Expired(flows) \in FlowTables
        /\ \A i \in Logins : Expired(flows)[i] \in {flows[i], None}
    BY Tables, ExpiredFlows
  <2> QED  BY <1>1, <1>2, <2>1 DEF Keeps, FlowTables
<1>4. \A t \in starts' : t \in starts /\ t.flow # s.flow
  BY <1>2 DEF OnceInv
<1>5. \A t \in starts : t.flow \in FlowIds
  BY DEF TypeInv, TypeOK, Starts
<1>6. \A i \in Logins : ~Keeps(i, s.flow)
  BY DEF OnceInv
<1>7. exchanges[s.flow] = 0 /\ asked[s.flow] # None
  BY <1>1 DEF OnceInv
<1>8. /\ \A t, u \in starts' : t.flow = u.flow => t = u
      /\ \A t \in starts' : exchanges'[t.flow] = 0
      /\ \A f \in FlowIds : asked'[f] = None => exchanges'[f] = 0
      /\ \A f \in FlowIds : exchanges'[f] <= 1
  BY <1>2, <1>4 DEF OnceInv
<1>9. \A i, j \in Logins, f \in FlowIds : Keeps(i, f)' /\ Keeps(j, f)' => i = j
  BY <1>3, <1>6 DEF OnceInv
<1>10. \A t \in starts', i \in Logins : ~Keeps(i, t.flow)' /\ asked'[t.flow] # None
  <2>1. \A t \in starts', i \in Logins : ~Keeps(i, t.flow) /\ asked[t.flow] # None
    BY <1>4 DEF OnceInv
  <2>2. \A t \in starts', i \in Logins : ~Keeps(i, t.flow)'
    BY <1>3, <1>4, <1>5, <2>1
  <2> QED  BY <1>2, <2>1, <2>2
<1>11. \A i \in Logins, f \in FlowIds : Keeps(i, f)' => exchanges'[f] = 0 /\ asked'[f] # None
  BY <1>2, <1>3, <1>7 DEF OnceInv
<1> QED  BY <1>8, <1>9, <1>10, <1>11 DEF OnceInv, Keeps

LEMMA OnceCallback ==
  ASSUME TypeInv, OnceInv, NEW c \in callbacks, Callback(c)
  PROVE  OnceInv'
<1>1. c.login \in Logins
  BY DEF TypeInv, TypeOK, Callbacks
<1>2. /\ Expired(flows) \in FlowTables
      /\ \A i \in Logins : Expired(flows)[i] \in {flows[i], None}
  BY Tables, ExpiredFlows
<1>3. /\ flows' = [Expired(flows) EXCEPT ![c.login] = None]
      /\ UNCHANGED <<starts, asked>>
  BY DEF Callback
<1>4. \A i \in Logins :
        flows'[i] # None => /\ flows[i] # None /\ flows'[i].flow = flows[i].flow
                            /\ i # c.login
  BY <1>1, <1>2, <1>3 DEF FlowTables
<1>5. PICK e \in FlowEntries \cup {None} : e = Expired(flows)[c.login]
  BY <1>1, <1>2 DEF FlowTables
<1>6. CASE e = None
  <2>1. UNCHANGED exchanges
    BY <1>5, <1>6 DEF Callback
  <2> QED  BY <1>3, <1>4, <2>1, OnceShrinks
<1>7. CASE e # None
  <2>1. /\ e.flow \in FlowIds
        /\ exchanges' = [exchanges EXCEPT ![e.flow] = @ + 1]
    BY <1>5, <1>7 DEF Callback, FlowEntries
  <2>2. Keeps(c.login, e.flow)
    BY <1>1, <1>2, <1>5, <1>7 DEF Keeps
  <2>3. exchanges[e.flow] = 0 /\ asked[e.flow] # None
    BY <1>1, <2>1, <2>2 DEF OnceInv
  <2>4. /\ exchanges'[e.flow] = 1
        /\ \A f \in FlowIds : f # e.flow => exchanges'[f] = exchanges[f]
    BY <2>1, <2>3 DEF TypeInv, TypeOK
  <2>5. \A i \in Logins, f \in FlowIds : Keeps(i, f)' => Keeps(i, f) /\ i # c.login
    BY <1>4 DEF Keeps
  <2>6. \A i \in Logins, f \in FlowIds : Keeps(i, f)' => f # e.flow
    BY <1>1, <2>1, <2>2, <2>5 DEF OnceInv
  <2>7. \A s \in starts : s.flow \in FlowIds /\ s.flow # e.flow
    BY <1>1, <2>2 DEF OnceInv, TypeInv, TypeOK, Starts
  <2>8. \A s \in starts, i \in Logins : ~Keeps(i, s.flow)'
    BY <2>5, <2>7 DEF OnceInv
  <2>9. /\ \A f \in FlowIds : asked'[f] = None => exchanges'[f] = 0
        /\ \A f \in FlowIds : exchanges'[f] <= 1
        /\ \A s \in starts' : exchanges'[s.flow] = 0
    BY <1>3, <2>3, <2>4, <2>7 DEF OnceInv
  <2>10. \A i \in Logins, f \in FlowIds : Keeps(i, f)' => exchanges'[f] = 0 /\ asked'[f] # None
    BY <1>3, <2>4, <2>5, <2>6 DEF OnceInv
  <2>11. \A i, j \in Logins, f \in FlowIds : Keeps(i, f)' /\ Keeps(j, f)' => i = j
    BY <2>5 DEF OnceInv
  <2>12. /\ \A s, t \in starts' : s.flow = t.flow => s = t
         /\ \A s \in starts', i \in Logins : ~Keeps(i, s.flow)' /\ asked'[s.flow] # None
    BY <1>3, <2>8 DEF OnceInv
  <2> QED  BY <2>9, <2>10, <2>11, <2>12 DEF OnceInv, Keeps
<1> QED  BY <1>6, <1>7

LEMMA OnceStep == ASSUME TypeInv, OnceInv, [Next]_vars PROVE OnceInv'
<1>1. /\ \A i \in Logins : Expired(flows)[i] \in {flows[i], None}
      /\ \A i \in Logins :
           Older(flows)[i] # None => flows[i] # None /\ Older(flows)[i].flow = flows[i].flow
  BY Tables, ExpiredFlows, OlderFlows
<1>2. ASSUME NEW x \in exchanging, Exchange(x) PROVE OnceInv'
  <2>1. UNCHANGED flows \/ flows' = Expired(flows)
    BY <1>2, ExchangeCases
  <2>2. UNCHANGED <<starts, asked, exchanges>>
    BY <1>2 DEF Exchange
  <2> QED  BY <1>1, <2>1, <2>2, OnceShrinks
<1>3. CASE RelayRestarts
  <2>1. \A i \in Logins : flows'[i] = None
    BY <1>3 DEF RelayRestarts
  <2>2. starts' \subseteq starts /\ UNCHANGED <<asked, exchanges>>
    BY <1>3 DEF RelayRestarts
  <2> QED  BY <2>1, <2>2, OnceShrinks
<1>4. CASE /\ starts' \subseteq starts /\ UNCHANGED <<asked, exchanges>>
           /\ flows' \in {flows, Expired(flows), Older(flows)}
  BY <1>1, <1>4, OnceShrinks
<1>5. \/ /\ starts' \subseteq starts /\ UNCHANGED <<asked, exchanges>>
         /\ flows' \in {flows, Expired(flows), Older(flows)}
      \/ RelayRestarts
      \/ \E x \in exchanging : Exchange(x)
      \/ \E c \in callbacks : Callback(c)
      \/ \E s \in starts : FinishStart(s)
      \/ \E i \in Logins, a \in Accounts : Submit(i, a)
  BY DEF Next, User, Relay, vars, relayVars, history, OpenPopup, Approve, CallbackAgain,
         Refuse, GoBack, ClosePopup, FailStart, Challenge,
         Finalize, GetResult, Gc, LoginMessage, PollFetch, PollReply, Tick
<1> QED  BY <1>2, <1>3, <1>4, <1>5, OnceCallback, OnceFinishStart, OnceSubmit

\* One callback at most takes a flow to the token endpoint, through repeated
\* callbacks, a login started again and restarts of the relay: take_flow
\* removes what it returns.
THEOREM OneExchange == Spec => []ExchangedOnce
<1>1. Init => OnceInv
  BY DEF Init, OnceInv, Keeps
<1>2. TypeInv /\ OnceInv /\ [Next]_vars => OnceInv'
  BY OnceStep
<1>3. OnceInv => ExchangedOnce
  BY DEF OnceInv, ExchangedOnce
<1> QED  BY <1>1, <1>2, <1>3, Typed, PTL DEF Spec

-----------------------------------------------------------------------------
(* Results within their TTL.  While a login's first result is younger than  *)
(* the TTL the table has one for it, no older than that.                    *)

Young(i) == signedAge[i] # None /\ signedAge[i] < FlowTtl

AgeInv == \A i \in Logins :
            Young(i) => results[i] # None /\ results[i].age <= signedAge[i]

LEMMA YoungAnswered ==
  ASSUME TypeInv, AgeInv, NEW i \in Logins, Young(i)
  PROVE  Expired(results)[i] = results[i] /\ Answered(i) # None
<1>1. results[i] \in ResultEntries /\ results[i].age <= signedAge[i]
  BY DEF AgeInv, TypeInv, TypeOK
<1>2. signedAge[i] \in 0..FlowTtl /\ signedAge[i] < FlowTtl
  BY DEF Young, TypeInv, TypeOK
<1>3. ~(results[i].age >= FlowTtl)
  BY <1>1, <1>2, TtlAssumption DEF ResultEntries
<1>4. Expired(results)[i] = results[i]
  BY <1>3 DEF Expired
<1>5. results[i] # None /\ results[i].signed # None
  BY <1>1, NoEntryAssumption DEF ResultEntries
<1> QED  BY <1>4, <1>5 DEF Answered

LEMMA NotRefused ==
  ASSUME TypeInv, AgeInv, NEW i \in Logins, GetResult(i)
  PROVE  UNCHANGED refused
<1>1. signedAge[i] \in 0..(FlowTtl - 1) => Young(i)
  BY NoneAssumption, TtlAssumption DEF Young
<1> QED  BY <1>1, YoungAnswered DEF GetResult

LEMMA AgeExchange ==
  ASSUME TypeInv, AgeInv, NEW x \in exchanging, Exchange(x)
  PROVE  AgeInv'
<1>1. CASE UNCHANGED <<flows, results, signedAge>>
  BY <1>1 DEF AgeInv, Young
<1>2. CASE /\ SignedFor(x) \in Signed
           /\ results' = [Expired(results) EXCEPT ![x.callback.login] =
                            [signed |-> SignedFor(x), age |-> 0]]
           /\ signedAge' = [signedAge EXCEPT ![x.callback.login] =
                              IF @ = None THEN 0 ELSE @]
  <2> DEFINE l == x.callback.login
  <2>1. l \in Logins
    BY ExchangeCases
  <2>2. [signed |-> SignedFor(x), age |-> 0] \in ResultEntries
    BY <1>2, TtlAssumption DEF ResultEntries
  <2>3. /\ results'[l] # None /\ results'[l].age = 0
        /\ \A i \in Logins : i # l => /\ results'[i] = Expired(results)[i]
                                      /\ signedAge'[i] = signedAge[i]
    BY <1>2, <2>1, <2>2, Tables, NoEntryAssumption DEF ResultTables, TypeInv, TypeOK
  <2>4. signedAge'[l] \in 0..FlowTtl
    BY <1>2, <2>1, TtlAssumption DEF TypeInv, TypeOK
  <2>5. ASSUME NEW i \in Logins, Young(i)'
        PROVE  results'[i] # None /\ results'[i].age <= signedAge'[i]
    <3>1. CASE i = l
      BY <2>3, <2>4, <3>1
    <3>2. CASE i # l
      <4>1. Young(i)
        BY <2>3, <2>5, <3>2 DEF Young
      <4> QED  BY <2>3, <3>2, <4>1, YoungAnswered DEF AgeInv
    <3> QED  BY <3>1, <3>2
  <2> QED  BY <2>5 DEF AgeInv
<1> QED  BY <1>1, <1>2, ExchangeCases

LEMMA AgeTick == ASSUME TypeInv, AgeInv, Tick PROVE AgeInv'
<1> SUFFICES ASSUME NEW i \in Logins, Young(i)'
             PROVE  results'[i] # None /\ results'[i].age <= signedAge'[i]
  BY DEF AgeInv
<1>1. signedAge[i] \in 0..FlowTtl \cup {None}
  BY DEF TypeInv, TypeOK
<1>2. signedAge'[i] = IF signedAge[i] # None /\ signedAge[i] < FlowTtl
                        THEN signedAge[i] + 1 ELSE signedAge[i]
  BY DEF Tick
<1>3. signedAge[i] # None /\ signedAge[i] < FlowTtl /\ signedAge'[i] = signedAge[i] + 1
  BY <1>2 DEF Young
<1>4. results[i] # None /\ results[i].age <= signedAge[i]
  BY <1>3 DEF AgeInv, Young
<1>5. results[i].age \in Nat
  BY <1>4, TtlAssumption DEF TypeInv, TypeOK, ResultEntries
<1>6. /\ results'[i] # None
      /\ results'[i].age <= results[i].age + 1
  BY <1>4, Tables, OlderResults DEF Tick
<1>7. results'[i].age \in Nat
  <2>1. results'[i] \in ResultEntries
    BY <1>6, Tables, OlderResults DEF Tick, ResultTables
  <2> QED  BY <2>1, TtlAssumption DEF ResultEntries
<1>8. signedAge[i] \in Nat
  BY <1>1, <1>3, TtlAssumption
<1> QED  BY <1>3, <1>4, <1>5, <1>6, <1>7, <1>8

LEMMA AgeStep ==
  ASSUME TypeInv, AgeInv, [Next]_vars
  PROVE  AgeInv' /\ UNCHANGED refused
<1>1. ASSUME UNCHANGED signedAge, results' \in {results, Expired(results)} PROVE AgeInv'
  BY <1>1, YoungAnswered DEF AgeInv, Young
<1>2. CASE RelayRestarts
  BY <1>2 DEF RelayRestarts, AgeInv, Young
<1>3. ASSUME NEW i \in Logins, Finalize(i) PROVE AgeInv' /\ UNCHANGED refused
  BY <1>1, <1>3, NotRefused DEF Finalize, GetResult, Gc
<1>4. ASSUME NEW i \in Logins, PollFetch(i) PROVE AgeInv' /\ UNCHANGED refused
  BY <1>1, <1>4, NotRefused DEF PollFetch, GetResult, Gc
<1>5. ASSUME NEW x \in exchanging, Exchange(x) PROVE AgeInv' /\ UNCHANGED refused
  BY <1>5, AgeExchange DEF Exchange
<1>6. CASE Tick
  BY <1>6, AgeTick DEF Tick
<1>7. \/ UNCHANGED <<signedAge, refused>> /\ results' \in {results, Expired(results)}
      \/ RelayRestarts /\ UNCHANGED refused
      \/ Tick
      \/ \E x \in exchanging : Exchange(x)
      \/ \E i \in Logins : Finalize(i) \/ PollFetch(i)
  BY DEF Next, User, Relay, vars, relayVars, history, OpenPopup, Submit, Approve,
         CallbackAgain, Refuse, GoBack, ClosePopup, FinishStart, FailStart, Callback,
         Challenge, RelayRestarts, LoginMessage, PollReply
<1> QED  BY <1>1, <1>2, <1>3, <1>4, <1>5, <1>6, <1>7

\* Nobody who asks within the TTL of a login's first result is told that there
\* is none, however often it was read and whatever else the relay signed: a
\* read leaves the result, a second signing only makes it younger.
THEOREM ResultsStay == Spec => []NeverRefused
<1>1. Init => AgeInv /\ NeverRefused
  BY DEF Init, AgeInv, Young, NeverRefused
<1>2. TypeInv /\ AgeInv /\ NeverRefused /\ [Next]_vars => (AgeInv /\ NeverRefused)'
  BY AgeStep DEF NeverRefused
<1> QED  BY <1>1, <1>2, Typed, PTL DEF Spec

-----------------------------------------------------------------------------
(* What a poll brings.  A table's entry is the login's own, and so is what   *)
(* the poll of a login was answered.                                         *)

OwnInv ==
  /\ \A i \in Logins : results[i] # None => results[i].signed.login = i
  /\ \A i \in Logins : poll[i].reply # None => poll[i].reply.login = i /\ poll[i].state = "reply"
  /\ \A i \in Logins : i > opened => poll[i].state = "off"

\* Once a login is signed, the next round of its poll brings the result, or was
\* lost or too late; and a result that was brought is handled as that login's:
\* no round comes back empty, no answer is taken for another login, no poll
\* stops with a result in its hands.  (get_result, poll_atproto_result,
\* handle_login_message.)  What LoginSurvivesCoop adds is that rounds are made.
SignedIsBrought ==
  [][\A i \in Logins :
       /\ signedAge[i] # None /\ poll[i].state = "due"
            => poll'[i] = poll[i] \/ poll'[i].reply # None \/ i \in lost'
       /\ poll[i].reply # None => poll'[i] = poll[i] \/ i \in handled']_vars

LEMMA OwnResults ==
  ASSUME TypeInv, OwnInv, [Next]_vars, NEW i \in Logins, results'[i] # None
  PROVE  results'[i].signed.login = i
<1>1. /\ results \in ResultTables /\ Expired(results) \in ResultTables
      /\ \A j \in Logins : Expired(results)[j] \in {results[j], None}
  BY Tables, ExpiredResults
<1>2. ASSUME results[i] # None, results'[i].signed = results[i].signed
      PROVE  results'[i].signed.login = i
  BY <1>2 DEF OwnInv
<1>3. ASSUME NEW x \in exchanging, Exchange(x) PROVE results'[i].signed.login = i
  <2>1. CASE UNCHANGED results
    BY <1>2, <2>1
  <2>2. CASE /\ x.callback.login \in Logins
             /\ results' = [Expired(results) EXCEPT ![x.callback.login] =
                              [signed |-> SignedFor(x), age |-> 0]]
    <3>1. CASE i = x.callback.login
      <4>1. results'[i].signed = SignedFor(x)
        BY <1>1, <2>2, <3>1 DEF ResultTables
      <4> QED  BY <3>1, <4>1 DEF SignedFor
    <3>2. CASE i # x.callback.login
      BY <1>1, <1>2, <2>2, <3>2 DEF ResultTables
    <3> QED  BY <3>1, <3>2
  <2> QED  BY <1>3, <2>1, <2>2, ExchangeCases
<1>4. CASE results' = Expired(results)
  BY <1>1, <1>2, <1>4
<1>5. CASE results' = Older(results)
  BY <1>1, <1>2, <1>5, OlderResults
<1>6. CASE UNCHANGED results
  BY <1>2, <1>6
<1>7. \/ UNCHANGED results
      \/ results' = Expired(results)
      \/ results' = Older(results)
      \/ results' = [j \in Logins |-> None]
      \/ \E x \in exchanging : Exchange(x)
  BY DEF Next, User, Relay, vars, relayVars, OpenPopup, Submit, Approve, CallbackAgain,
         Refuse, GoBack, ClosePopup, FinishStart, FailStart, Callback, Challenge,
         RelayRestarts, Finalize, GetResult, Gc, LoginMessage, PollFetch, PollReply, Tick
<1> QED  BY <1>3, <1>4, <1>5, <1>6, <1>7

\* The steps that a poll can take.
LEMMA PollCases ==
  ASSUME TypeInv, [Next]_vars
  PROVE  \/ OpenPopup \/ Tick
         \/ \E i \in Logins : PollFetch(i) \/ PollReply(i)
         \/ UNCHANGED poll
BY DEF Next, User, Relay, vars, tabVars, Submit, Approve, CallbackAgain, Refuse, GoBack,
       ClosePopup, FinishStart, FailStart, Callback, Challenge, Exchange, RelayRestarts,
       Finalize, LoginMessage

\* A round that is made, or lost.
LEMMA Fetched ==
  ASSUME TypeInv, OwnInv, NEW j \in Logins, PollFetch(j)
  PROVE  /\ \A i \in Logins \ {j} : poll'[i] = poll[i]
         /\ poll'[j].state = "reply"
         /\ poll'[j].reply # None => poll'[j].reply.login = j
         /\ UNCHANGED opened
<1>1. poll \in [Logins -> Polls]
  BY DEF TypeInv, TypeOK
<1>2. PICK r \in {Answered(j), None} :
        poll' = [poll EXCEPT ![j].state = "reply", ![j].reply = r]
  BY DEF PollFetch
<1>3. poll'[j].state = "reply" /\ poll'[j].reply = r
  BY <1>1, <1>2 DEF Polls
<1>4. r # None => r.login = j
  BY <1>2, AnsweredType DEF OwnInv
<1>5. UNCHANGED opened
  BY DEF PollFetch, popupVars
<1> QED  BY <1>1, <1>2, <1>3, <1>4, <1>5

LEMMA OwnPolls ==
  ASSUME TypeInv, OwnInv, [Next]_vars, NEW i \in Logins
  PROVE  /\ poll'[i].reply # None => poll'[i].reply.login = i /\ poll'[i].state = "reply"
         /\ i > opened' => poll'[i].state = "off"
<1>1. poll \in [Logins -> Polls] /\ opened \in 0..MaxLogins
  BY DEF TypeInv, TypeOK
<1>2. opened' \in {opened, opened + 1} /\ (~OpenPopup => opened' = opened)
  BY DEF Next, User, Relay, vars, popupVars, OpenPopup, Submit, Approve, CallbackAgain,
         Refuse, GoBack, ClosePopup, FinishStart, FailStart, Callback, Challenge, Exchange,
         RelayRestarts, Finalize, LoginMessage, PollFetch, PollReply, Tick
<1>3. i > opened' => i > opened
  BY <1>1, <1>2, BoundsAssumption DEF Logins
<1>4. CASE UNCHANGED poll
  BY <1>3, <1>4 DEF OwnInv
<1>5. CASE OpenPopup
  <2>1. opened' = opened + 1 /\ poll' = [poll EXCEPT ![opened + 1] = Asleep(Rounds)]
    BY <1>5 DEF OpenPopup
  <2>2. i > opened' => i # opened + 1
    BY <1>1, <2>1, BoundsAssumption DEF Logins
  <2>3. i = opened + 1 => poll'[i] = Asleep(Rounds)
    BY <1>1, <2>1
  <2>4. i # opened + 1 => poll'[i] = poll[i]
    BY <1>1, <2>1
  <2>5. Asleep(Rounds).reply = None
    BY DEF Asleep
  <2> QED  BY <1>3, <2>2, <2>3, <2>4, <2>5 DEF OwnInv
<1>6. CASE Tick
  <2>1. /\ poll'[i].reply = poll[i].reply
        /\ poll[i].state # "sleep" => poll'[i].state = poll[i].state
    BY <1>1, <1>6 DEF Tick, Polls
  <2> QED  BY <1>3, <2>1 DEF OwnInv
<1>7. ASSUME NEW j \in Logins, PollFetch(j)
      PROVE  /\ poll'[i].reply # None => poll'[i].reply.login = i /\ poll'[i].state = "reply"
             /\ i > opened' => poll'[i].state = "off"
  <2>1. CASE i = j
    <3>1. ~(j > opened)
      BY <1>7 DEF OwnInv, PollFetch
    <3> QED  BY <1>3, <1>7, <2>1, <3>1, Fetched
  <2>2. CASE i # j
    BY <1>3, <1>7, <2>2, Fetched DEF OwnInv
  <2> QED  BY <2>1, <2>2
<1>8. ASSUME NEW j \in Logins, PollReply(j)
      PROVE  /\ poll'[i].reply # None => poll'[i].reply.login = i /\ poll'[i].state = "reply"
             /\ i > opened' => poll'[i].state = "off"
  <2>1. CASE i = j
    <3>1. ~(j > opened)
      BY <1>8 DEF OwnInv, PollReply
    <3>2. poll'[j].reply = None
      BY <1>1, <1>8 DEF PollReply, Asleep, Off
    <3> QED  BY <1>3, <2>1, <3>1, <3>2
  <2>2. CASE i # j
    <3>1. poll'[i] = poll[i]
      BY <1>1, <1>8, <2>2 DEF PollReply
    <3> QED  BY <1>3, <3>1 DEF OwnInv
  <2> QED  BY <2>1, <2>2
<1> QED  BY <1>4, <1>5, <1>6, <1>7, <1>8, PollCases

LEMMA OwnStep == ASSUME TypeInv, OwnInv, [Next]_vars PROVE OwnInv'
BY OwnResults, OwnPolls DEF OwnInv

LEMMA BroughtStep ==
  ASSUME TypeInv, AgeInv, OwnInv, [Next]_vars, NEW i \in Logins
  PROVE  /\ signedAge[i] # None /\ poll[i].state = "due"
              => poll'[i] = poll[i] \/ poll'[i].reply # None \/ i \in lost'
         /\ poll[i].reply # None => poll'[i] = poll[i] \/ i \in handled'
<1>1. poll \in [Logins -> Polls] /\ opened \in 0..MaxLogins
  BY DEF TypeInv, TypeOK
<1>2. CASE OpenPopup
  <2>1. poll' = [poll EXCEPT ![opened + 1] = Asleep(Rounds)]
    BY <1>2 DEF OpenPopup
  <2>2. CASE i = opened + 1
    <3>1. i > opened
      BY <1>1, <2>2
    <3>2. poll[i].state = "off" /\ poll[i].reply = None
      BY <3>1 DEF OwnInv
    <3> QED  BY <3>2
  <2>3. CASE i # opened + 1
    BY <1>1, <2>1, <2>3
  <2> QED  BY <2>2, <2>3
<1>3. CASE Tick
  <2>1. poll[i].state # "sleep" => poll'[i] = poll[i]
    BY <1>3 DEF Tick
  <2> QED  BY <2>1 DEF OwnInv
<1>4. ASSUME NEW j \in Logins, PollFetch(j), i # j PROVE poll'[i] = poll[i]
  BY <1>1, <1>4 DEF PollFetch
<1>5. CASE PollFetch(i)
  <2>1. poll[i].reply = None
    BY <1>5 DEF OwnInv, PollFetch
  <2>2. ASSUME signedAge[i] # None, i \notin lost' PROVE poll'[i].reply # None
    <3>1. signedAge[i] # FlowTtl /\ poll' = [poll EXCEPT ![i].state = "reply", ![i].reply = Answered(i)]
      BY <1>5, <2>2 DEF PollFetch
    <3>2. Young(i)
      <4>1. signedAge[i] \in 0..FlowTtl
        BY <2>2 DEF TypeInv, TypeOK
      <4> QED  BY <2>2, <3>1, <4>1, TtlAssumption DEF Young
    <3>3. poll'[i].reply = Answered(i)
      BY <1>1, <3>1 DEF Polls
    <3> QED  BY <3>2, <3>3, YoungAnswered
  <2> QED  BY <2>1, <2>2
<1>6. ASSUME NEW j \in Logins, PollReply(j), i # j PROVE poll'[i] = poll[i]
  BY <1>1, <1>6 DEF PollReply
<1>7. CASE PollReply(i)
  <2>1. poll[i].state = "reply"
    BY <1>7 DEF PollReply
  <2>2. poll[i].reply # None => i \in handled'
    BY <1>7 DEF PollReply, HandleLogin, OwnInv
  <2> QED  BY <2>1, <2>2
<1>8. CASE UNCHANGED poll
  BY <1>8
<1> QED  BY <1>2, <1>3, <1>4, <1>5, <1>6, <1>7, <1>8, PollCases

\* A signed login's next round brings it, and what it brings is handled.
THEOREM SignedBrought == Spec => SignedIsBrought
<1>1. Init => AgeInv /\ OwnInv
  BY NoneAssumption DEF Init, AgeInv, Young, OwnInv, Off
<1>2. TypeInv /\ AgeInv /\ OwnInv /\ [Next]_vars => (AgeInv /\ OwnInv)'
  BY AgeStep, OwnStep
<1>3. TypeInv /\ AgeInv /\ OwnInv /\ [Next]_vars =>
        [\A i \in Logins :
           /\ signedAge[i] # None /\ poll[i].state = "due"
                => poll'[i] = poll[i] \/ poll'[i].reply # None \/ i \in lost'
           /\ poll[i].reply # None => poll'[i] = poll[i] \/ i \in handled']_vars
  BY BroughtStep
<1> QED  BY <1>1, <1>2, <1>3, Typed, PTL DEF Spec, SignedIsBrought

=============================================================================
