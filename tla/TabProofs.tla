----------------------------- MODULE TabProofs -----------------------------
(* Proofs about the two modules on what one browser tab keeps: TabIdentity,   *)
(* for every number of tabs, providers, minted keys and logins, and           *)
(* ErrorPipe, for a buffer of any capacity and any number of errors in bursts *)
(* of any length.                                                             *)
EXTENDS TabIdentity, ErrorPipe, FiniteSets, FiniteSetTheorems, TLAPS

\* A binding just signed, put in place of the provider's older one.
LEMMA ReplacedType ==
  ASSUME NEW B \in SUBSET Bindings, NEW k \in Nat, NEW p \in Providers, NEW n \in Nat
  PROVE  Replaced(B, Binding(k, p, n)) \in SUBSET Bindings
<1>1. Binding(k, p, n) \in Bindings
  BY DEF Binding, Bindings
<1> QED BY <1>1 DEF Replaced

LEMMA SnapshotTypes ==
  ASSUME NEW S, NEW q \in Seq(S), q # <<>>
  PROVE  Head(q) \in S /\ Tail(q) \in Seq(S)
OBVIOUS

LEMMA TypeInit == Init => TypeOK
<1> SUFFICES ASSUME Init PROVE TypeOK
  OBVIOUS
<1>1. saves \in [Tabs -> Seq(SUBSET Bindings)]
  <2>1. <<>> \in Seq(SUBSET Bindings)
    OBVIOUS
  <2> QED BY <2>1 DEF Init
<1>2. selfBindings \in [Tabs -> SUBSET Bindings] /\ dbBindings \subseteq Bindings
  BY DEF Init
<1>3. dbKey \in Nat \cup {None} /\ minted \in Nat /\ logins \in Nat
  BY DEF Init
<1>4. /\ phase \in [Tabs -> Phases] /\ key \in [Tabs -> Nat \cup {None}]
      /\ unsaved \in [Tabs -> BOOLEAN] /\ clash \in BOOLEAN /\ crowded \in BOOLEAN
  BY DEF Init, Phases
<1>5. \A t \in Tabs : key[t] # None <=> phase[t] \in {"save", "bindings", "running"}
  BY DEF Init
<1> QED BY <1>1, <1>2, <1>3, <1>4, <1>5 DEF TypeOK

LEMMA TypeStep == TypeOK /\ [Next]_vars => TypeOK'
<1> SUFFICES ASSUME TypeOK, [Next]_vars PROVE TypeOK'
  OBVIOUS
<1> USE NoneAssumption DEF TypeOK, Phases, db, history
<1>1. ASSUME NEW t \in Tabs, Open(t) PROVE TypeOK'
  BY <1>1 DEF Open
<1>2. ASSUME NEW t \in Tabs, LoadKey(t) PROVE TypeOK'
  <2>1. CASE StoredKey # None
    <3>1. /\ key' = [key EXCEPT ![t] = dbKey] /\ phase' = [phase EXCEPT ![t] = "bindings"]
          /\ UNCHANGED <<minted, clash, db, selfBindings, saves, unsaved, logins, crowded>>
      BY <1>2, <2>1 DEF LoadKey, StoredKey
    <3> QED BY <2>1, <3>1 DEF StoredKey
  <2>2. CASE StoredKey = None
    <3>1. /\ key' = [key EXCEPT ![t] = minted + 1] /\ phase' = [phase EXCEPT ![t] = "save"]
          /\ minted' = minted + 1
          /\ UNCHANGED <<db, selfBindings, saves, unsaved, logins, crowded>>
      BY <1>2, <2>2 DEF LoadKey
    <3>2. clash' \in BOOLEAN
      BY <1>2, <2>2, Zenon DEF LoadKey
    <3> QED BY <3>1, <3>2
  <2> QED BY <2>1, <2>2
<1>3. ASSUME NEW t \in Tabs, SaveKey(t) PROVE TypeOK'
  BY <1>3 DEF SaveKey, PutKey
<1>4. ASSUME NEW t \in Tabs, LoadBindings(t) PROVE TypeOK'
  BY <1>4 DEF LoadBindings, StoredBindings
<1>5. ASSUME NEW t \in Tabs, InitFails(t) PROVE TypeOK'
  BY <1>5 DEF InitFails
<1>6. ASSUME NEW t \in Tabs, NEW p \in Providers, NEW k \in 1..minted, Login(t, p, k)
      PROVE  TypeOK'
  <2>1. PICK now : now = Replaced(selfBindings[t], Binding(k, p, logins + 1))
    OBVIOUS
  <2>2. now \in SUBSET Bindings
    BY <2>1, ReplacedType
  <2>3. /\ selfBindings' = [selfBindings EXCEPT ![t] = now]
        /\ saves' = [saves EXCEPT ![t] = Append(@, now)]
        /\ logins' = logins + 1
        /\ UNCHANGED <<db, phase, key, unsaved, minted, history>>
    BY <1>6, <2>1 DEF Login
  <2>4. saves' \in [Tabs -> Seq(SUBSET Bindings)]
    BY <2>2, <2>3
  <2> QED BY <2>2, <2>3, <2>4
<1>7. ASSUME NEW t \in Tabs, SaveBindings(t) PROVE TypeOK'
  <2>1. Head(saves[t]) \in SUBSET Bindings /\ Tail(saves[t]) \in Seq(SUBSET Bindings)
    BY <1>7, SnapshotTypes DEF SaveBindings
  <2> QED BY <1>7, <2>1 DEF SaveBindings, PutBindings
<1>8. ASSUME NEW t \in Tabs, SaveBindingsFails(t) PROVE TypeOK'
  <2>1. Tail(saves[t]) \in Seq(SUBSET Bindings)
    BY <1>8, SnapshotTypes DEF SaveBindingsFails
  <2> QED BY <1>8, <2>1 DEF SaveBindingsFails
<1>9. ASSUME NEW t \in Tabs, Close(t) PROVE TypeOK'
  BY <1>9 DEF Close
<1>10. CASE UNCHANGED vars
  BY <1>10 DEF vars
<1> QED BY <1>1, <1>2, <1>3, <1>4, <1>5, <1>6, <1>7, <1>8, <1>9, <1>10 DEF Next, Step

\* The database and the tabs only ever hold keys and bindings of their types.
THEOREM TypeCorrect == Spec => []TypeOK
BY TypeInit, TypeStep, PTL DEF Spec

-----------------------------------------------------------------------------
(* The key in use is the stored one *)

\* As long as no two tabs minted at once: a tab that has minted a key and not
\* written it is the only one, and nothing is stored yet; every tab past that
\* point holds the stored key.
KeyInv ==
  ~clash =>
    /\ \A t, u \in Tabs : phase[t] = "save" /\ phase[u] = "save" => t = u
    /\ \A t \in Tabs : phase[t] = "save" => dbKey = None
    /\ \A t \in Tabs : phase[t] \in {"bindings", "running"} => key[t] = dbKey

LEMMA KeyInit == Init => KeyInv
BY DEF Init, KeyInv

LEMMA KeyStep == TypeOK /\ KeyInv /\ [Next]_vars => KeyInv'
<1> SUFFICES ASSUME TypeOK, KeyInv, [Next]_vars PROVE KeyInv'
  OBVIOUS
<1> USE NoneAssumption DEF TypeOK, KeyInv, history, db
<1>1. ASSUME NEW t \in Tabs, Open(t) PROVE KeyInv'
  BY <1>1 DEF Open
<1>2. ASSUME NEW t \in Tabs, LoadKey(t) PROVE KeyInv'
  BY <1>2 DEF LoadKey, StoredKey
<1>3. ASSUME NEW t \in Tabs, SaveKey(t) PROVE KeyInv'
  BY <1>3 DEF SaveKey, PutKey
<1>4. ASSUME NEW t \in Tabs, LoadBindings(t) PROVE KeyInv'
  BY <1>4 DEF LoadBindings
<1>5. ASSUME NEW t \in Tabs, InitFails(t) \/ Close(t) PROVE KeyInv'
  BY <1>5 DEF InitFails, Close
<1>6. ASSUME UNCHANGED <<dbKey, phase, key, clash>> PROVE KeyInv'
  BY <1>6
<1>7. ASSUME NEW t \in Tabs, NEW p \in Providers, NEW k \in 1..minted, Login(t, p, k)
      PROVE  KeyInv'
  BY <1>7, <1>6 DEF Login
<1>8. ASSUME NEW t \in Tabs, SaveBindings(t) \/ SaveBindingsFails(t) PROVE KeyInv'
  BY <1>8, <1>6 DEF SaveBindings, SaveBindingsFails, PutBindings
<1>9. CASE UNCHANGED vars
  BY <1>9, <1>6 DEF vars
<1> QED BY <1>1, <1>2, <1>3, <1>4, <1>5, <1>7, <1>8, <1>9 DEF Next, Step

\* Through closed tabs, reloads and failed requests, a running tab has the key
\* a reload will find, unless two tabs minted at once (init_inner in
\* crates/laye-p2p/src/wasm.rs).
THEOREM KeyStored == Spec => []KeyInUseIsStored
<1>1. Spec => [](TypeOK /\ KeyInv)
  BY TypeInit, TypeStep, KeyInit, KeyStep, PTL DEF Spec
<1>2. KeyInv => KeyInUseIsStored
  BY DEF KeyInv, KeyInUseIsStored
<1> QED BY <1>1, <1>2, PTL

LEMMA KeyLostStep ==
  ASSUME TypeOK, KeyInv, [Next]_vars, dbKey # None, dbKey' # dbKey
  PROVE  clash
BY DEF KeyInv, Next, Step, Open, LoadKey, SaveKey, LoadBindings, InitFails, Login, SaveBindings,
       SaveBindingsFails, Close, PutKey, PutBindings, db, vars

\* No step replaces the key a visit has stored, until two tabs have been between
\* minting and writing at once (init_inner in crates/laye-p2p/src/wasm.rs).
THEOREM KeyNotLost == Spec => KeyLostOnlyByClash
<1>1. Spec => [](TypeOK /\ KeyInv)
  BY TypeInit, TypeStep, KeyInit, KeyStep, PTL DEF Spec
<1>2. TypeOK /\ KeyInv /\ [Next]_vars => [dbKey # None /\ dbKey' # dbKey => clash]_vars
  BY KeyLostStep
<1> QED BY <1>1, <1>2, PTL DEF Spec, KeyLostOnlyByClash

-----------------------------------------------------------------------------
(* The logins are about the key in use *)

\* As long as no two tabs minted at once, every binding anywhere is about the
\* stored key: in the database, in a tab, in a snapshot still to be written.
OwnInv ==
  ~clash =>
    /\ \A b \in dbBindings : b.peer = dbKey
    /\ \A t \in Tabs : \A b \in selfBindings[t] : b.peer = dbKey
    /\ \A t \in Tabs : \A i \in DOMAIN saves[t] : \A b \in saves[t][i] : b.peer = dbKey

LEMMA HeadAndTail ==
  ASSUME NEW S, NEW q \in Seq(S), q # <<>>
  PROVE  /\ 1 \in DOMAIN q /\ Head(q) = q[1]
         /\ \A i \in DOMAIN Tail(q) : i \in Nat \ {0} /\ i + 1 \in DOMAIN q /\ Tail(q)[i] = q[i + 1]
OBVIOUS

LEMMA Appended ==
  ASSUME NEW S, NEW q \in Seq(S), NEW x \in S
  PROVE  /\ Append(q, x) \in Seq(S) /\ Append(q, x) # <<>>
         /\ Len(Append(q, x)) = Len(q) + 1 /\ Len(q) \in Nat
         /\ \A i \in DOMAIN Append(q, x) :
              \/ i \in DOMAIN q /\ Append(q, x)[i] = q[i] /\ i <= Len(q)
              \/ i = Len(q) + 1 /\ Append(q, x)[i] = x
OBVIOUS

LEMMA OwnInit == Init => OwnInv
BY DEF Init, OwnInv

\* Nothing is added and the key stays.
LEMMA OwnQuiet ==
  ASSUME OwnInv, clash' = clash, dbKey' = dbKey, dbBindings' = dbBindings,
         \A t \in Tabs : selfBindings'[t] \in {selfBindings[t], dbBindings, {}},
         \A t \in Tabs : saves'[t] = saves[t] \/ saves'[t] = <<>>
  PROVE  OwnInv'
<1> SUFFICES ASSUME ~clash PROVE OwnInv'
  BY DEF OwnInv
<1>1. \A b \in dbBindings' : b.peer = dbKey'
  BY DEF OwnInv
<1>2. ASSUME NEW t \in Tabs, NEW b \in selfBindings'[t] PROVE b.peer = dbKey'
  BY DEF OwnInv
<1>3. ASSUME NEW t \in Tabs, NEW i \in DOMAIN saves'[t], NEW b \in saves'[t][i]
      PROVE  b.peer = dbKey'
  <2>1. saves'[t] = saves[t]
    BY <1>3
  <2> QED BY <1>3, <2>1 DEF OwnInv
<1> QED BY <1>1, <1>2, <1>3 DEF OwnInv

LEMMA OwnStep == TypeOK /\ KeyInv /\ OwnInv /\ [Next]_vars => OwnInv'
<1> SUFFICES ASSUME TypeOK, KeyInv, OwnInv, [Next]_vars PROVE OwnInv'
  OBVIOUS
<1> USE DEF history, db
<1>1. /\ saves \in [Tabs -> Seq(SUBSET Bindings)] /\ selfBindings \in [Tabs -> SUBSET Bindings]
      /\ dbBindings \subseteq Bindings /\ phase \in [Tabs -> Phases]
  BY DEF TypeOK
<1>2. ASSUME NEW t \in Tabs, Open(t) \/ InitFails(t) PROVE OwnInv'
  BY <1>2, OwnQuiet DEF Open, InitFails
<1>3. ASSUME NEW t \in Tabs, LoadKey(t) PROVE OwnInv'
  <2>1. UNCHANGED <<dbKey, dbBindings, selfBindings, saves>>
    BY <1>3 DEF LoadKey
  <2>2. clash => clash'
    BY <1>3, Zenon DEF LoadKey
  <2> QED BY <2>1, <2>2 DEF OwnInv
<1>4. ASSUME NEW t \in Tabs, SaveKey(t) PROVE OwnInv'
  <2> SUFFICES ASSUME ~clash PROVE OwnInv'
    BY <1>4 DEF SaveKey, OwnInv
  <2>1. dbKey = None /\ UNCHANGED <<dbBindings, selfBindings, saves, clash>>
    BY <1>4 DEF SaveKey, PutKey, KeyInv
  <2>2. \A b \in Bindings : b.peer # dbKey
    BY <2>1, NoneAssumption DEF Bindings
  <2>3. dbBindings = {}
    BY <1>1, <2>2 DEF OwnInv
  <2>4. \A u \in Tabs : selfBindings[u] = {}
    BY <1>1, <2>2 DEF OwnInv
  <2>5. \A u \in Tabs : \A i \in DOMAIN saves[u] : saves[u][i] \in SUBSET Bindings
    BY <1>1
  <2>6. \A u \in Tabs : \A i \in DOMAIN saves[u] : saves[u][i] = {}
    BY <2>2, <2>5 DEF OwnInv
  <2> QED BY <2>1, <2>3, <2>4, <2>6 DEF OwnInv
<1>5. ASSUME NEW t \in Tabs, LoadBindings(t) PROVE OwnInv'
  BY <1>1, <1>5, OwnQuiet DEF LoadBindings, StoredBindings
<1>6. ASSUME NEW t \in Tabs, Close(t) PROVE OwnInv'
  BY <1>1, <1>6, OwnQuiet DEF Close
<1>7. ASSUME NEW t \in Tabs, NEW p \in Providers, NEW k \in 1..minted, Login(t, p, k)
      PROVE  OwnInv'
  <2> SUFFICES ASSUME ~clash PROVE OwnInv'
    BY <1>7 DEF Login, OwnInv
  <2>1. PICK new, now : /\ new = Binding(k, p, logins + 1)
                        /\ now = Replaced(selfBindings[t], new)
    OBVIOUS
  <2>2. /\ selfBindings' = [selfBindings EXCEPT ![t] = now]
        /\ saves' = [saves EXCEPT ![t] = Append(@, now)]
        /\ phase[t] = "running" /\ k = key[t]
        /\ UNCHANGED <<dbKey, dbBindings, clash>>
    BY <1>7, <2>1 DEF Login
  <2>3. new.peer = dbKey
    BY <2>1, <2>2 DEF Binding, KeyInv
  <2>4. \A b \in now : b.peer = dbKey
    BY <2>1, <2>3 DEF Replaced, OwnInv
  <2>5. \A u \in Tabs : \A b \in selfBindings'[u] : b.peer = dbKey
    BY <1>1, <2>2, <2>4 DEF OwnInv
  <2>6. ASSUME NEW u \in Tabs, NEW i \in DOMAIN saves'[u], NEW b \in saves'[u][i]
        PROVE  b.peer = dbKey
    <3>1. CASE u = t
      <4>1. now \in SUBSET Bindings
        BY <1>7, <2>1, ReplacedType DEF TypeOK
      <4>2. saves'[u] = Append(saves[t], now)
        BY <1>1, <2>2, <3>1
      <4>3. (i \in DOMAIN saves[t] /\ saves'[u][i] = saves[t][i]) \/ saves'[u][i] = now
        BY <1>1, <2>6, <4>1, <4>2, Appended
      <4> QED BY <2>4, <2>6, <4>3 DEF OwnInv
    <3>2. CASE u # t
      <4>1. saves'[u] = saves[u]
        BY <1>1, <2>2, <3>2
      <4> QED BY <2>6, <4>1 DEF OwnInv
    <3> QED BY <3>1, <3>2
  <2> QED BY <2>2, <2>5, <2>6 DEF OwnInv
<1>8. ASSUME NEW t \in Tabs, SaveBindings(t) \/ SaveBindingsFails(t) PROVE OwnInv'
  <2> SUFFICES ASSUME ~clash PROVE OwnInv'
    BY <1>8 DEF SaveBindings, SaveBindingsFails, OwnInv
  <2>1. /\ saves[t] # <<>> /\ saves' = [saves EXCEPT ![t] = Tail(@)]
        /\ dbBindings' = dbBindings \/ dbBindings' = Head(saves[t])
        /\ UNCHANGED <<dbKey, selfBindings, clash>>
    BY <1>8 DEF SaveBindings, SaveBindingsFails, PutBindings
  <2>2. PICK q : q = saves[t]
    OBVIOUS
  <2>3. /\ 1 \in DOMAIN q /\ Head(q) = q[1]
        /\ \A i \in DOMAIN Tail(q) : i + 1 \in DOMAIN q /\ Tail(q)[i] = q[i + 1]
    BY <1>1, <2>1, <2>2, HeadAndTail
  <2>4. \A i \in DOMAIN q : \A b \in q[i] : b.peer = dbKey
    BY <2>2 DEF OwnInv
  <2>5. \A b \in dbBindings' : b.peer = dbKey
    BY <2>1, <2>2, <2>3, <2>4 DEF OwnInv
  <2>6. ASSUME NEW u \in Tabs, NEW i \in DOMAIN saves'[u], NEW b \in saves'[u][i]
        PROVE  b.peer = dbKey
    <3>1. CASE u = t
      <4>1. saves'[u] = Tail(q)
        BY <1>1, <2>1, <2>2, <3>1
      <4> QED BY <2>3, <2>4, <2>6, <4>1
    <3>2. CASE u # t
      <4>1. saves'[u] = saves[u]
        BY <1>1, <2>1, <3>2
      <4> QED BY <2>6, <4>1 DEF OwnInv
    <3> QED BY <3>1, <3>2
  <2> QED BY <2>1, <2>5, <2>6 DEF OwnInv
<1>9. CASE UNCHANGED vars
  BY <1>9 DEF vars, OwnInv
<1> QED BY <1>2, <1>3, <1>4, <1>5, <1>6, <1>7, <1>8, <1>9 DEF Next, Step

\* The logins a tab shows and publishes are about the key it publishes with,
\* so no receiver drops them, unless two tabs minted at once.
THEOREM OwnBindings == Spec => []BindingsAreOwn
<1>1. Spec => [](TypeOK /\ KeyInv /\ OwnInv)
  BY TypeInit, TypeStep, KeyInit, KeyStep, OwnInit, OwnStep, PTL DEF Spec
<1>2. KeyInv /\ OwnInv => BindingsAreOwn
  BY DEF KeyInv, OwnInv, BindingsAreOwn
<1> QED BY <1>1, <1>2, PTL

-----------------------------------------------------------------------------
(* Tabs that come one at a time keep their logins *)

\* Each login of A is in B, or a later one with its provider.
Covered(A, B) ==
  \A b \in A : \E c \in B : c.provider = b.provider /\ c.number >= b.number

\* No binding carries a number that was not given out yet.
NumbersInv ==
  /\ \A b \in dbBindings : b.number <= logins
  /\ \A t \in Tabs : \A b \in selfBindings[t] : b.number <= logins
  /\ \A t \in Tabs : \A i \in DOMAIN saves[t] : \A b \in saves[t][i] : b.number <= logins

\* What is stored, the snapshots still to be written and what the tab shows
\* follow each other login by login, and the last snapshot is what it shows.
Ordered(stored, q, shown) ==
  /\ Covered(stored, shown)
  /\ q # <<>> => q[Len(q)] = shown
  /\ \A i \in DOMAIN q : Covered(stored, q[i]) /\ Covered(q[i], shown)
  /\ \A i, j \in DOMAIN q : i < j => Covered(q[i], q[j])

\* While one tab is open at a time, its snapshots are in order, and when none
\* is left and none failed, the last one is stored.
AloneInv ==
  /\ \A t \in Tabs : saves[t] # <<>> => phase[t] = "running"
  /\ ~crowded =>
       /\ \A t, u \in Tabs : phase[t] # "closed" /\ phase[u] # "closed" => t = u
       /\ \A t \in Tabs : phase[t] = "running" =>
            /\ Ordered(dbBindings, saves[t], selfBindings[t])
            /\ saves[t] = <<>> /\ ~unsaved[t] => dbBindings = selfBindings[t]

LEMMA CoveredSelf ==
  ASSUME NEW A \in SUBSET Bindings
  PROVE  Covered(A, A)
BY DEF Covered, Bindings

LEMMA CoveredByLater ==
  ASSUME NEW A \in SUBSET Bindings, NEW B \in SUBSET Bindings, NEW C \in SUBSET Bindings,
         Covered(A, B), Covered(B, C)
  PROVE  Covered(A, C)
<1> SUFFICES ASSUME NEW a \in A
             PROVE  \E c \in C : c.provider = a.provider /\ c.number >= a.number
  BY DEF Covered
<1>1. PICK b \in B : b.provider = a.provider /\ b.number >= a.number
  BY DEF Covered
<1>2. PICK c \in C : c.provider = b.provider /\ c.number >= b.number
  BY DEF Covered
<1>3. a.number \in Nat /\ b.number \in Nat /\ c.number \in Nat
  BY DEF Bindings
<1> QED BY <1>1, <1>2, <1>3

\* A login replaces only an older one with its provider.
LEMMA CoveredByLogin ==
  ASSUME NEW B \in SUBSET Bindings, NEW k \in Nat, NEW p \in Providers, NEW n \in Nat,
         \A b \in B : b.number <= n
  PROVE  Covered(B, Replaced(B, Binding(k, p, n + 1)))
<1>1. PICK new : new = Binding(k, p, n + 1)
  OBVIOUS
<1>2. new.provider = p /\ new.number = n + 1 /\ new \in Replaced(B, new)
  BY <1>1 DEF Binding, Replaced
<1>3. ASSUME NEW b \in B
      PROVE  \E c \in Replaced(B, new) : c.provider = b.provider /\ c.number >= b.number
  <2>1. b.number \in Nat /\ b.number <= n
    BY DEF Bindings
  <2>2. CASE b.provider = p
    <3>1. new.number >= b.number
      BY <1>2, <2>1
    <3> QED BY <1>2, <2>2, <3>1
  <2>3. CASE b.provider # p
    <3>1. b \in Replaced(B, new) /\ b.number >= b.number
      BY <1>2, <2>1, <2>3 DEF Replaced
    <3> QED BY <3>1
  <2> QED BY <2>2, <2>3
<1> QED BY <1>1, <1>3 DEF Covered

LEMMA NumbersInit == Init => NumbersInv
BY DEF Init, NumbersInv

LEMMA NumbersStep == TypeOK /\ NumbersInv /\ [Next]_vars => NumbersInv'
<1> SUFFICES ASSUME TypeOK, NumbersInv, [Next]_vars PROVE NumbersInv'
  OBVIOUS
<1> USE DEF history, db
<1>1. /\ saves \in [Tabs -> Seq(SUBSET Bindings)] /\ selfBindings \in [Tabs -> SUBSET Bindings]
      /\ dbBindings \subseteq Bindings /\ logins \in Nat
      /\ \A b \in Bindings : b.number \in Nat
  BY DEF TypeOK, Bindings
<1>2. ASSUME UNCHANGED <<dbBindings, selfBindings, saves, logins>> PROVE NumbersInv'
  BY <1>2 DEF NumbersInv
<1>3. ASSUME NEW t \in Tabs, Open(t) \/ InitFails(t) \/ LoadKey(t) \/ SaveKey(t) PROVE NumbersInv'
  BY <1>2, <1>3 DEF Open, InitFails, LoadKey, SaveKey, PutKey
<1>4. ASSUME NEW t \in Tabs, LoadBindings(t) PROVE NumbersInv'
  BY <1>1, <1>4 DEF LoadBindings, StoredBindings, NumbersInv
<1>5. ASSUME NEW t \in Tabs, Close(t) PROVE NumbersInv'
  <2>1. /\ \A u \in Tabs : selfBindings'[u] \in {selfBindings[u], {}}
        /\ \A u \in Tabs : saves'[u] = saves[u] \/ saves'[u] = <<>>
        /\ UNCHANGED <<dbBindings, logins>>
    BY <1>1, <1>5 DEF Close
  <2>2. ASSUME NEW u \in Tabs, NEW i \in DOMAIN saves'[u], NEW b \in saves'[u][i]
        PROVE  b.number <= logins
    <3>1. saves'[u] = saves[u]
      BY <2>1, <2>2
    <3> QED BY <2>2, <3>1 DEF NumbersInv
  <2>3. ASSUME NEW u \in Tabs, NEW b \in selfBindings'[u] PROVE b.number <= logins
    BY <2>1, <2>3 DEF NumbersInv
  <2> QED BY <2>1, <2>2, <2>3 DEF NumbersInv
<1>6. ASSUME NEW t \in Tabs, NEW p \in Providers, NEW k \in 1..minted, Login(t, p, k)
      PROVE  NumbersInv'
  <2>1. PICK new, now : /\ new = Binding(k, p, logins + 1)
                        /\ now = Replaced(selfBindings[t], new)
    OBVIOUS
  <2>2. /\ selfBindings' = [selfBindings EXCEPT ![t] = now]
        /\ saves' = [saves EXCEPT ![t] = Append(@, now)]
        /\ logins' = logins + 1 /\ UNCHANGED dbBindings
    BY <1>6, <2>1 DEF Login
  <2>3. k \in Nat /\ logins + 1 \in Nat
    BY DEF TypeOK
  <2>4. now \in SUBSET Bindings /\ new.number = logins + 1
    BY <1>1, <2>1, <2>3, ReplacedType DEF Binding
  <2>5. \A n \in Nat : n <= logins => n <= logins + 1
    BY <1>1
  <2>6. \A u \in Tabs : \A b \in selfBindings[u] : b.number <= logins + 1
    BY <1>1, <2>5 DEF NumbersInv
  <2>7. \A b \in now : b.number <= logins + 1
    BY <1>1, <2>1, <2>4, <2>6 DEF Replaced
  <2>8. \A u \in Tabs : \A b \in selfBindings'[u] : b.number <= logins + 1
    BY <1>1, <2>2, <2>6, <2>7
  <2>9. ASSUME NEW u \in Tabs, NEW i \in DOMAIN saves'[u], NEW b \in saves'[u][i]
        PROVE  b.number <= logins + 1
    <3>1. \/ i \in DOMAIN saves[u] /\ saves'[u][i] = saves[u][i]
          \/ saves'[u][i] = now
      <4>1. CASE u = t
        <5>1. saves'[u] = Append(saves[u], now)
          BY <1>1, <2>2, <4>1
        <5> QED BY <1>1, <2>4, <2>9, <5>1, Appended
      <4>2. CASE u # t
        BY <1>1, <2>2, <2>9, <4>2
      <4> QED BY <4>1, <4>2
    <3>2. CASE i \in DOMAIN saves[u] /\ saves'[u][i] = saves[u][i]
      <4>1. b.number <= logins /\ saves[u][i] \in SUBSET Bindings
        BY <1>1, <2>9, <3>2 DEF NumbersInv
      <4> QED BY <1>1, <2>5, <2>9, <3>2, <4>1
    <3> QED BY <2>7, <2>9, <3>1, <3>2
  <2>10. \A b \in dbBindings : b.number <= logins + 1
    BY <1>1, <2>5 DEF NumbersInv
  <2> QED BY <2>2, <2>8, <2>9, <2>10 DEF NumbersInv
<1>7. ASSUME NEW t \in Tabs, SaveBindings(t) \/ SaveBindingsFails(t) PROVE NumbersInv'
  <2>1. /\ saves[t] # <<>> /\ saves' = [saves EXCEPT ![t] = Tail(@)]
        /\ dbBindings' = dbBindings \/ dbBindings' = Head(saves[t])
        /\ UNCHANGED <<selfBindings, logins>>
    BY <1>7 DEF SaveBindings, SaveBindingsFails, PutBindings
  <2>2. PICK q : q = saves[t]
    OBVIOUS
  <2>3. /\ 1 \in DOMAIN q /\ Head(q) = q[1]
        /\ \A i \in DOMAIN Tail(q) : i + 1 \in DOMAIN q /\ Tail(q)[i] = q[i + 1]
    BY <1>1, <2>1, <2>2, HeadAndTail
  <2>4. \A i \in DOMAIN q : \A b \in q[i] : b.number <= logins
    BY <2>2 DEF NumbersInv
  <2>5. \A b \in dbBindings' : b.number <= logins
    BY <2>1, <2>2, <2>3, <2>4 DEF NumbersInv
  <2>6. ASSUME NEW u \in Tabs, NEW i \in DOMAIN saves'[u], NEW b \in saves'[u][i]
        PROVE  b.number <= logins
    <3>1. CASE u = t
      <4>1. saves'[u] = Tail(q)
        BY <1>1, <2>1, <2>2, <3>1
      <4> QED BY <2>3, <2>4, <2>6, <4>1
    <3>2. CASE u # t
      <4>1. saves'[u] = saves[u]
        BY <1>1, <2>1, <3>2
      <4> QED BY <2>6, <4>1 DEF NumbersInv
    <3> QED BY <3>1, <3>2
  <2> QED BY <2>1, <2>5, <2>6 DEF NumbersInv
<1>8. CASE UNCHANGED vars
  BY <1>2, <1>8 DEF vars
<1> QED BY <1>3, <1>4, <1>5, <1>6, <1>7, <1>8 DEF Next, Step

LEMMA OrderedStart ==
  ASSUME NEW B \in SUBSET Bindings
  PROVE  Ordered(B, <<>>, B)
BY CoveredSelf DEF Ordered

LEMMA OrderedLogin ==
  ASSUME NEW B \in SUBSET Bindings, NEW q \in Seq(SUBSET Bindings),
         NEW now \in SUBSET Bindings, NEW new \in SUBSET Bindings,
         Ordered(B, q, now), Covered(now, new)
  PROVE  Ordered(B, Append(q, new), new)
<1>1. PICK r : r = Append(q, new)
  OBVIOUS
<1>2. /\ r # <<>> /\ Len(r) = Len(q) + 1 /\ Len(q) \in Nat /\ r[Len(r)] = new
      /\ \A i \in DOMAIN r : \/ i \in DOMAIN q /\ r[i] = q[i] /\ i <= Len(q)
                             \/ i = Len(q) + 1 /\ r[i] = new
      /\ DOMAIN r \subseteq Nat
  BY <1>1, Appended
<1>3. \A i \in DOMAIN q : q[i] \in SUBSET Bindings
  OBVIOUS
<1>4. Covered(B, new) /\ Covered(new, new)
  BY CoveredByLater, CoveredSelf DEF Ordered
<1>5. \A i \in DOMAIN q : Covered(B, q[i]) /\ Covered(q[i], new)
  BY <1>3, CoveredByLater DEF Ordered
<1>6. \A i \in DOMAIN r : Covered(B, r[i]) /\ Covered(r[i], new)
  BY <1>2, <1>4, <1>5
<1>7. ASSUME NEW i \in DOMAIN r, NEW j \in DOMAIN r, i < j PROVE Covered(r[i], r[j])
  <2>1. CASE j = Len(q) + 1
    BY <1>2, <1>6, <2>1
  <2>2. CASE j \in DOMAIN q /\ r[j] = q[j] /\ j <= Len(q)
    <3>1. i \in DOMAIN q /\ r[i] = q[i]
      BY <1>2, <1>7, <2>2
    <3> QED BY <1>7, <2>2, <3>1 DEF Ordered
  <2> QED BY <1>2, <2>1, <2>2
<1> QED BY <1>1, <1>2, <1>4, <1>6, <1>7 DEF Ordered

\* The oldest snapshot is written, or its write fails.
LEMMA OrderedWrite ==
  ASSUME NEW B \in SUBSET Bindings, NEW q \in Seq(SUBSET Bindings),
         NEW now \in SUBSET Bindings, Ordered(B, q, now), q # <<>>
  PROVE  /\ Covered(B, Head(q))
         /\ Ordered(Head(q), Tail(q), now)
         /\ Ordered(B, Tail(q), now)
         /\ Tail(q) = <<>> => Head(q) = now
<1>1. PICK r : r = Tail(q)
  OBVIOUS
<1>2. /\ 1 \in DOMAIN q /\ Head(q) = q[1]
      /\ \A i \in DOMAIN r : i \in Nat \ {0} /\ i + 1 \in DOMAIN q /\ r[i] = q[i + 1]
  BY <1>1, HeadAndTail
<1>3. /\ r # <<>> => Len(r) \in DOMAIN r /\ Len(r) + 1 = Len(q)
      /\ r = <<>> => Len(q) = 1
  <2>1. r \in Seq(SUBSET Bindings) /\ Len(r) = Len(q) - 1 /\ Len(q) \in Nat \ {0}
    BY <1>1
  <2>2. r = <<>> => Len(r) = 0
    OBVIOUS
  <2>3. r # <<>> => Len(r) \in Nat \ {0} /\ DOMAIN r = 1..Len(r)
    BY <2>1
  <2>4. Len(q) = Len(r) + 1
    BY <2>1
  <2> QED BY <2>2, <2>3, <2>4
<1>4. r # <<>> => r[Len(r)] = now
  BY <1>2, <1>3 DEF Ordered
<1>5. r = <<>> => Head(q) = now
  BY <1>2, <1>3 DEF Ordered
<1>6. Covered(B, q[1]) /\ Covered(q[1], now)
  BY <1>2 DEF Ordered
<1>7. \A i \in DOMAIN r : Covered(B, r[i]) /\ Covered(r[i], now) /\ Covered(q[1], r[i])
  <2> SUFFICES ASSUME NEW i \in DOMAIN r
               PROVE  Covered(B, r[i]) /\ Covered(r[i], now) /\ Covered(q[1], r[i])
    OBVIOUS
  <2>1. i + 1 \in DOMAIN q /\ r[i] = q[i + 1] /\ 1 < i + 1
    BY <1>2
  <2> QED BY <1>2, <2>1 DEF Ordered
<1>8. ASSUME NEW i \in DOMAIN r, NEW j \in DOMAIN r, i < j PROVE Covered(r[i], r[j])
  <2>1. /\ i + 1 \in DOMAIN q /\ r[i] = q[i + 1] /\ j + 1 \in DOMAIN q /\ r[j] = q[j + 1]
        /\ i + 1 < j + 1
    BY <1>2, <1>8
  <2> QED BY <2>1 DEF Ordered
<1>9. Covered(B, now)
  BY DEF Ordered
<1> QED BY <1>1, <1>2, <1>4, <1>5, <1>6, <1>7, <1>8, <1>9 DEF Ordered

LEMMA AloneInit == Init => AloneInv
BY DEF Init, AloneInv

LEMMA AloneStep == TypeOK /\ NumbersInv /\ AloneInv /\ [Next]_vars => AloneInv'
<1> SUFFICES ASSUME TypeOK, NumbersInv, AloneInv, [Next]_vars PROVE AloneInv'
  OBVIOUS
<1> USE DEF history, db
<1>1. /\ saves \in [Tabs -> Seq(SUBSET Bindings)] /\ selfBindings \in [Tabs -> SUBSET Bindings]
      /\ unsaved \in [Tabs -> BOOLEAN]
      /\ dbBindings \in SUBSET Bindings /\ phase \in [Tabs -> Phases] /\ logins \in Nat
  BY DEF TypeOK
<1>2. ASSUME NEW t \in Tabs, Open(t) PROVE AloneInv'
  <2>1. /\ phase' = [phase EXCEPT ![t] = "load"] /\ phase[t] = "closed"
        /\ UNCHANGED <<dbBindings, selfBindings, saves, unsaved>>
    BY <1>2 DEF Open
  <2>2. ~crowded' => ~crowded /\ \A u \in Tabs \ {t} : phase[u] = "closed"
    BY <1>2, Zenon DEF Open
  <2> QED BY <1>1, <2>1, <2>2 DEF AloneInv
<1>3. ASSUME NEW t \in Tabs, LoadKey(t) PROVE AloneInv'
  <2>1. /\ phase[t] = "load"
        /\ phase' = [phase EXCEPT ![t] = "bindings"] \/ phase' = [phase EXCEPT ![t] = "save"]
        /\ UNCHANGED <<dbBindings, selfBindings, saves, unsaved, crowded>>
    BY <1>3 DEF LoadKey
  <2> QED BY <1>1, <2>1 DEF AloneInv
<1>4. ASSUME NEW t \in Tabs, SaveKey(t) PROVE AloneInv'
  BY <1>1, <1>4 DEF SaveKey, PutKey, AloneInv
<1>5. ASSUME NEW t \in Tabs, InitFails(t) PROVE AloneInv'
  BY <1>1, <1>5 DEF InitFails, AloneInv
<1>6. ASSUME NEW t \in Tabs, LoadBindings(t) PROVE AloneInv'
  <2>1. /\ phase[t] = "bindings" /\ phase' = [phase EXCEPT ![t] = "running"]
        /\ selfBindings' = [selfBindings EXCEPT ![t] = dbBindings]
        /\ UNCHANGED <<dbBindings, saves, unsaved, crowded>>
    BY <1>6 DEF LoadBindings, StoredBindings
  <2>2. saves[t] = <<>>
    BY <2>1 DEF AloneInv
  <2>3. Ordered(dbBindings, <<>>, dbBindings)
    BY <1>1, OrderedStart
  <2> QED BY <1>1, <2>1, <2>2, <2>3 DEF AloneInv
<1>7. ASSUME NEW t \in Tabs, NEW p \in Providers, NEW k \in 1..minted, Login(t, p, k)
      PROVE  AloneInv'
  <2>1. PICK now : now = Replaced(selfBindings[t], Binding(k, p, logins + 1))
    OBVIOUS
  <2>2. /\ phase[t] = "running" /\ phase' = phase
        /\ selfBindings' = [selfBindings EXCEPT ![t] = now]
        /\ saves' = [saves EXCEPT ![t] = Append(@, now)]
        /\ UNCHANGED <<dbBindings, unsaved, crowded>>
    BY <1>7, <2>1 DEF Login
  <2>3. k \in Nat /\ logins + 1 \in Nat
    BY DEF TypeOK
  <2>4. now \in SUBSET Bindings
    BY <1>1, <2>1, <2>3, ReplacedType
  <2>5. Covered(selfBindings[t], now)
    BY <1>1, <2>1, <2>3, CoveredByLogin DEF NumbersInv
  <2>6. Append(saves[t], now) # <<>>
    BY <1>1, <2>4, Appended
  <2>7. ~crowded => Ordered(dbBindings, Append(saves[t], now), now)
    BY <1>1, <2>2, <2>4, <2>5, OrderedLogin DEF AloneInv
  <2> QED BY <1>1, <2>2, <2>6, <2>7 DEF AloneInv
<1>8. ASSUME NEW t \in Tabs, SaveBindings(t) PROVE AloneInv'
  <2>1. /\ saves[t] # <<>> /\ saves' = [saves EXCEPT ![t] = Tail(@)]
        /\ dbBindings' = Head(saves[t]) /\ unsaved' = [unsaved EXCEPT ![t] = FALSE]
        /\ UNCHANGED <<phase, selfBindings, crowded>>
    BY <1>8 DEF SaveBindings, PutBindings
  <2>2. phase[t] = "running"
    BY <2>1 DEF AloneInv
  <2>3. ~crowded => /\ Ordered(Head(saves[t]), Tail(saves[t]), selfBindings[t])
                    /\ Tail(saves[t]) = <<>> => Head(saves[t]) = selfBindings[t]
    BY <1>1, <2>1, <2>2, OrderedWrite DEF AloneInv
  <2>4. ~crowded => \A u \in Tabs \ {t} : phase[u] = "closed"
    BY <2>2 DEF AloneInv
  <2> QED BY <1>1, <2>1, <2>2, <2>3, <2>4 DEF AloneInv
<1>9. ASSUME NEW t \in Tabs, SaveBindingsFails(t) PROVE AloneInv'
  <2>1. /\ saves[t] # <<>> /\ saves' = [saves EXCEPT ![t] = Tail(@)]
        /\ unsaved' = [unsaved EXCEPT ![t] = TRUE]
        /\ UNCHANGED <<dbBindings, phase, selfBindings, crowded>>
    BY <1>9 DEF SaveBindingsFails
  <2>2. phase[t] = "running"
    BY <2>1 DEF AloneInv
  <2>3. ~crowded => Ordered(dbBindings, Tail(saves[t]), selfBindings[t])
    BY <1>1, <2>1, <2>2, OrderedWrite DEF AloneInv
  <2> QED BY <1>1, <2>1, <2>2, <2>3 DEF AloneInv
<1>10. ASSUME NEW t \in Tabs, Close(t) PROVE AloneInv'
  BY <1>1, <1>10 DEF Close, AloneInv
<1>11. CASE UNCHANGED vars
  BY <1>11 DEF vars, AloneInv
<1> QED BY <1>2, <1>3, <1>4, <1>5, <1>6, <1>7, <1>8, <1>9, <1>10, <1>11 DEF Next, Step

LEMMA AloneAlways == Spec => [](TypeOK /\ NumbersInv /\ AloneInv)
BY TypeInit, TypeStep, NumbersInit, NumbersStep, AloneInit, AloneStep, PTL DEF Spec

\* While tabs come one at a time, a tab with nothing left to write and no write
\* failed shows what a reload will show, however many logins it took and
\* however many of them overlapped the writes of earlier ones.
THEOREM QuietPersisted == Spec => []QuietMeansPersisted
<1>1. AloneInv => QuietMeansPersisted
  BY DEF AloneInv, QuietMeansPersisted
<1> QED BY AloneAlways, <1>1, PTL

LEMMA LoginLostStep ==
  ASSUME TypeOK, AloneInv, [Next]_vars, ~crowded
  PROVE  Covered(dbBindings, dbBindings')
<1>1. /\ saves \in [Tabs -> Seq(SUBSET Bindings)] /\ selfBindings \in [Tabs -> SUBSET Bindings]
      /\ dbBindings \in SUBSET Bindings
  BY DEF TypeOK
<1>2. ASSUME NEW t \in Tabs, SaveBindings(t) PROVE Covered(dbBindings, dbBindings')
  <2>1. saves[t] # <<>> /\ dbBindings' = Head(saves[t])
    BY <1>2 DEF SaveBindings, PutBindings
  <2>2. Ordered(dbBindings, saves[t], selfBindings[t])
    BY <2>1 DEF AloneInv
  <2> QED BY <1>1, <2>1, <2>2, OrderedWrite
<1>3. CASE UNCHANGED dbBindings
  BY <1>1, <1>3, CoveredSelf
<1> QED BY <1>2, <1>3 DEF Next, Step, Open, LoadKey, SaveKey, LoadBindings, InitFails, Login,
           SaveBindingsFails, Close, PutKey, db, vars

\* While tabs come one at a time, a stored login goes only when a login with
\* the same provider replaces it: the writes of overlapping logins do not
\* undo each other.
THEOREM LoginsNotLost == Spec => LoginsLostOnlyByCrowd
<1>1. TypeOK /\ AloneInv /\ [Next]_vars
        => [~crowded => \A b \in dbBindings : \E c \in dbBindings' :
              c.provider = b.provider /\ c.number >= b.number]_vars
  BY LoginLostStep DEF Covered
<1> QED BY AloneAlways, <1>1, PTL DEF Spec, LoginsLostOnlyByCrowd

-----------------------------------------------------------------------------
(* The error pipeline of the tab *)

LEMMA ErrorFields ==
  /\ \A x \in Errors : x.key \in Keys /\ x.id \in Nat
  /\ \A n \in Nat, k \in Keys : [id |-> n, key |-> k] \in Errors
BY DEF Errors

LEMMA CountNat ==
  ASSUME NEW q \in Seq(Errors), NEW k
  PROVE  /\ Count(k, q) \in Nat
         /\ IsFiniteSet({i \in 1..Len(q) : q[i].key = k})
         /\ Count(k, q) = Cardinality({i \in 1..Len(q) : q[i].key = k})
<1>1. DOMAIN q = 1..Len(q) /\ Len(q) \in Nat
  OBVIOUS
<1>2. IsFiniteSet(1..Len(q))
  BY <1>1, FS_Interval
<1>3. {i \in 1..Len(q) : q[i].key = k} \in SUBSET (1..Len(q))
  OBVIOUS
<1>4. IsFiniteSet({i \in 1..Len(q) : q[i].key = k})
  BY <1>2, <1>3, FS_Subset
<1>5. Count(k, q) = Cardinality({i \in 1..Len(q) : q[i].key = k})
  BY <1>1 DEF Count
<1> QED BY <1>4, <1>5, FS_CardinalityType

LEMMA CountEmpty ==
  ASSUME NEW k
  PROVE  Count(k, <<>>) = 0
<1>1. {i \in DOMAIN <<>> : <<>>[i].key = k} = {}
  OBVIOUS
<1> QED BY <1>1, FS_EmptySet DEF Count

\* One more error counts for its own key.
LEMMA CountAppend ==
  ASSUME NEW q \in Seq(Errors), NEW x \in Errors, NEW k
  PROVE  Count(k, Append(q, x)) = Count(k, q) + (IF x.key = k THEN 1 ELSE 0)
<1>1. PICK r : r = Append(q, x)
  OBVIOUS
<1>2. /\ r \in Seq(Errors) /\ Len(r) = Len(q) + 1 /\ Len(q) \in Nat
      /\ r[Len(q) + 1] = x
      /\ \A i \in 1..Len(q) : r[i] = q[i]
  BY <1>1
<1>3. PICK S : S = {i \in 1..Len(q) : q[i].key = k}
  OBVIOUS
<1>4. IsFiniteSet(S) /\ Cardinality(S) = Count(k, q) /\ Count(k, q) \in Nat
  BY <1>3, CountNat
<1>5. Count(k, r) = Cardinality({i \in 1..(Len(q) + 1) : r[i].key = k})
  BY <1>2, CountNat
<1>6. Len(q) + 1 \notin S
  BY <1>2, <1>3
<1>7. CASE x.key = k
  <2>1. {i \in 1..(Len(q) + 1) : r[i].key = k} = S \cup {Len(q) + 1}
    BY <1>2, <1>3, <1>7
  <2>2. Cardinality(S \cup {Len(q) + 1}) = Cardinality(S) + 1
    BY <1>4, <1>6, FS_AddElement
  <2> QED BY <1>1, <1>4, <1>5, <1>7, <2>1, <2>2
<1>8. CASE x.key # k
  <2>1. {i \in 1..(Len(q) + 1) : r[i].key = k} = S
    BY <1>2, <1>3, <1>8
  <2>2. (IF x.key = k THEN 1 ELSE 0) = 0
    BY <1>8
  <2>3. Count(k, Append(q, x)) = Count(k, q)
    BY <1>1, <1>4, <1>5, <2>1
  <2> QED BY <1>4, <2>2, <2>3
<1> QED BY <1>7, <1>8

\* The first error leaves: its key counts one less.
LEMMA CountTail ==
  ASSUME NEW q \in Seq(Errors), q # <<>>, NEW k
  PROVE  Count(k, q) = Count(k, Tail(q)) + (IF Head(q).key = k THEN 1 ELSE 0)
<1>1. PICK r : r = Tail(q)
  OBVIOUS
<1>2. /\ Len(q) \in Nat \ {0} /\ Head(q) = q[1]
      /\ r \in Seq(Errors) /\ Len(r) = Len(q) - 1 /\ Len(r) \in Nat
      /\ \A i \in 1..Len(r) : r[i] = q[i + 1]
  BY <1>1
<1>3. PICK S, T : S = {i \in 1..Len(r) : r[i].key = k} /\ T = {i \in 2..Len(q) : q[i].key = k}
  OBVIOUS
<1>4. IsFiniteSet(S) /\ Cardinality(S) = Count(k, r) /\ Count(k, r) \in Nat
  BY <1>2, <1>3, CountNat
<1>5. IsFiniteSet(T) /\ Cardinality(T) = Cardinality(S)
  <2>1. PICK f : f = [i \in S |-> i + 1]
    OBVIOUS
  <2>2. \A i \in S : i \in Nat /\ i + 1 \in T
    BY <1>2, <1>3
  <2>3. f \in [S -> T]
    BY <2>1, <2>2
  <2>4. \A i, j \in S : f[i] = f[j] => i = j
    BY <2>1, <2>2
  <2>5. \A j \in T : j - 1 \in S /\ (j - 1) + 1 = j
    <3> SUFFICES ASSUME NEW j \in T PROVE j - 1 \in S /\ (j - 1) + 1 = j
      OBVIOUS
    <3>1. j \in 2..Len(q) /\ q[j].key = k
      BY <1>3
    <3>2. j - 1 \in 1..Len(r) /\ (j - 1) + 1 = j
      BY <1>2, <3>1
    <3>3. r[j - 1] = q[j]
      BY <1>2, <3>2
    <3> QED BY <1>3, <3>1, <3>2, <3>3
  <2>6. \A j \in T : \E i \in S : f[i] = j
    BY <2>1, <2>5
  <2>7. f \in Bijection(S, T)
    BY <2>3, <2>4, <2>6 DEF Bijection, Injection, Surjection, IsInjective
  <2> QED BY <1>4, <2>7, FS_Bijection DEF ExistsBijection
<1>6. Count(k, q) = Cardinality({i \in 1..Len(q) : q[i].key = k})
  BY CountNat
<1>7. CASE q[1].key = k
  <2>1. {i \in 1..Len(q) : q[i].key = k} = T \cup {1}
    BY <1>2, <1>3, <1>7
  <2>2. 1 \notin T
    BY <1>3
  <2>3. Cardinality(T \cup {1}) = Cardinality(T) + 1
    BY <1>5, <2>2, FS_AddElement
  <2> QED BY <1>1, <1>2, <1>4, <1>5, <1>6, <1>7, <2>1, <2>3
<1>8. CASE q[1].key # k
  <2>1. {i \in 1..Len(q) : q[i].key = k} = T
    BY <1>2, <1>3, <1>8
  <2>2. (IF Head(q).key = k THEN 1 ELSE 0) = 0
    BY <1>2, <1>8
  <2>3. Count(k, q) = Count(k, Tail(q))
    BY <1>1, <1>4, <1>5, <1>6, <2>1
  <2>4. Count(k, Tail(q)) \in Nat
    BY <1>1, <1>4
  <2> QED BY <2>2, <2>3, <2>4
<1> QED BY <1>7, <1>8

\* The rendering loop runs exactly while it has errors before it.
ThreadInv == call = "rendering" <=> drained # <<>>

PipeInv == ErrorTypeOK /\ ThreadInv /\ EveryErrorAccounted

LEMMA PipeInitially ==
  ASSUME ErrorInit
  PROVE  PipeInv
<1>1. <<>> \in Seq(Errors) /\ Len(<<>>) = 0 /\ DOMAIN <<>> = {}
  OBVIOUS
<1>2. ErrorTypeOK
  <2>1. buffer \in Seq(Errors) /\ Len(buffer) <= Cap /\ drained \in Seq(Errors)
    BY <1>1, CapAssumption DEF ErrorInit
  <2>2. emitted \in Nat /\ burst \in 0..MaxBurst
    BY BurstAssumption DEF ErrorInit
  <2>3. /\ blocks \in [Keys -> Blocks \cup {NoBlock}]
        /\ overlay \in BOOLEAN /\ call \in {"idle", "running", "rendering"}
    BY DEF ErrorInit
  <2>4. reported \in [Keys -> Nat] /\ early \in [Keys -> Nat] /\ evicted \in [Keys -> Nat]
    BY DEF ErrorInit
  <2> QED BY <2>1, <2>2, <2>3, <2>4 DEF ErrorTypeOK
<1>3. ThreadInv /\ BufferIsNewest
  BY <1>1 DEF ErrorInit, ThreadInv, BufferIsNewest
<1>4. \A k \in Keys :
        reported[k] = Shown(k) + Count(k, drained) + Count(k, buffer)
                        + early[k] + evicted[k]
  <2> SUFFICES ASSUME NEW k \in Keys
               PROVE  reported[k] = Shown(k) + Count(k, drained)
                                      + Count(k, buffer) + early[k] + evicted[k]
    OBVIOUS
  <2>1. Shown(k) = 0 /\ reported[k] = 0 /\ early[k] = 0 /\ evicted[k] = 0
    BY DEF ErrorInit, Shown
  <2>2. Count(k, drained) = 0 /\ Count(k, buffer) = 0
    BY CountEmpty DEF ErrorInit
  <2> QED BY <2>1, <2>2
<1> QED BY <1>2, <1>3, <1>4 DEF PipeInv, EveryErrorAccounted

\* What emitting does to the buffer and to the history: the errors of a key that
\* are reported grow as those that wait and those that were dropped do.
LEMMA EmitKeeps ==
  ASSUME ErrorTypeOK, BufferIsNewest, NEW k \in Keys, Emit(k)
  PROVE  /\ buffer' \in Seq(Errors) /\ Len(buffer') <= Cap
         /\ emitted' \in Nat
         /\ reported' \in [Keys -> Nat] /\ evicted' \in [Keys -> Nat]
         /\ BufferIsNewest'
         /\ \A j \in Keys :
              reported'[j] + Count(j, buffer) + evicted[j]
                = reported[j] + Count(j, buffer)' + evicted'[j]
<1>1. PICK kept, x : kept = Kept(buffer) /\ x = [id |-> emitted + 1, key |-> k]
  OBVIOUS
<1>2. /\ buffer \in Seq(Errors) /\ Len(buffer) \in Nat /\ Len(buffer) <= Cap
      /\ Cap \in Nat \ {0} /\ emitted \in Nat
      /\ reported \in [Keys -> Nat] /\ evicted \in [Keys -> Nat]
  BY CapAssumption DEF ErrorTypeOK
<1>3. x \in Errors /\ x.key = k /\ x.id = emitted + 1
  BY <1>1, <1>2 DEF Errors
<1>4. /\ emitted' = emitted + 1
      /\ buffer' = Append(kept, x)
      /\ reported' = [reported EXCEPT ![k] = @ + 1]
      /\ evicted' = IF kept = buffer THEN evicted
                    ELSE [evicted EXCEPT ![Head(buffer).key] = @ + 1]
  BY <1>1 DEF Emit
<1>5. \A i \in 1..Len(buffer) : buffer[i].id = emitted - Len(buffer) + i
  BY <1>2 DEF BufferIsNewest
<1>6. \A j \in Keys : reported'[j] = reported[j] + (IF x.key = j THEN 1 ELSE 0)
  BY <1>2, <1>3, <1>4
<1>7. emitted' \in Nat /\ reported' \in [Keys -> Nat]
  BY <1>2, <1>4
<1>8. CASE Len(buffer) < Cap
  <2>1. kept = buffer
    BY <1>1, <1>2, <1>8 DEF Kept
  <2>2. /\ buffer' \in Seq(Errors) /\ Len(buffer') = Len(buffer) + 1
        /\ \A i \in 1..Len(buffer) : buffer'[i] = buffer[i]
        /\ buffer'[Len(buffer) + 1] = x
    BY <1>2, <1>3, <1>4, <2>1
  <2>3. \A i \in 1..Len(buffer') : buffer'[i].id = emitted' - Len(buffer') + i
    BY <1>2, <1>3, <1>4, <1>5, <2>2
  <2>4. evicted' = evicted /\ Len(buffer') <= Cap
    BY <1>2, <1>4, <1>8, <2>1, <2>2
  <2>5. \A j \in Keys :
          Count(j, buffer)' = Count(j, buffer) + (IF x.key = j THEN 1 ELSE 0)
    <3>1. \A j \in Keys : Count(j, buffer)' = Count(j, Append(buffer, x))
      BY <1>4, <2>1 DEF Count
    <3> QED BY <1>2, <1>3, <3>1, CountAppend
  <2>6. BufferIsNewest'
    <3>1. DOMAIN buffer' = 1..Len(buffer')
      BY <2>2
    <3> QED BY <2>3, <3>1 DEF BufferIsNewest
  <2>7. \A j \in Keys :
          reported'[j] + Count(j, buffer) + evicted[j]
            = reported[j] + Count(j, buffer)' + evicted'[j]
    <3> SUFFICES ASSUME NEW j \in Keys
                 PROVE  reported'[j] + Count(j, buffer) + evicted[j]
                          = reported[j] + Count(j, buffer)' + evicted'[j]
      OBVIOUS
    <3>1. Count(j, buffer) \in Nat /\ evicted[j] \in Nat /\ reported[j] \in Nat
      BY <1>2, CountNat
    <3>2. (IF x.key = j THEN 1 ELSE 0) \in Nat
      OBVIOUS
    <3> QED BY <1>6, <2>4, <2>5, <3>1, <3>2
  <2> QED BY <1>2, <1>7, <2>2, <2>4, <2>6, <2>7
<1>9. CASE Len(buffer) >= Cap
  <2>1. kept = Tail(buffer) /\ buffer # <<>>
    BY <1>1, <1>2, <1>9 DEF Kept
  <2>2. /\ kept \in Seq(Errors) /\ Len(kept) = Len(buffer) - 1 /\ Len(kept) \in Nat
        /\ \A i \in 1..Len(kept) : kept[i] = buffer[i + 1]
        /\ Head(buffer) = buffer[1]
    BY <1>2, <2>1
  <2>3. kept # buffer /\ Head(buffer) \in Errors
    <3>1. Len(kept) # Len(buffer)
      BY <1>2, <2>2
    <3>2. 1 \in 1..Len(buffer)
      BY <1>2, <1>9
    <3> QED BY <1>2, <2>2, <3>1, <3>2
  <2>4. Head(buffer).key \in Keys
    BY <2>3, ErrorFields
  <2>5. /\ evicted' = [evicted EXCEPT ![Head(buffer).key] = @ + 1]
        /\ evicted' \in [Keys -> Nat]
    BY <1>2, <1>4, <2>3, <2>4
  <2>6. /\ buffer' \in Seq(Errors) /\ Len(buffer') = Len(buffer)
        /\ \A i \in 1..Len(kept) : buffer'[i] = kept[i]
        /\ buffer'[Len(buffer)] = x
    BY <1>2, <1>3, <1>4, <2>2
  <2>7. \A i \in 1..Len(buffer') : buffer'[i].id = emitted' - Len(buffer') + i
    <3> SUFFICES ASSUME NEW i \in 1..Len(buffer')
                 PROVE  buffer'[i].id = emitted' - Len(buffer') + i
      OBVIOUS
    <3>1. CASE i = Len(buffer)
      BY <1>2, <1>3, <1>4, <2>6, <3>1
    <3>2. CASE i # Len(buffer)
      <4>1. i \in 1..Len(kept) /\ i + 1 \in 1..Len(buffer)
        BY <1>2, <2>2, <2>6, <3>2
      <4>2. buffer'[i] = buffer[i + 1]
        BY <2>2, <2>6, <4>1
      <4>3. buffer[i + 1].id = emitted - Len(buffer) + (i + 1)
        BY <1>5, <4>1
      <4> QED BY <1>2, <1>4, <2>6, <4>1, <4>2, <4>3
    <3> QED BY <3>1, <3>2
  <2>8. \A j \in Keys :
          /\ Count(j, Append(kept, x))
               = Count(j, kept) + (IF x.key = j THEN 1 ELSE 0)
          /\ Count(j, buffer)
               = Count(j, kept) + (IF Head(buffer).key = j THEN 1 ELSE 0)
          /\ Count(j, kept) \in Nat
    BY <1>2, <1>3, <2>1, <2>2, CountAppend, CountTail, CountNat
  <2>9. \A j \in Keys : evicted'[j] = evicted[j] + (IF Head(buffer).key = j THEN 1 ELSE 0)
    BY <1>2, <2>4, <2>5
  <2>10. \A j \in Keys : Count(j, buffer)' = Count(j, Append(kept, x))
    BY <1>4 DEF Count
  <2>11. \A j \in Keys :
           reported'[j] + Count(j, buffer) + evicted[j]
             = reported[j] + Count(j, buffer)' + evicted'[j]
    <3> SUFFICES ASSUME NEW j \in Keys
                 PROVE  reported'[j] + Count(j, buffer) + evicted[j]
                          = reported[j] + Count(j, buffer)' + evicted'[j]
      OBVIOUS
    <3>1. PICK a, b, c, n : /\ a = (IF x.key = j THEN 1 ELSE 0)
                            /\ b = (IF Head(buffer).key = j THEN 1 ELSE 0)
                            /\ c = evicted[j] /\ n = reported[j]
      OBVIOUS
    <3>2. a \in Nat /\ b \in Nat /\ c \in Nat /\ n \in Nat
      BY <1>2, <3>1
    <3>3. /\ reported'[j] = n + a
          /\ Count(j, buffer) = Count(j, kept) + b
          /\ Count(j, buffer)' = Count(j, kept) + a
          /\ evicted'[j] = c + b
          /\ Count(j, kept) \in Nat
      BY <1>6, <2>8, <2>9, <2>10, <3>1
    <3> QED BY <3>1, <3>2, <3>3
  <2>12. BufferIsNewest'
    <3>1. DOMAIN buffer' = 1..Len(buffer')
      BY <2>6
    <3> QED BY <2>7, <3>1 DEF BufferIsNewest
  <2> QED BY <1>2, <1>7, <2>5, <2>6, <2>11, <2>12
<1> QED BY <1>2, <1>8, <1>9

LEMMA BumpedBlock ==
  ASSUME NEW b \in Blocks
  PROVE  /\ Bumped(b) \in Blocks
         /\ Bumped(b).count = b.count + 1
         /\ Bumped(b).hidden = FALSE
         /\ b.count \in Nat \ {0}
<1>1. PICK c, i, h : /\ c \in Nat \ {0} /\ i \in Nat /\ h \in BOOLEAN
                     /\ b = [id |-> i, count |-> c, hidden |-> h]
  BY DEF Blocks
<1>2. Bumped(b) = [id |-> i, count |-> c + 1, hidden |-> FALSE]
  <2>1. b.count = c
    BY <1>1
  <2>2. [b EXCEPT !.count = c + 1] = [id |-> i, count |-> c + 1, hidden |-> h]
    BY <1>1
  <2>3. Bumped(b) = [b EXCEPT !.count = c + 1, !.hidden = FALSE]
    BY <2>1 DEF Bumped
  <2>4. [[id |-> i, count |-> c + 1, hidden |-> h] EXCEPT !.hidden = FALSE]
          = [id |-> i, count |-> c + 1, hidden |-> FALSE]
    <3>1. \A n, g, g2 : [[id |-> i, count |-> n, hidden |-> g] EXCEPT !.hidden = g2]
                           = [id |-> i, count |-> n, hidden |-> g2]
      OBVIOUS
    <3> QED BY <3>1
  <2>5. [b EXCEPT !.count = c + 1, !.hidden = FALSE] = [[b EXCEPT !.count = c + 1] EXCEPT !.hidden = FALSE]
    OBVIOUS
  <2> QED BY <2>2, <2>3, <2>4, <2>5
<1>3. c + 1 \in Nat \ {0} /\ FALSE \in BOOLEAN
  BY <1>1
<1>4. [id |-> i, count |-> c + 1, hidden |-> FALSE] \in Blocks
  BY <1>1, <1>3 DEF Blocks
<1> QED BY <1>1, <1>2, <1>4

LEMMA HiddenBlock ==
  ASSUME NEW b \in Blocks
  PROVE  /\ [b EXCEPT !.hidden = TRUE] \in Blocks
         /\ [b EXCEPT !.hidden = TRUE].count = b.count
BY DEF Blocks

LEMMA NewBlock ==
  ASSUME NEW n \in Nat
  PROVE  /\ [id |-> n, count |-> 1, hidden |-> FALSE] \in Blocks
         /\ [id |-> n, count |-> 1, hidden |-> FALSE].count = 1
         /\ [id |-> n, count |-> 1, hidden |-> FALSE].hidden = FALSE
BY DEF Blocks

\* What remains the same if neither the blocks nor what is drained changes.
LEMMA EmittingStep ==
  ASSUME PipeInv, NEW k \in Keys, Emit(k),
         UNCHANGED <<overlay, blocks, drained, early>>,
         \/ UNCHANGED <<call, burst>>
         \/ call # "rendering" /\ call' = "running" /\ burst' \in 0..MaxBurst
  PROVE  PipeInv'
<1>1. ErrorTypeOK /\ ThreadInv /\ BufferIsNewest
  BY DEF PipeInv, EveryErrorAccounted
<1>2. /\ buffer' \in Seq(Errors) /\ Len(buffer') <= Cap
      /\ emitted' \in Nat
      /\ reported' \in [Keys -> Nat] /\ evicted' \in [Keys -> Nat]
      /\ BufferIsNewest'
      /\ \A j \in Keys :
           reported'[j] + Count(j, buffer) + evicted[j]
             = reported[j] + Count(j, buffer)' + evicted'[j]
  BY <1>1, EmitKeeps
<1>3. ErrorTypeOK'
  BY <1>1, <1>2 DEF ErrorTypeOK
<1>4. ThreadInv'
  BY <1>1 DEF ThreadInv
<1>5. \A j \in Keys :
        reported'[j] = Shown(j)' + Count(j, drained)' + Count(j, buffer)'
                         + early'[j] + evicted'[j]
  <2> SUFFICES ASSUME NEW j \in Keys
               PROVE  reported'[j] = Shown(j)' + Count(j, drained)'
                                       + Count(j, buffer)' + early'[j] + evicted'[j]
    OBVIOUS
  <2>1. Shown(j)' = Shown(j) /\ Count(j, drained)' = Count(j, drained)
    BY DEF Shown, Count
  <2>2. Shown(j) \in Nat
    BY <1>1, BumpedBlock DEF Shown, ErrorTypeOK
  <2>3. Count(j, drained) \in Nat /\ Count(j, buffer) \in Nat
    BY <1>1, CountNat DEF ErrorTypeOK
  <2>4. Count(j, buffer)' \in Nat
    <3>1. Count(j, buffer') \in Nat
      BY <1>2, CountNat
    <3> QED BY <3>1 DEF Count
  <2>5. /\ reported[j] \in Nat /\ evicted[j] \in Nat /\ early[j] \in Nat
        /\ reported'[j] \in Nat /\ evicted'[j] \in Nat /\ early'[j] = early[j]
    BY <1>1, <1>2 DEF ErrorTypeOK
  <2>6. reported[j] = Shown(j) + Count(j, drained) + Count(j, buffer)
                        + early[j] + evicted[j]
    BY DEF PipeInv, EveryErrorAccounted
  <2>7. reported'[j] + Count(j, buffer) + evicted[j]
          = reported[j] + Count(j, buffer)' + evicted'[j]
    BY <1>2
  <2> QED BY <2>1, <2>2, <2>3, <2>4, <2>5, <2>6, <2>7
<1> QED BY <1>2, <1>3, <1>4, <1>5 DEF PipeInv, EveryErrorAccounted

LEMMA RenderStep ==
  ASSUME PipeInv, Render
  PROVE  PipeInv'
<1>1. ErrorTypeOK /\ ThreadInv /\ drained = <<>>
  BY DEF PipeInv, ThreadInv, Render
<1>2. /\ buffer' = <<>> /\ burst' = 0
      /\ call' = IF overlay /\ buffer # <<>> THEN "rendering" ELSE "idle"
      /\ drained' = IF overlay THEN buffer ELSE <<>>
      /\ early' = IF overlay THEN early
                  ELSE [k \in Keys |-> early[k] + Count(k, buffer)]
      /\ UNCHANGED <<emitted, overlay, blocks, reported, evicted>>
  BY DEF Render, errorPage
<1>3. <<>> \in Seq(Errors) /\ Len(<<>>) = 0 /\ DOMAIN <<>> = {} /\ Cap \in Nat
  BY CapAssumption
<1>4. \A k \in Keys : /\ reported[k] \in Nat /\ evicted[k] \in Nat /\ early[k] \in Nat
                      /\ Count(k, buffer) \in Nat /\ Shown(k) \in Nat
  BY <1>1, CountNat, BumpedBlock DEF ErrorTypeOK, Shown
<1>5. ErrorTypeOK'
  <2>1. early' \in [Keys -> Nat]
    BY <1>1, <1>2, <1>4 DEF ErrorTypeOK
  <2>2. drained' \in Seq(Errors) /\ call' \in {"idle", "running", "rendering"}
    BY <1>1, <1>2, <1>3 DEF ErrorTypeOK
  <2>3. buffer' \in Seq(Errors) /\ Len(buffer') <= Cap /\ burst' \in 0..MaxBurst
    BY <1>2, <1>3, BurstAssumption
  <2> QED BY <1>1, <1>2, <2>1, <2>2, <2>3 DEF ErrorTypeOK
<1>6. ThreadInv'
  BY <1>2 DEF ThreadInv
<1>7. BufferIsNewest'
  BY <1>2, <1>3 DEF BufferIsNewest
<1>8. \A k \in Keys :
        reported'[k] = Shown(k)' + Count(k, drained)' + Count(k, buffer)'
                         + early'[k] + evicted'[k]
  <2> SUFFICES ASSUME NEW k \in Keys
               PROVE  reported'[k] = Shown(k)' + Count(k, drained)'
                                       + Count(k, buffer)' + early'[k] + evicted'[k]
    OBVIOUS
  <2>1. Shown(k)' = Shown(k) /\ reported'[k] = reported[k] /\ evicted'[k] = evicted[k]
    BY <1>2 DEF Shown
  <2>2. Count(k, buffer)' = Count(k, <<>>) /\ Count(k, <<>>) = 0
    BY <1>2, CountEmpty DEF Count
  <2>3. Count(k, drained) = 0
    BY <1>1, CountEmpty
  <2>4. reported[k] = Shown(k) + Count(k, drained) + Count(k, buffer)
                        + early[k] + evicted[k]
    BY DEF PipeInv, EveryErrorAccounted
  <2>5. CASE overlay
    <3>1. early'[k] = early[k] /\ Count(k, drained)' = Count(k, buffer)
      BY <1>2, <2>5 DEF Count
    <3> QED BY <1>4, <2>1, <2>2, <2>3, <2>4, <3>1
  <2>6. CASE ~overlay
    <3>1. /\ early'[k] = early[k] + Count(k, buffer)
          /\ Count(k, drained)' = Count(k, <<>>)
      BY <1>2, <2>6 DEF Count
    <3> QED BY <1>4, <2>1, <2>2, <2>3, <2>4, <3>1
  <2> QED BY <2>5, <2>6
<1> QED BY <1>5, <1>6, <1>7, <1>8 DEF PipeInv, EveryErrorAccounted

\* What one round of the loop makes of a block.
LEMMA RenderedBlock ==
  ASSUME ErrorTypeOK, ThreadInv, RenderOne
  PROVE  \E e \in Errors :
           /\ e = Head(drained) /\ drained # <<>>
           /\ \A k \in Keys \ {e.key} : blocks'[k] = blocks[k]
           /\ blocks' \in [Keys -> Blocks \cup {NoBlock}]
           /\ blocks'[e.key] # NoBlock /\ blocks'[e.key].hidden = FALSE
           /\ Shown(e.key)' = Shown(e.key) + 1
<1>1. PICK e : e = Head(drained)
  OBVIOUS
<1>2. drained \in Seq(Errors) /\ drained # <<>> /\ blocks \in [Keys -> Blocks \cup {NoBlock}]
  BY DEF ErrorTypeOK, ThreadInv, RenderOne
<1>3. e \in Errors
  <2>1. 1 \in 1..Len(drained) /\ e = drained[1]
    BY <1>1, <1>2
  <2> QED BY <1>2, <2>1
<1>4. e.key \in Keys /\ e.id \in Nat
  BY <1>3, ErrorFields
<1>5. PICK b : b = IF blocks[e.key] = NoBlock THEN [id |-> e.id, count |-> 1, hidden |-> FALSE]
                   ELSE Bumped(blocks[e.key])
  OBVIOUS
<1>6. blocks' = [blocks EXCEPT ![e.key] = b]
  BY <1>1, <1>5 DEF RenderOne
<1>7. b \in Blocks /\ b.hidden = FALSE /\ b # NoBlock /\ b.count = Shown(e.key) + 1
  <2>1. CASE blocks[e.key] = NoBlock
    BY <1>4, <1>5, <2>1, NewBlock, NoBlockAssumption DEF Shown
  <2>2. CASE blocks[e.key] # NoBlock
    <3>1. blocks[e.key] \in Blocks
      BY <1>2, <1>4, <2>2
    <3> QED BY <1>5, <2>2, <3>1, BumpedBlock, NoBlockAssumption DEF Shown
  <2> QED BY <2>1, <2>2
<1>8. /\ \A k \in Keys \ {e.key} : blocks'[k] = blocks[k]
      /\ blocks'[e.key] = b
      /\ blocks' \in [Keys -> Blocks \cup {NoBlock}]
  BY <1>2, <1>4, <1>6, <1>7
<1>9. Shown(e.key)' = b.count
  BY <1>7, <1>8 DEF Shown
<1> QED BY <1>1, <1>2, <1>3, <1>7, <1>8, <1>9

LEMMA EmptyByLength ==
  ASSUME NEW S, NEW q \in Seq(S)
  PROVE  q = <<>> <=> Len(q) = 0
OBVIOUS

LEMMA RenderOneStep ==
  ASSUME PipeInv, RenderOne
  PROVE  PipeInv'
<1>1. ErrorTypeOK /\ ThreadInv
  BY DEF PipeInv
<1>2. PICK e \in Errors :
        /\ e = Head(drained) /\ drained # <<>>
        /\ \A k \in Keys \ {e.key} : blocks'[k] = blocks[k]
        /\ blocks' \in [Keys -> Blocks \cup {NoBlock}]
        /\ blocks'[e.key] # NoBlock /\ blocks'[e.key].hidden = FALSE
        /\ Shown(e.key)' = Shown(e.key) + 1
  BY <1>1, RenderedBlock
<1>3. /\ drained' = Tail(drained) /\ call = "rendering"
      /\ call' = IF Len(drained) = 1 THEN "idle" ELSE call
      /\ UNCHANGED <<buffer, emitted, overlay, burst, reported, early, evicted>>
  BY DEF RenderOne
<1>4. /\ drained \in Seq(Errors) /\ Tail(drained) \in Seq(Errors)
      /\ Len(drained) \in Nat \ {0} /\ (Tail(drained) = <<>> <=> Len(drained) = 1)
  <2>1. drained \in Seq(Errors)
    BY <1>1 DEF ErrorTypeOK
  <2>2. /\ Len(drained) \in Nat \ {0} /\ Tail(drained) \in Seq(Errors)
        /\ Len(Tail(drained)) = Len(drained) - 1
    BY <1>2, <2>1
  <2>3. Tail(drained) = <<>> <=> Len(Tail(drained)) = 0
    BY <2>2, EmptyByLength
  <2> QED BY <2>1, <2>2, <2>3
<1>5. ErrorTypeOK'
  BY <1>1, <1>2, <1>3, <1>4 DEF ErrorTypeOK
<1>6. ThreadInv'
  BY <1>3, <1>4 DEF ThreadInv
<1>7. BufferIsNewest'
  BY <1>3 DEF PipeInv, EveryErrorAccounted, BufferIsNewest
<1>8. \A k \in Keys :
        reported'[k] = Shown(k)' + Count(k, drained)' + Count(k, buffer)'
                         + early'[k] + evicted'[k]
  <2> SUFFICES ASSUME NEW k \in Keys
               PROVE  reported'[k] = Shown(k)' + Count(k, drained)'
                                       + Count(k, buffer)' + early'[k] + evicted'[k]
    OBVIOUS
  <2>1. /\ reported'[k] = reported[k] /\ evicted'[k] = evicted[k] /\ early'[k] = early[k]
        /\ Count(k, buffer)' = Count(k, buffer)
        /\ Count(k, drained)' = Count(k, Tail(drained))
    BY <1>3 DEF Count
  <2>2. /\ reported[k] \in Nat /\ evicted[k] \in Nat /\ early[k] \in Nat
        /\ Count(k, buffer) \in Nat /\ Shown(k) \in Nat
        /\ Count(k, Tail(drained)) \in Nat /\ Count(k, drained) \in Nat
    BY <1>1, <1>4, CountNat, BumpedBlock DEF ErrorTypeOK, Shown
  <2>3. reported[k] = Shown(k) + Count(k, drained) + Count(k, buffer)
                        + early[k] + evicted[k]
    BY DEF PipeInv, EveryErrorAccounted
  <2>4. Count(k, drained)
          = Count(k, Tail(drained)) + (IF e.key = k THEN 1 ELSE 0)
    BY <1>2, <1>4, CountTail
  <2>5. CASE e.key = k
    <3>1. Count(k, drained) = Count(k, Tail(drained)) + 1
      BY <2>4, <2>5
    <3>2. Shown(k)' = Shown(k) + 1
      BY <1>2, <2>5
    <3> QED BY <2>1, <2>2, <2>3, <3>1, <3>2
  <2>6. CASE e.key # k
    <3>1. Count(k, drained) = Count(k, Tail(drained))
      BY <2>2, <2>4, <2>6
    <3>2. Shown(k)' = Shown(k)
      BY <1>2, <2>6 DEF Shown
    <3> QED BY <2>1, <2>2, <2>3, <3>1, <3>2
  <2> QED BY <2>5, <2>6
<1> QED BY <1>5, <1>6, <1>7, <1>8 DEF PipeInv, EveryErrorAccounted

\* A dismissal hides a block and leaves its count.
LEMMA DismissedBlock ==
  ASSUME ErrorTypeOK, NEW k \in Keys, Dismiss(k)
  PROVE  /\ blocks' \in [Keys -> Blocks \cup {NoBlock}]
         /\ \A j \in Keys : Shown(j)' = Shown(j)
         /\ \A j \in Keys \ {k} : blocks'[j] = blocks[j]
         /\ blocks[k] # NoBlock /\ blocks'[k].count = blocks[k].count
<1>1. PICK b : b = [blocks[k] EXCEPT !.hidden = TRUE]
  OBVIOUS
<1>2. blocks' = [blocks EXCEPT ![k] = b] /\ blocks[k] # NoBlock
  BY <1>1 DEF Dismiss
<1>3. blocks \in [Keys -> Blocks \cup {NoBlock}] /\ blocks[k] \in Blocks
  BY <1>2 DEF ErrorTypeOK
<1>4. b \in Blocks /\ b.count = blocks[k].count /\ b # NoBlock
  BY <1>1, <1>3, HiddenBlock, NoBlockAssumption
<1>5. /\ blocks' \in [Keys -> Blocks \cup {NoBlock}] /\ blocks'[k] = b
      /\ \A j \in Keys \ {k} : blocks'[j] = blocks[j]
  BY <1>2, <1>3, <1>4
<1>6. \A j \in Keys : Shown(j)' = Shown(j)
  BY <1>2, <1>4, <1>5 DEF Shown
<1> QED BY <1>2, <1>4, <1>5, <1>6

\* The steps that emit nothing and render nothing.
LEMMA PageStep ==
  ASSUME PipeInv,
         InstallOverlay \/ (\E k \in Keys : Dismiss(k)) \/ UNCHANGED errorVars
  PROVE  PipeInv'
<1>1. ErrorTypeOK /\ ThreadInv
  BY DEF PipeInv
<1>2. UNCHANGED <<buffer, emitted, burst, drained, reported, early, evicted>>
  BY DEF InstallOverlay, Dismiss, errorVars, thread
<1>3. /\ blocks' \in [Keys -> Blocks \cup {NoBlock}]
      /\ \A j \in Keys : Shown(j)' = Shown(j)
  <2>1. CASE \E k \in Keys : Dismiss(k)
    BY <1>1, <2>1, DismissedBlock
  <2>2. CASE UNCHANGED blocks
    BY <1>1, <2>2 DEF ErrorTypeOK, Shown
  <2> QED BY <2>1, <2>2 DEF InstallOverlay, errorVars, errorPage
<1>4. /\ overlay' \in BOOLEAN
      /\ \/ call' = call
         \/ call = "idle" /\ call' = "running"
  <2>1. CASE InstallOverlay
    BY <2>1 DEF InstallOverlay
  <2>2. CASE UNCHANGED <<overlay, call>>
    BY <1>1, <2>2 DEF ErrorTypeOK
  <2> QED BY <2>1, <2>2 DEF Dismiss, errorVars, errorPage, thread
<1>5. ErrorTypeOK' /\ ThreadInv'
  <2>1. ErrorTypeOK'
    BY <1>1, <1>2, <1>3, <1>4 DEF ErrorTypeOK
  <2>2. ThreadInv'
    BY <1>1, <1>2, <1>4 DEF ThreadInv
  <2> QED BY <2>1, <2>2
<1>6. BufferIsNewest'
  BY <1>2 DEF PipeInv, EveryErrorAccounted, BufferIsNewest
<1>7. \A k \in Keys :
        reported'[k] = Shown(k)' + Count(k, drained)' + Count(k, buffer)'
                         + early'[k] + evicted'[k]
  <2>1. \A k \in Keys : /\ Count(k, drained)' = Count(k, drained)
                        /\ Count(k, buffer)' = Count(k, buffer)
    BY <1>2 DEF Count
  <2> QED BY <1>2, <1>3, <2>1 DEF PipeInv, EveryErrorAccounted
<1> QED BY <1>5, <1>6, <1>7 DEF PipeInv, EveryErrorAccounted

LEMMA PipeStep ==
  ASSUME PipeInv, [ErrorNext]_errorVars
  PROVE  PipeInv'
<1>1. ASSUME NEW k \in Keys, Fail(k)
      PROVE  PipeInv'
  <2>1. burst' \in 0..MaxBurst
    BY <1>1, BurstAssumption DEF Fail, PipeInv, ErrorTypeOK
  <2>2. /\ Emit(k) /\ UNCHANGED <<overlay, blocks, drained, early>>
        /\ call # "rendering" /\ call' = "running"
    BY <1>1 DEF Fail, errorPage
  <2> QED BY <2>1, <2>2, EmittingStep
<1>2. ASSUME NEW k \in Keys, FailQuietly(k)
      PROVE  PipeInv'
  <2>1. Emit(k) /\ UNCHANGED <<overlay, blocks, drained, early, call, burst>>
    BY <1>2 DEF FailQuietly, errorPage, thread
  <2> QED BY <2>1, EmittingStep
<1> QED BY <1>1, <1>2, RenderStep, RenderOneStep, PageStep DEF ErrorNext

\* The buffer never holds more than its capacity.
THEOREM PipeTyped == ErrorSpec => []ErrorTypeOK
<1>1. PipeInv => ErrorTypeOK
  BY DEF PipeInv
<1> QED BY <1>1, PipeInitially, PipeStep, PTL DEF ErrorSpec

\* Of any number of errors, in any bursts, over a buffer of any capacity, every
\* one is in its block, about to be, waiting, evicted by newer ones or drained
\* before there was an overlay.
THEOREM ErrorsAccounted == ErrorSpec => []EveryErrorAccounted
<1>1. PipeInv => EveryErrorAccounted
  BY DEF PipeInv
<1> QED BY <1>1, PipeInitially, PipeStep, PTL DEF ErrorSpec

\* An error that recurs after its block was dismissed shows the block again.
THEOREM DismissedComesBack == ErrorSpec => RecurringResurfaces
<1>1. ASSUME PipeInv, ErrorNext, NEW k \in Keys, blocks'[k] # NoBlock, blocks'[k] # blocks[k]
      PROVE  \/ ~blocks'[k].hidden
             \/ blocks[k] # NoBlock /\ blocks'[k].count = blocks[k].count
  <2>1. ErrorTypeOK /\ ThreadInv
    BY <1>1 DEF PipeInv
  <2>2. CASE RenderOne
    BY <1>1, <2>1, <2>2, RenderedBlock, ErrorFields
  <2>3. CASE \E j \in Keys : Dismiss(j)
    BY <1>1, <2>1, <2>3, DismissedBlock
  <2>4. CASE UNCHANGED blocks
    BY <1>1, <2>4
  <2> QED BY <1>1, <2>2, <2>3, <2>4
       DEF ErrorNext, Fail, FailQuietly, InstallOverlay, Render, errorPage
<1>2. PipeInv /\ [ErrorNext]_errorVars =>
        [\A k \in Keys : blocks'[k] # NoBlock /\ blocks'[k] # blocks[k] =>
            \/ ~blocks'[k].hidden
            \/ blocks[k] # NoBlock /\ blocks'[k].count = blocks[k].count]_errorVars
  BY <1>1
<1> QED BY <1>2, PipeInitially, PipeStep, PTL DEF ErrorSpec, RecurringResurfaces
=============================================================================
