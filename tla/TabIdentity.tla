---------------------------- MODULE TabIdentity ----------------------------
(***************************************************************************)
(* Who a browser tab is: the Ed25519 key init loads from IndexedDB or      *)
(* mints, and the logins (signed bindings) it keeps beside the key         *)
(* (crates/laye-p2p/src/wasm.rs: init_inner, handle_login_message and the  *)
(* idb_* helpers; crates/laye-p2p/src/store.rs).                           *)
(*                                                                         *)
(* Tabs of one origin share the database and nothing else.  A database     *)
(* request is one step; between two of them, where the code awaits, other  *)
(* tabs run and the tab may be closed or reloaded.                         *)
(***************************************************************************)
EXTENDS Integers, Sequences

CONSTANTS
  Tabs,        \* open or openable tabs of the host's origin
  Providers,   \* "mastodon", "atproto"
  None,
  MaxKeys,     \* bound: keys ever minted
  MaxLogins    \* bound: logins ever completed

ASSUME NoneAssumption == None \notin Nat
ASSUME BoundsAssumption == MaxKeys \in Nat \ {0} /\ MaxLogins \in Nat

VARIABLES
  dbKey,       \* IDB_KEY
  dbBindings,  \* IDB_KEY_BINDINGS
  phase,       \* tab -> where init is
  key,         \* tab -> its keypair
  selfBindings,\* tab -> self_bindings
  saves,       \* tab -> snapshots its persist tasks have still to write
  unsaved,     \* tab -> the last write of its bindings failed
  minted,      \* keys minted so far; the n-th key is n
  logins,      \* logins so far; the n-th binding signed is number n
  \* history
  clash,       \* two tabs were between their mint and its write at once
  crowded      \* two tabs were open at once

vars == <<dbKey, dbBindings, phase, key, selfBindings, saves, unsaved, minted, logins,
          clash, crowded>>
history == <<clash, crowded>>
db == <<dbKey, dbBindings>>
page == <<phase, key, selfBindings, saves, unsaved>>

\* A SignedBinding.  The code keeps a list with the newest in front, which is
\* the set ordered by number.
Binding(k, p, n) == [peer |-> k, provider |-> p, number |-> n]
Bindings == [peer: Nat, provider: Providers, number: Nat]

Phases == {"closed", "load", "save", "bindings", "running", "failed"}

TypeOK ==
  /\ dbKey \in Nat \cup {None}
  /\ dbBindings \subseteq Bindings
  /\ phase \in [Tabs -> Phases]
  /\ key \in [Tabs -> Nat \cup {None}]
  /\ selfBindings \in [Tabs -> SUBSET Bindings]
  /\ saves \in [Tabs -> Seq(SUBSET Bindings)]
  /\ unsaved \in [Tabs -> BOOLEAN]
  /\ minted \in Nat
  /\ logins \in Nat
  /\ clash \in BOOLEAN /\ crowded \in BOOLEAN
  /\ \A t \in Tabs : key[t] # None <=> phase[t] \in {"save", "bindings", "running"}

\* An earlier visit may have stored a key.
Init ==
  /\ dbKey \in {None, 1}
  /\ dbBindings = {}
  /\ phase = [t \in Tabs |-> "closed"]
  /\ key = [t \in Tabs |-> None]
  /\ selfBindings = [t \in Tabs |-> {}]
  /\ saves = [t \in Tabs |-> <<>>]
  /\ unsaved = [t \in Tabs |-> FALSE]
  /\ minted = IF dbKey = None THEN 0 ELSE 1
  /\ logins = 0
  /\ clash = FALSE
  /\ crowded = FALSE

-----------------------------------------------------------------------------
(* The database: one request each, which the database serves at once *)

\* idb_load_bytes, idb_load_bindings
StoredKey == dbKey
StoredBindings == dbBindings

\* idb_save_bytes, idb_save_bindings: what was there goes
PutKey(k) == dbKey' = k /\ UNCHANGED dbBindings
PutBindings(B) == dbBindings' = B /\ UNCHANGED dbKey

-----------------------------------------------------------------------------
(* The tab *)

\* The page loads, the host calls init and the database opens.
Open(t) ==
  /\ phase[t] = "closed"
  /\ phase' = [phase EXCEPT ![t] = "load"]
  /\ crowded' = (crowded \/ \E u \in Tabs \ {t} : phase[u] # "closed")
  /\ UNCHANGED <<db, key, selfBindings, saves, unsaved, minted, logins, clash>>

\* "Faults" are what a slip in the code would give; no action uses them.
\* A fault: the stored bytes are not looked at.
LoadKeyMinting(t) ==
  /\ phase[t] = "load"
  /\ minted < MaxKeys
  /\ minted' = minted + 1
  /\ key' = [key EXCEPT ![t] = minted + 1]
  /\ phase' = [phase EXCEPT ![t] = "save"]
  /\ UNCHANGED <<db, selfBindings, saves, unsaved, logins, history>>

\* load_or_generate on what is stored.
LoadKey(t) ==
  /\ phase[t] = "load"
  /\ \/ /\ StoredKey # None
        /\ key' = [key EXCEPT ![t] = StoredKey]
        /\ phase' = [phase EXCEPT ![t] = "bindings"]
        /\ UNCHANGED <<minted, clash>>
     \/ /\ StoredKey = None /\ minted < MaxKeys
        /\ minted' = minted + 1
        /\ key' = [key EXCEPT ![t] = minted + 1]
        /\ phase' = [phase EXCEPT ![t] = "save"]
        /\ clash' = (clash \/ \E u \in Tabs \ {t} : phase[u] = "save")
  /\ UNCHANGED <<db, selfBindings, saves, unsaved, logins, crowded>>

\* A fault: the minted key stays in the in-memory store.
SaveKeyForgotten(t) ==
  /\ phase[t] = "save"
  /\ phase' = [phase EXCEPT ![t] = "bindings"]
  /\ UNCHANGED <<db, key, selfBindings, saves, unsaved, minted, logins, history>>

\* A key just minted is stored before init goes on.
SaveKey(t) ==
  /\ phase[t] = "save"
  /\ PutKey(key[t])
  /\ phase' = [phase EXCEPT ![t] = "bindings"]
  /\ UNCHANGED <<key, selfBindings, saves, unsaved, minted, logins, history>>

\* The logins are read, and the rest of init runs without an await.
LoadBindings(t) ==
  /\ phase[t] = "bindings"
  /\ selfBindings' = [selfBindings EXCEPT ![t] = StoredBindings]
  /\ phase' = [phase EXCEPT ![t] = "running"]
  /\ UNCHANGED <<db, key, saves, unsaved, minted, logins, history>>

\* Any of the requests fails, or the swarm does not build: init returns the
\* error, its keypair goes, and the tab stays without a network.
InitFails(t) ==
  /\ phase[t] \in {"load", "save", "bindings"}
  /\ phase' = [phase EXCEPT ![t] = "failed"]
  /\ key' = [key EXCEPT ![t] = None]
  /\ UNCHANGED <<db, selfBindings, saves, unsaved, minted, logins, history>>

\* A fault: what is kept and what is removed are swapped.
ReplacedDroppingOthers(B, b) == {c \in B : c.provider = b.provider} \cup {b}

\* self_bindings.retain, then insert in front.
Replaced(B, b) == {c \in B : c.provider # b.provider} \cup {b}

\* A fault: the snapshot to persist is taken before the new binding is in.
LoginSavingStale(t, p, k) ==
  /\ phase[t] = "running" /\ k = key[t]
  /\ logins < MaxLogins
  /\ logins' = logins + 1
  /\ LET now == Replaced(selfBindings[t], Binding(k, p, logins + 1))
     IN /\ selfBindings' = [selfBindings EXCEPT ![t] = now]
        /\ saves' = [saves EXCEPT ![t] = Append(@, selfBindings[t])]
  /\ UNCHANGED <<db, phase, key, unsaved, minted, history>>

\* handle_login_message for a binding that verifies: one for another key is
\* dropped with a warning, one for this key replaces the provider's older one.
Login(t, p, k) ==
  /\ phase[t] = "running" /\ k = key[t]
  /\ logins < MaxLogins
  /\ logins' = logins + 1
  /\ LET now == Replaced(selfBindings[t], Binding(k, p, logins + 1))
     IN /\ selfBindings' = [selfBindings EXCEPT ![t] = now]
        /\ saves' = [saves EXCEPT ![t] = Append(@, now)]
  /\ UNCHANGED <<db, phase, key, unsaved, minted, history>>

\* The task a login spawned: the database serves a tab's writes in the order
\* the tab asked for them.
SaveBindings(t) ==
  /\ saves[t] # <<>>
  /\ saves' = [saves EXCEPT ![t] = Tail(@)]
  /\ PutBindings(Head(saves[t]))
  /\ unsaved' = [unsaved EXCEPT ![t] = FALSE]
  /\ UNCHANGED <<phase, key, selfBindings, minted, logins, history>>

SaveBindingsFails(t) ==
  /\ saves[t] # <<>>
  /\ saves' = [saves EXCEPT ![t] = Tail(@)]
  /\ unsaved' = [unsaved EXCEPT ![t] = TRUE]
  /\ UNCHANGED <<db, phase, key, selfBindings, minted, logins, history>>

\* The tab is closed, or its reload begins: what is not in the database goes.
Close(t) ==
  /\ phase[t] # "closed"
  /\ phase' = [phase EXCEPT ![t] = "closed"]
  /\ key' = [key EXCEPT ![t] = None]
  /\ selfBindings' = [selfBindings EXCEPT ![t] = {}]
  /\ saves' = [saves EXCEPT ![t] = <<>>]
  /\ unsaved' = [unsaved EXCEPT ![t] = FALSE]
  /\ UNCHANGED <<db, minted, logins, history>>

Step(t) ==
  \/ Open(t) \/ LoadKey(t) \/ SaveKey(t) \/ LoadBindings(t) \/ InitFails(t)
  \/ \E p \in Providers, k \in 1..minted : Login(t, p, k)
  \/ SaveBindings(t) \/ SaveBindingsFails(t) \/ Close(t)

Next == \E t \in Tabs : Step(t)

Spec == Init /\ [][Next]_vars

-----------------------------------------------------------------------------
(* Safety *)

\* A tab that takes part in the network does so under the key a reload will
\* find, through crashes and failed requests at any point of init, unless two
\* tabs were minting at once.
KeyInUseIsStored ==
  ~clash => \A t \in Tabs : phase[t] = "running" => key[t] = dbKey

\* Under the same condition the logins a tab shows and publishes are about the
\* key it publishes with; receivers drop any other (identity::parse_and_verify).
BindingsAreOwn ==
  ~clash => \A t \in Tabs : phase[t] = "running" =>
              \A b \in selfBindings[t] : b.peer = key[t]

\* While tabs come one at a time: once its writes are through, what a tab shows
\* is what a reload shows.
QuietMeansPersisted ==
  ~crowded => \A t \in Tabs :
    phase[t] = "running" /\ saves[t] = <<>> /\ ~unsaved[t]
      => dbBindings = selfBindings[t]

\* A stored key is replaced only after two tabs minted at once.
KeyLostOnlyByClash == [][dbKey # None /\ dbKey' # dbKey => clash]_vars

\* While tabs come one at a time, a stored login goes only when a login with
\* the same provider replaces it.
LoginsLostOnlyByCrowd ==
  [][~crowded => \A b \in dbBindings : \E c \in dbBindings' :
       c.provider = b.provider /\ c.number >= b.number]_vars

-----------------------------------------------------------------------------
(* What a comment says and the code does not do *)

\* store.rs, load_or_generate: "A fresh keypair reappears on the next call -
\* reload -> same peer_id is the LK milestone": a stored key is never replaced.
StoredKeyKept == [][dbKey # None => dbKey' = dbKey]_vars
=============================================================================
