--------------------------- MODULE SettingsProofs ---------------------------
(***************************************************************************)
(* The config store of settings.rs and config.rs, for any number of           *)
(* concurrent handlers, users, keys and requests: disk, store and runtime     *)
(* stay one valid configuration, the store is a crash-safe register up to a    *)
(* sync of the directory that failed and was ignored, and                     *)
(* authority is that of the store a change is applied to.  The invariant       *)
(* follows the commit of the handler that holds the store mutex step by step   *)
(* (Phases), says what its candidate may differ in from the store (Candidate), *)
(* that a password hash in flight is no hash anybody has read (Hashes), and     *)
(* that what a power loss would bring back can be booted from (Durable).       *)
(***************************************************************************)
EXTENDS Settings, FiniteSetTheorems, TLAPS

USE ConstantsAssumption

(* A handler's places; in Committing it holds the store mutex.              *)
Committing == {"save", "rename", "sync", "cfg", "router", "retain", "publish"}
Waiting == {"body", "work", "lock", "page"}
PCs == Committing \cup Waiting \cup {"idle", "claimed"}

(* Stores: finite tables of users, keys and clients, and the settings.       *)
Domains(X) == {D \in SUBSET X : IsFiniteSet(D)}
Table(X, V) == UNION {[D -> V] : D \in Domains(X)}
Account == [role : Role, pw : Nat]
KeyRow == [owner : User, enabled : BOOLEAN]
ClientRow == [owner : User]
Users == Table(User, Account)
Keys == Table(Key, KeyRow)
Clients == Table(Client, ClientRow)
Store == [users : Users, keys : Keys, clients : Clients, open : BOOLEAN, url : Url,
          days : Nat, knobs : {0, 1}, nvidia : BOOLEAN]

(* Requests.                                                                *)
Asked ==
  [op : {"setup"}, by : User, key : Key \cup {NoKey}, client : Client \cup {NoKey},
   url : Url]
  \cup [op : {"addKey", "removeKey", "setKey"}, by : User, key : Key]
  \cup [op : {"addClient", "removeClient"}, by : User, client : Client]
  \cup [op : {"mode", "limits", "governor_cfg", "routing", "locale", "account",
              "accountLocale", "page"}, by : User]
  \cup [op : {"upstream", "server"}, by : User, url : Url]
  \cup [op : {"history"}, by : User, days : Days]
  \cup [op : {"addUser", "setRole"}, by : User, user : User, role : {"admin", "user"}]
  \cup [op : {"removeUser", "resetPassword"}, by : User, user : User]

Active(p) == pc[p] \in Waiting \cup Committing

Typed ==
  /\ store \in Store /\ file \in Store /\ synced \in Store
  /\ pc \in [Handler -> PCs] /\ req \in [Handler -> Asked \cup {None}]
  /\ \A p \in Handler : Active(p) => req[p] \in Asked
  /\ hash \in [Handler -> Nat] /\ seen \in [Handler -> Nat]
  /\ overtaken \in [Handler -> BOOLEAN]
  /\ lock \in Handler \cup {None}
  /\ \A p \in Handler : lock = p <=> pc[p] \in Committing

Flags ==
  /\ tmp \in BOOLEAN /\ setupRequired \in BOOLEAN /\ unsynced \in BOOLEAN
  /\ requests \in 0..MaxRequests
  /\ failures \in 0..(ThrottleMax + 1) /\ admitted \in Nat
  /\ admitted <= failures /\ admitted <= ThrottleMax + 1

(* How far a commit has come: what is on disk, and what the runtime has.     *)
Behind(p) ==
  /\ file = IF pc[p] \in {"save", "rename"} THEN store ELSE cand
  /\ ~unsynced => synced = IF pc[p] \in {"save", "rename", "sync"} THEN store ELSE cand
  /\ cfg = IF pc[p] \in {"save", "rename", "sync", "cfg"} THEN store ELSE cand
  /\ router = IF pc[p] \in {"save", "rename", "sync", "cfg", "router"} THEN Routed(store)
              ELSE Routed(cand)
  /\ retention = IF pc[p] # "publish" THEN store.days ELSE cand.days

Phases ==
  /\ Valid(store)
  /\ RuntimeAgrees
  /\ \A p \in Handler : lock = p => Behind(p)

(* What an accepted edit may change: the owner stays, only an admin changes   *)
(* what is an admin's, and the only new password hash is the handler's own,   *)
(* which is the one of the user whose password it resets.                    *)
Owns(p, e) ==
  /\ Claimed(store) => Superusers(e) = Superusers(store)
  /\ req[p].op = "setup" => Claimed(e)
  /\ req[p].op \in AdminOnly => Administrates(req[p].by)

Passwords(p, e) ==
  /\ \A u \in DOMAIN e.users :
       \/ e.users[u].pw = hash[p]
       \/ u \in DOMAIN store.users /\ e.users[u].pw = store.users[u].pw
  /\ req[p].op \in {"resetPassword", "removeUser"} /\ req[p].user \in DOMAIN e.users =>
       e.users[req[p].user].pw = hash[p]

Candidate ==
  \A p \in Handler : lock = p =>
    cand \in Store /\ Valid(cand) /\ Owns(p, cand) /\ Passwords(p, cand)

Owned ==
  /\ ~setupRequired => Claimed(store)
  /\ setupRequired /\ Claimed(store) => \E p \in Handler : pc[p] = "claimed"
  /\ \A p \in Handler : pc[p] = "claimed" => Claimed(store)
  /\ \A p \in Handler : Active(p) /\ req[p].op # "setup" => Claimed(store)

(* Hashes in flight are new: nobody has read them and no user has them.  A    *)
(* change of password that a reset overtook finds another hash than it read.  *)
Hashes ==
  /\ \A u \in DOMAIN store.users : store.users[u].pw <= requests
  /\ \A p \in Handler : Active(p) =>
       /\ hash[p] \in 1..requests /\ seen[p] <= requests
       /\ \A u \in DOMAIN store.users : store.users[u].pw # hash[p]
       /\ \A q \in Handler : Active(q) =>
            seen[p] # hash[q] /\ (p # q => hash[p] # hash[q])
  /\ \A p \in Handler :
       pc[p] \in Waiting /\ overtaken[p] /\ req[p].op = "account" => ~Unrotated(p)
  /\ \A p \in Handler : ~Active(p) => req[p] = None /\ ~overtaken[p]

(* What a power loss may bring back, however long ago it was written: a store  *)
(* that can be booted from, with old hashes, and with an owner or no users.    *)
Keeping(s) ==
  /\ s \in Store /\ Valid(s)
  /\ \A u \in DOMAIN s.users : s.users[u].pw <= requests
  /\ DOMAIN s.users # {} => Claimed(s)

Durable == Keeping(synced) /\ Keeping(store)

IInv == Typed /\ Flags /\ Phases /\ Candidate /\ Owned /\ Hashes /\ Durable

-----------------------------------------------------------------------------
(* Tables: rows are added, removed and changed.                             *)
LEMMA TableIs ==
  ASSUME NEW X, NEW V, NEW f \in Table(X, V)
  PROVE  /\ DOMAIN f \subseteq X /\ IsFiniteSet(DOMAIN f)
         /\ \A x \in DOMAIN f : f[x] \in V
<1>1. PICK D \in Domains(X) : f \in [D -> V]
  BY DEF Table
<1> QED BY <1>1 DEF Domains

(* A function on a finite part of X is a table.                              *)
LEMMA IsTable ==
  ASSUME NEW X, NEW V, NEW D \in SUBSET X, IsFiniteSet(D), NEW f \in [D -> V]
  PROVE  f \in Table(X, V)
BY DEF Table, Domains

(* A row is added.                                                           *)
LEMMA WithTable ==
  ASSUME NEW X, NEW V, NEW f \in Table(X, V), NEW x \in X, NEW v \in V
  PROVE  /\ With(f, x, v) \in Table(X, V)
         /\ DOMAIN With(f, x, v) = DOMAIN f \cup {x}
         /\ With(f, x, v)[x] = v
         /\ \A y \in DOMAIN f : y # x => With(f, x, v)[y] = f[y]
<1>1. DOMAIN f \subseteq X /\ \A y \in DOMAIN f : f[y] \in V
  BY TableIs
<1>2. /\ DOMAIN With(f, x, v) = DOMAIN f \cup {x}
      /\ With(f, x, v)[x] = v
      /\ \A y \in DOMAIN f : y # x => With(f, x, v)[y] = f[y]
  BY DEF With
<1>3. With(f, x, v) \in [DOMAIN f \cup {x} -> V]
  BY <1>1 DEF With
<1>4. DOMAIN f \cup {x} \in SUBSET X /\ IsFiniteSet(DOMAIN f \cup {x})
  BY <1>1, TableIs, FS_AddElement
<1>5. With(f, x, v) \in Table(X, V)
  BY <1>3, <1>4, IsTable
<1> QED BY <1>2, <1>5

(* Rows are removed.                                                         *)
LEMMA WithoutTable ==
  ASSUME NEW X, NEW V, NEW f \in Table(X, V), NEW D
  PROVE  /\ Without(f, D) \in Table(X, V)
         /\ DOMAIN Without(f, D) = DOMAIN f \ D
         /\ \A y \in DOMAIN f \ D : Without(f, D)[y] = f[y]
<1>1. DOMAIN f \subseteq X /\ \A y \in DOMAIN f : f[y] \in V
  BY TableIs
<1>2. /\ DOMAIN Without(f, D) = DOMAIN f \ D
      /\ \A y \in DOMAIN f \ D : Without(f, D)[y] = f[y]
  BY DEF Without
<1>3. Without(f, D) \in [DOMAIN f \ D -> V]
  BY <1>1 DEF Without
<1>4. DOMAIN f \ D \in SUBSET X /\ IsFiniteSet(DOMAIN f \ D)
  <2>1. DOMAIN f \ D \in SUBSET (DOMAIN f) /\ IsFiniteSet(DOMAIN f)
    BY TableIs
  <2> QED BY <1>1, <2>1, FS_Subset
<1>5. Without(f, D) \in Table(X, V)
  BY <1>3, <1>4, IsTable
<1> QED BY <1>2, <1>5

(* A row is changed.                                                         *)
LEMMA ChangedTable ==
  ASSUME NEW X, NEW V, NEW f \in Table(X, V), NEW x \in DOMAIN f, NEW v \in V
  PROVE  /\ [f EXCEPT ![x] = v] \in Table(X, V)
         /\ DOMAIN [f EXCEPT ![x] = v] = DOMAIN f
         /\ [f EXCEPT ![x] = v][x] = v
         /\ \A y \in DOMAIN f : y # x => [f EXCEPT ![x] = v][y] = f[y]
<1>1. PICK D \in Domains(X) : f \in [D -> V]
  BY DEF Table
<1>2. /\ [f EXCEPT ![x] = v] \in [D -> V]
      /\ DOMAIN [f EXCEPT ![x] = v] = DOMAIN f
      /\ [f EXCEPT ![x] = v][x] = v
      /\ \A y \in DOMAIN f : y # x => [f EXCEPT ![x] = v][y] = f[y]
  BY <1>1
<1> QED BY <1>2 DEF Table

-----------------------------------------------------------------------------
(* Stores: one section is replaced.                                         *)
LEMMA EditUsers ==
  ASSUME NEW s \in Store, NEW x \in Users
  PROVE  /\ [s EXCEPT !.users = x] \in Store /\ [s EXCEPT !.users = x].users = x
         /\ [s EXCEPT !.users = x].keys = s.keys
         /\ [s EXCEPT !.users = x].clients = s.clients
BY DEF Store

(* The keys.                                                                 *)
LEMMA EditKeys ==
  ASSUME NEW s \in Store, NEW x \in Keys
  PROVE  /\ [s EXCEPT !.keys = x] \in Store /\ [s EXCEPT !.keys = x].users = s.users
         /\ [s EXCEPT !.keys = x].clients = s.clients
BY DEF Store

(* The client keys.                                                          *)
LEMMA EditClients ==
  ASSUME NEW s \in Store, NEW x \in Clients
  PROVE  /\ [s EXCEPT !.clients = x] \in Store
         /\ [s EXCEPT !.clients = x].users = s.users
BY DEF Store

(* The upstream.                                                             *)
LEMMA EditUrl ==
  ASSUME NEW s \in Store, NEW x \in Url
  PROVE  [s EXCEPT !.url = x] \in Store /\ [s EXCEPT !.url = x].users = s.users
BY DEF Store

(* The retention.                                                            *)
LEMMA EditDays ==
  ASSUME NEW s \in Store, NEW x \in Nat
  PROVE  [s EXCEPT !.days = x] \in Store /\ [s EXCEPT !.days = x].users = s.users
BY DEF Store

(* The mode.                                                                 *)
LEMMA EditOpen ==
  ASSUME NEW s \in Store, NEW x \in BOOLEAN
  PROVE  [s EXCEPT !.open = x] \in Store /\ [s EXCEPT !.open = x].users = s.users
BY DEF Store

(* The knobs.                                                                *)
LEMMA EditKnobs ==
  ASSUME NEW s \in Store, NEW x \in {0, 1}
  PROVE  [s EXCEPT !.knobs = x] \in Store /\ [s EXCEPT !.knobs = x].users = s.users
BY DEF Store

(* The sections of a store have their types.                                 *)
LEMMA StoreIs ==
  ASSUME NEW s \in Store
  PROVE  /\ s.users \in Users /\ s.keys \in Keys /\ s.clients \in Clients
         /\ s.url \in Url /\ s.days \in Nat /\ s.knobs \in {0, 1} /\ s.open \in BOOLEAN
         /\ StoreOK(s)
<1>1. /\ s.users \in Users /\ s.keys \in Keys /\ s.clients \in Clients
      /\ s.url \in Url /\ s.days \in Nat /\ s.knobs \in {0, 1}
  BY DEF Store
<1>2. s.open \in BOOLEAN
  BY DEF Store
<1>3. /\ DOMAIN s.users \subseteq User /\ \A u \in DOMAIN s.users : s.users[u] \in Account
      /\ DOMAIN s.keys \subseteq Key /\ DOMAIN s.clients \subseteq Client
  BY <1>1, TableIs DEF Users, Keys, Clients
<1>4. \A u \in DOMAIN s.users : s.users[u].role \in Role
  BY <1>3 DEF Account
<1> QED BY <1>1, <1>2, <1>3, <1>4 DEF StoreOK

(* What each kind of request carries.                                       *)
LEMMA AskedIs ==
  ASSUME NEW r \in Asked
  PROVE  /\ r.by \in User
         /\ r.op = "setup" => /\ r.key \in Key \cup {NoKey}
                              /\ r.client \in Client \cup {NoKey} /\ r.url \in Url
         /\ r.op \in {"addKey", "removeKey", "setKey"} => r.key \in Key
         /\ r.op \in {"addClient", "removeClient"} => r.client \in Client
         /\ r.op \in {"upstream", "server"} => r.url \in Url
         /\ r.op = "history" => r.days \in Nat
         /\ r.op \in {"addUser", "setRole"} => r.user \in User /\ r.role \in {"admin", "user"}
         /\ r.op \in {"removeUser", "resetPassword"} => r.user \in User
BY DEF Asked

-----------------------------------------------------------------------------
(* The stores a process can start from.                                     *)
Bootstrap(s) ==
  /\ s \in Store /\ Valid(s)
  /\ \A u \in DOMAIN s.users : s.users[u].pw = 0
  /\ DOMAIN s.users # {} => Claimed(s)

(* The default store: nobody, no keys.                                       *)
LEMMA FreshStore ==
  ASSUME NEW l \in Url
  PROVE  /\ Bootstrap(Fresh(l)) /\ Fresh(l).keys = Empty /\ Fresh(l).clients = Empty
         /\ Fresh(l).days = Window
<1>1. Empty \in Users /\ Empty \in Keys /\ Empty \in Clients
  <2>1. ASSUME NEW X, NEW V PROVE Empty \in Table(X, V)
    <3>1. Empty \in [{} -> V] /\ {} \in SUBSET X
      BY DEF Empty
    <3> QED BY <3>1, IsTable, FS_EmptySet
  <2> QED BY <2>1 DEF Users, Keys, Clients
<1>2. Fresh(l) \in Store
  BY <1>1 DEF Fresh, Store
<1>3. /\ Fresh(l).users = Empty /\ Fresh(l).keys = Empty /\ Fresh(l).clients = Empty
      /\ Fresh(l).days = Window
  BY DEF Fresh
<1>4. DOMAIN Empty = {}
  BY DEF Empty
<1>5. Superusers(Fresh(l)) = {}
  BY <1>3, <1>4 DEF Superusers
<1>6. Cardinality(Superusers(Fresh(l))) = 0
  BY <1>5, FS_EmptySet
<1>7. Valid(Fresh(l))
  BY <1>3, <1>4, <1>5, <1>6 DEF Valid, Claimed, PoolFloor
<1> QED BY <1>2, <1>3, <1>4, <1>7 DEF Bootstrap

(* A store whose users were removed by hand.                                 *)
LEMMA RecoveringStore ==
  ASSUME NEW u \in User, NEW k \in Key, NEW l \in Url
  PROVE  Bootstrap(Recovering(u, k, l))
<1> DEFINE K == [x \in {k} |-> [owner |-> u, enabled |-> TRUE]]
           s == Recovering(u, k, l)
<1>1. K \in Keys
  <2>1. K \in [{k} -> KeyRow]
    BY DEF KeyRow
  <2>2. IsFiniteSet({k}) /\ {k} \in SUBSET Key
    BY FS_Singleton
  <2>3. K \in Table(Key, KeyRow)
    BY <2>1, <2>2, IsTable
  <2> QED BY <2>3 DEF Keys
<1>2. Fresh(l) \in Store /\ Fresh(l).users = Empty /\ Fresh(l).days = Window
  BY FreshStore DEF Bootstrap, Fresh
<1>3. s = [Fresh(l) EXCEPT !.keys = K]
  BY DEF Recovering
<1> HIDE DEF K, s
<1>4. s \in Store /\ s.users = Empty /\ s.days = Window
  BY <1>1, <1>2, <1>3 DEF Store
<1>5. DOMAIN Empty = {}
  BY DEF Empty
<1>6. Superusers(s) = {}
  BY <1>4, <1>5 DEF Superusers
<1>7. Cardinality(Superusers(s)) = 0
  BY <1>6, FS_EmptySet
<1>8. Valid(s)
  BY <1>4, <1>6, <1>7 DEF Valid, Claimed, PoolFloor
<1>9. Bootstrap(s)
  BY <1>4, <1>5, <1>8 DEF Bootstrap
<1> QED BY <1>9 DEF s

(* A store that has been set up has one owner, with an enabled key.          *)
LEMMA InstalledStore ==
  ASSUME NEW u \in User, NEW v \in User, NEW k \in Key, NEW l \in Url, u # v
  PROVE  Bootstrap(Installed(u, v, k, l))
<1> DEFINE U == [x \in {u, v} |-> [role |-> IF x = u THEN "superuser" ELSE "admin",
                                   pw |-> 0]]
           K == [x \in {k} |-> [owner |-> u, enabled |-> TRUE]]
           f == [Fresh(l) EXCEPT !.users = U]
           s == Installed(u, v, k, l)
<1>1. K \in Keys /\ DOMAIN K = {k} /\ K[k].owner = u /\ K[k].enabled = TRUE
  <2>1. K \in [{k} -> KeyRow]
    BY DEF KeyRow
  <2>2. IsFiniteSet({k}) /\ {k} \in SUBSET Key
    BY FS_Singleton
  <2>3. K \in Table(Key, KeyRow)
    BY <2>1, <2>2, IsTable
  <2> QED BY <2>3 DEF Keys
<1>2. U \in Users
  <2>1. U \in [{u, v} -> Account]
    BY DEF Account, Role
  <2>2. IsFiniteSet({u, v}) /\ {u, v} \in SUBSET User
    <3>1. IsFiniteSet({u} \cup {v})
      BY FS_Singleton, FS_AddElement
    <3>2. {u} \cup {v} = {u, v}
      OBVIOUS
    <3> QED BY <3>1, <3>2
  <2>3. U \in Table(User, Account)
    BY <2>1, <2>2, IsTable
  <2> QED BY <2>3 DEF Users
<1>3. /\ DOMAIN U = {u, v} /\ U[u].role = "superuser" /\ U[v].role = "admin"
      /\ U[u].pw = 0 /\ U[v].pw = 0
  OBVIOUS
<1>4. Fresh(l) \in Store /\ Fresh(l).clients = Empty /\ Fresh(l).days = Window
  BY FreshStore DEF Bootstrap
<1>5. s = [f EXCEPT !.keys = K]
  BY DEF Installed
<1> HIDE DEF K, U, s
<1>6. f \in Store /\ f.users = U /\ f.clients = Empty /\ f.days = Window
  BY <1>2, <1>4 DEF Store
<1> HIDE DEF f
<1>7. s \in Store /\ s.users = U /\ s.keys = K /\ s.clients = Empty /\ s.days = Window
  BY <1>1, <1>5, <1>6 DEF Store
<1>8. DOMAIN Empty = {}
  BY DEF Empty
<1>9. Superusers(s) = {u}
  BY <1>3, <1>7 DEF Superusers
<1>10. Cardinality(Superusers(s)) = 1
  BY <1>9, FS_Singleton
<1>11. PoolFloor(s)
  BY <1>1, <1>7, <1>9 DEF PoolFloor
<1>12. Valid(s)
  BY <1>1, <1>3, <1>7, <1>8, <1>9, <1>10, <1>11 DEF Valid
<1>13. Bootstrap(s)
  BY <1>3, <1>7, <1>9, <1>12 DEF Bootstrap, Claimed
<1> QED BY <1>13 DEF s

(* A store is as good to start from if its provider was disabled by hand.    *)
LEMMA DisabledStore ==
  ASSUME NEW s, Bootstrap(s) PROVE Bootstrap(Disabled(s))
<1> DEFINE d == Disabled(s)
<1>1. d \in Store
  BY DEF Bootstrap, Disabled, Store
<1>2. d.users = s.users /\ d.keys = s.keys /\ d.clients = s.clients /\ d.days = s.days
  BY DEF Bootstrap, Disabled, Store
<1> HIDE DEF d
<1>3. Superusers(d) = Superusers(s) /\ (Claimed(d) <=> Claimed(s))
  BY <1>2 DEF Superusers, Claimed
<1>4. Valid(d)
  BY <1>2, <1>3 DEF Bootstrap, Valid, PoolFloor
<1>5. Bootstrap(d)
  BY <1>1, <1>2, <1>3, <1>4 DEF Bootstrap
<1> QED BY <1>5 DEF d

(* Every process starts in step with its file and with nobody at work.       *)
LEMMA InitIInv == Init => IInv
<1> SUFFICES ASSUME Init PROVE IInv
  OBVIOUS
<1>1. PICK u \in User, v \in User, k \in Key, l \in Url :
        \E s \in {Fresh(l), Installed(u, v, k, l), Recovering(u, k, l),
                  Disabled(Recovering(u, k, l))} :
          u # v /\ Started(s) /\ file = s /\ synced = s
  BY DEF Init
<1>2. PICK s \in {Fresh(l), Installed(u, v, k, l), Recovering(u, k, l),
                  Disabled(Recovering(u, k, l))} :
        u # v /\ Started(s) /\ file = s /\ synced = s
  BY <1>1
<1>3. Bootstrap(s)
  BY <1>2, FreshStore, InstalledStore, RecoveringStore, DisabledStore
<1>4. /\ store = s /\ cfg = s /\ router = Routed(s) /\ retention = s.days /\ file = s /\ synced = s
      /\ setupRequired = ~Claimed(s)
  BY <1>2 DEF Started
<1>5. \A p \in Handler : pc[p] = "idle" /\ lock # p
  BY DEF Init
<1>6. Typed
  BY <1>3, <1>4, <1>5 DEF Init, Typed, Bootstrap, PCs, Active, Waiting, Committing
<1>7. Flags
  <2>1. setupRequired \in BOOLEAN
    BY <1>4
  <2>2. tmp = FALSE /\ unsynced = FALSE /\ requests = 0 /\ failures = 0 /\ admitted = 0
    BY DEF Init
  <2>3. tmp \in BOOLEAN /\ unsynced \in BOOLEAN
    BY <2>2
  <2>4. MaxRequests \in Nat /\ ThrottleMax \in Nat
    OBVIOUS
  <2>5. /\ requests \in 0..MaxRequests
        /\ failures \in 0..(ThrottleMax + 1) /\ admitted \in Nat
        /\ admitted <= failures /\ admitted <= ThrottleMax + 1
    BY <2>2, <2>4
  <2> QED BY <2>1, <2>3, <2>5 DEF Flags
<1>8. Phases
  BY <1>3, <1>4, <1>5 DEF Phases, Bootstrap, RuntimeAgrees
<1>9. Candidate
  BY <1>5 DEF Candidate
<1>10. Owned
  BY <1>4, <1>5 DEF Owned, Active, Waiting, Committing
<1>11. Hashes
  BY <1>3, <1>4, <1>5 DEF Init, Hashes, Bootstrap, Active, Waiting, Committing
<1>12. Durable
  BY <1>3, <1>4 DEF Init, Durable, Keeping, Bootstrap
<1> QED BY <1>6, <1>7, <1>8, <1>9, <1>10, <1>11, <1>12 DEF IInv

-----------------------------------------------------------------------------
(* The handler that holds the mutex is the one that commits.                *)
LEMMA Holder ==
  ASSUME IInv, NEW p \in Handler, pc[p] \in Committing
  PROVE  /\ lock = p /\ lock # None /\ Behind(p)
         /\ cand \in Store /\ Valid(cand) /\ Owns(p, cand) /\ Passwords(p, cand)
         /\ \A q \in Handler : q # p => pc[q] \notin Committing
<1>1. lock = p /\ \A q \in Handler : q # p => pc[q] \notin Committing
  BY DEF IInv, Typed
<1>2. Behind(p)
  BY <1>1 DEF IInv, Phases
<1>3. cand \in Store /\ Valid(cand) /\ Owns(p, cand) /\ Passwords(p, cand)
  BY <1>1 DEF IInv, Candidate
<1> QED BY <1>1, <1>2, <1>3

(* What is said of the candidate depends on the holder's request only.       *)
LEMMA KeepsCandidate ==
  ASSUME IInv, UNCHANGED <<store, lock, cand>>,
         \A q \in Handler : lock = q => req'[q] = req[q] /\ hash'[q] = hash[q]
  PROVE  Candidate'
<1> SUFFICES ASSUME NEW q \in Handler, lock' = q
             PROVE  (cand \in Store /\ Valid(cand) /\ Owns(q, cand) /\ Passwords(q, cand))'
  BY DEF Candidate
<1>1. /\ cand \in Store /\ Valid(cand) /\ Owns(q, cand) /\ Passwords(q, cand)
      /\ req'[q] = req[q] /\ hash'[q] = hash[q]
  BY DEF IInv, Candidate
<1>2. Valid(cand)'
  BY <1>1 DEF Valid, PoolFloor, Superusers, Claimed
<1>3. Owns(q, cand)'
  BY <1>1 DEF Owns, Administrates, Superusers, Claimed
<1>4. Passwords(q, cand)'
  BY <1>1 DEF Passwords
<1> QED BY <1>1, <1>2, <1>3, <1>4

(* What is on disk or served stays good as requests are counted.              *)
LEMMA KeepsDurable ==
  ASSUME IInv, UNCHANGED <<store, synced>>, requests' \in {requests, requests + 1}
  PROVE  Durable'
<1>1. ASSUME NEW s, Keeping(s) PROVE Keeping(s)'
  <2>1. /\ s \in Store /\ Valid(s) /\ (DOMAIN s.users # {} => Claimed(s))
        /\ \A u \in DOMAIN s.users : s.users[u].pw <= requests
    BY <1>1 DEF Keeping
  <2>2. s.users \in Users
    BY <2>1, StoreIs
  <2>3. \A u \in DOMAIN s.users : s.users[u] \in Account
    BY <2>2, TableIs DEF Users
  <2>4. \A u \in DOMAIN s.users : s.users[u].pw \in Nat
    BY <2>3 DEF Account
  <2>5. requests \in Nat
    BY DEF IInv, Flags
  <2>6. \A u \in DOMAIN s.users : s.users[u].pw <= requests'
    BY <2>1, <2>4, <2>5
  <2>7. Valid(s)' /\ (Claimed(s)' <=> Claimed(s))
    BY <2>1 DEF Valid, PoolFloor, Superusers, Claimed
  <2> QED BY <2>1, <2>6, <2>7 DEF Keeping
<1>2. Keeping(store) /\ Keeping(synced)
  BY DEF IInv, Durable
<1> QED BY <1>1, <1>2 DEF Durable, Keeping, Valid, PoolFloor, Superusers, Claimed

(* So is the candidate, and with it the file at every step of a commit.       *)
LEMMA CandidateKept ==
  ASSUME IInv, NEW p \in Handler, lock = p PROVE Keeping(cand)
<1>1. cand \in Store /\ Valid(cand) /\ Owns(p, cand) /\ Passwords(p, cand)
  BY DEF IInv, Candidate
<1>2. Active(p)
  BY DEF IInv, Typed, Active
<1>3. Claimed(cand)
  BY <1>1, <1>2 DEF Owns, Claimed, IInv, Owned
<1>4. hash[p] <= requests
  BY <1>2 DEF IInv, Hashes
<1>5. \A u \in DOMAIN cand.users : cand.users[u].pw <= requests
  BY <1>1, <1>4 DEF IInv, Hashes, Passwords
<1> QED BY <1>1, <1>3, <1>5 DEF Keeping

(* The file is the store, or the candidate.                                  *)
LEMMA FileKept ==
  ASSUME IInv
  PROVE  /\ Keeping(file) /\ (file = store \/ (lock \in Handler /\ file = cand))
         /\ ~unsynced => (synced = store \/ (lock \in Handler /\ synced = cand))
<1>1. CASE lock = None
  BY <1>1 DEF IInv, Phases, RuntimeAgrees, Durable
<1>2. CASE lock # None
  <2>1. lock \in Handler /\ Behind(lock)
    BY <1>2 DEF IInv, Typed, Phases
  <2>2. Keeping(cand) /\ Keeping(store)
    BY <2>1, CandidateKept DEF IInv, Durable
  <2> QED BY <2>1, <2>2 DEF Behind
<1> QED BY <1>1, <1>2

(* A step of a commit: the holder goes on, and only the file or the runtime's *)
(* copies change.                                                           *)
LEMMA CommitOn ==
  ASSUME IInv, NEW p \in Handler, NEW from \in Committing, NEW to \in Committing,
         Goto(p, from, to), tmp' \in BOOLEAN, unsynced' \in BOOLEAN, file' \in Store,
         synced' \in {synced, cand}, Behind(p)',
         UNCHANGED <<store, lock, req, hash, seen, cand, requests, failures, overtaken,
                     admitted, setupRequired>>
  PROVE  IInv'
<1>1. pc[p] = from /\ pc' = [pc EXCEPT ![p] = to] /\ pc \in [Handler -> PCs]
  BY DEF Goto, IInv, Typed
<1>2. /\ pc' \in [Handler -> PCs] /\ pc'[p] = to
      /\ \A q \in Handler : q # p => pc'[q] = pc[q]
  BY <1>1 DEF PCs
<1>3. /\ lock = p /\ lock # None
      /\ \A q \in Handler : q # p => pc[q] \notin Committing
  BY <1>1, Holder
<1>4. \A q \in Handler : /\ Active(q)' <=> Active(q)
                         /\ pc'[q] = "claimed" <=> pc[q] = "claimed"
                         /\ pc'[q] \in Waiting <=> pc[q] \in Waiting
                         /\ pc'[q] \in Committing <=> pc[q] \in Committing
  BY <1>1, <1>2 DEF Active, Waiting, Committing
<1>5. Typed'
  <2>1. synced' \in Store
    BY <1>3 DEF IInv, Typed, Candidate
  <2> QED BY <1>2, <1>4, <2>1 DEF IInv, Typed
<1>6. Flags'
  BY DEF IInv, Flags
<1>7. Phases'
  BY <1>3 DEF IInv, Phases, RuntimeAgrees, Valid, PoolFloor, Superusers, Claimed
<1>8. Candidate'
  BY KeepsCandidate
<1>9. Owned'
  BY <1>4 DEF IInv, Owned, Claimed, Superusers
<1>10. Hashes'
  BY <1>4 DEF IInv, Hashes, Unrotated, Present
<1>11. Durable'
  <2>1. Keeping(cand) /\ Keeping(synced) /\ Keeping(store)
    BY <1>3, CandidateKept DEF IInv, Durable
  <2>2. Keeping(store)'
    BY <2>1 DEF Keeping, Valid, PoolFloor, Superusers, Claimed
  <2>3. CASE synced' = synced
    BY <2>1, <2>2, <2>3 DEF Durable, Keeping, Valid, PoolFloor, Superusers, Claimed
  <2>4. CASE synced' = cand
    BY <2>1, <2>2, <2>4 DEF Durable, Keeping, Valid, PoolFloor, Superusers, Claimed
  <2> QED BY <2>3, <2>4
<1> QED BY <1>5, <1>6, <1>7, <1>8, <1>9, <1>10, <1>11 DEF IInv

(* The steps of a commit up to the swap of the store.                        *)
LEMMA CommitOnIInv ==
  ASSUME IInv, NEW p \in Handler,
         \/ Write(p) \/ Rename(p) \/ SyncDirectory(p) \/ SyncFails(p) \/ SwapRuntime(p)
         \/ Rebuild(p) \/ Retain(p)
  PROVE  IInv'
<1> USE DEF process, disk, handler, history
<1>1. /\ tmp \in BOOLEAN /\ unsynced \in BOOLEAN /\ file \in Store
  BY DEF IInv, Typed, Flags
<1>2. pc[p] \in Committing /\ pc' \in [Handler -> PCs]
  BY DEF Write, Rename, SyncDirectory, SyncFails, SwapRuntime, Rebuild, Retain, Goto, Committing,
         IInv, Typed, PCs
<1>3. Behind(p) /\ cand \in Store
  BY <1>2, Holder
<1>4. ASSUME NEW to, pc' = [pc EXCEPT ![p] = to] PROVE pc'[p] = to
  BY <1>4 DEF IInv, Typed
<1>5. CASE Write(p)
  <2>1. Goto(p, "save", "rename") /\ pc[p] = "save" /\ pc'[p] = "rename"
    BY <1>4, <1>5 DEF Write, Goto
  <2>2. Behind(p)'
    BY <1>3, <1>5, <2>1 DEF Write, Behind
  <2> QED BY <1>1, <1>5, <2>1, <2>2, CommitOn DEF Write, Committing
<1>6. CASE Rename(p)
  <2>1. Goto(p, "rename", "sync") /\ pc[p] = "rename" /\ pc'[p] = "sync"
    BY <1>4, <1>6 DEF Rename, Goto
  <2>2. Behind(p)'
    BY <1>3, <1>6, <2>1 DEF Rename, Behind
  <2> QED BY <1>1, <1>3, <1>6, <2>1, <2>2, CommitOn DEF Rename, Committing
<1>7. CASE SyncDirectory(p)
  <2>1. Goto(p, "sync", "cfg") /\ pc[p] = "sync" /\ pc'[p] = "cfg"
    BY <1>4, <1>7 DEF SyncDirectory, Goto
  <2>2. Behind(p)'
    BY <1>3, <1>7, <2>1 DEF SyncDirectory, Behind
  <2>3. synced' = cand
    BY <1>3, <1>7, <2>1 DEF SyncDirectory, Behind
  <2> QED BY <1>1, <1>7, <2>1, <2>2, <2>3, CommitOn DEF SyncDirectory, Committing
<1>11. CASE SyncFails(p)
  <2>1. Goto(p, "sync", "cfg") /\ pc[p] = "sync" /\ pc'[p] = "cfg"
    BY <1>4, <1>11 DEF SyncFails, Goto
  <2>2. Behind(p)'
    BY <1>3, <1>11, <2>1 DEF SyncFails, Behind
  <2>3. synced' \in {synced, cand}
    BY <1>3, <1>11, <2>1 DEF SyncFails, Behind
  <2> QED BY <1>1, <1>11, <2>1, <2>2, <2>3, CommitOn DEF SyncFails, Committing
<1>8. CASE SwapRuntime(p)
  <2>1. Goto(p, "cfg", "router") /\ pc[p] = "cfg" /\ pc'[p] = "router"
    BY <1>4, <1>8 DEF SwapRuntime, Goto
  <2>2. Behind(p)'
    BY <1>3, <1>8, <2>1 DEF SwapRuntime, Behind
  <2> QED BY <1>1, <1>8, <2>1, <2>2, CommitOn DEF SwapRuntime, Committing
<1>9. CASE Rebuild(p)
  <2>1. Goto(p, "router", "retain") /\ pc[p] = "router" /\ pc'[p] = "retain"
    BY <1>4, <1>9 DEF Rebuild, Goto
  <2>2. Behind(p)'
    BY <1>3, <1>9, <2>1 DEF Rebuild, Behind
  <2> QED BY <1>1, <1>9, <2>1, <2>2, CommitOn DEF Rebuild, Committing
<1>10. CASE Retain(p)
  <2>1. Goto(p, "retain", "publish") /\ pc[p] = "retain" /\ pc'[p] = "publish"
    BY <1>4, <1>10 DEF Retain, Goto
  <2>2. retention' = cand.days
    BY <1>3, <1>10, <2>1 DEF Retain, Retained, Behind
  <2>3. Behind(p)'
    BY <1>3, <1>10, <2>1, <2>2 DEF Retain, Behind
  <2> QED BY <1>1, <1>10, <2>1, <2>3, CommitOn DEF Retain, Committing
<1> QED BY <1>5, <1>6, <1>7, <1>8, <1>9, <1>10, <1>11

-----------------------------------------------------------------------------
(* A handler that ends: nobody else's request changes.                      *)
LEMMA EndedOne ==
  ASSUME IInv, NEW p \in Handler, Ended(p), NEW to \in {"idle", "claimed"},
         pc' = [pc EXCEPT ![p] = to]
  PROVE  /\ pc' \in [Handler -> PCs] /\ req' \in [Handler -> Asked \cup {None}]
         /\ hash' \in [Handler -> Nat] /\ seen' \in [Handler -> Nat]
         /\ overtaken' \in [Handler -> BOOLEAN]
         /\ pc'[p] = to /\ req'[p] = None /\ ~overtaken'[p]
         /\ \A q \in Handler : q # p =>
              /\ pc'[q] = pc[q] /\ req'[q] = req[q] /\ hash'[q] = hash[q]
              /\ seen'[q] = seen[q] /\ overtaken'[q] = overtaken[q]
<1>1. /\ pc \in [Handler -> PCs] /\ req \in [Handler -> Asked \cup {None}]
      /\ hash \in [Handler -> Nat] /\ seen \in [Handler -> Nat]
  BY DEF IInv, Typed
<1>2. overtaken \in [Handler -> BOOLEAN]
  BY DEF IInv, Typed
<1>3. overtaken' \in [Handler -> BOOLEAN] /\ ~overtaken'[p]
  BY <1>2 DEF Ended
<1>4. /\ pc' \in [Handler -> PCs] /\ req' \in [Handler -> Asked \cup {None}]
      /\ hash' \in [Handler -> Nat] /\ seen' \in [Handler -> Nat]
      /\ pc'[p] = to /\ req'[p] = None
  BY <1>1 DEF Ended, PCs
<1>5. ASSUME NEW q \in Handler, q # p
      PROVE  /\ pc'[q] = pc[q] /\ req'[q] = req[q] /\ hash'[q] = hash[q]
             /\ seen'[q] = seen[q] /\ overtaken'[q] = overtaken[q]
  BY <1>1, <1>2, <1>5 DEF Ended
<1> QED BY <1>3, <1>4, <1>5

(* The hashes in flight when one handler ends and the store is as it was.     *)
LEMMA SameHashes ==
  ASSUME IInv, NEW p \in Handler, ~Active(p)', pc'[p] \notin Waiting,
         req'[p] = None, ~overtaken'[p], UNCHANGED <<store, requests>>,
         \A q \in Handler : q # p =>
           /\ pc'[q] = pc[q] /\ req'[q] = req[q] /\ hash'[q] = hash[q]
           /\ seen'[q] = seen[q] /\ overtaken'[q] = overtaken[q],
         \A q \in Handler : q # p => (Active(q)' <=> Active(q))
  PROVE  Hashes'
<1>1. \A u \in DOMAIN store'.users : store'.users[u].pw <= requests'
  BY DEF IInv, Hashes
<1>2. ASSUME NEW q \in Handler, Active(q)'
      PROVE  /\ hash'[q] \in 1..requests' /\ seen'[q] <= requests'
             /\ \A u \in DOMAIN store'.users : store'.users[u].pw # hash'[q]
             /\ \A r \in Handler : Active(r)' =>
                  seen'[q] # hash'[r] /\ (q # r => hash'[q] # hash'[r])
  BY <1>2 DEF IInv, Hashes
<1>3. ASSUME NEW q \in Handler, pc'[q] \in Waiting, overtaken'[q], req'[q].op = "account"
      PROVE  ~Unrotated(q)'
  BY <1>3 DEF IInv, Hashes, Unrotated, Present
<1>4. ASSUME NEW q \in Handler, ~Active(q)' PROVE req'[q] = None /\ ~overtaken'[q]
  BY <1>4 DEF IInv, Hashes
<1> QED BY <1>1, <1>2, <1>3, <1>4 DEF Hashes

(* The end of a handler that holds nothing.                                 *)
LEMMA EndIdle ==
  ASSUME IInv, NEW p \in Handler, pc[p] \notin Committing, Ended(p),
         pc' = [pc EXCEPT ![p] = "idle"],
         setupRequired' \in BOOLEAN, ~setupRequired' => Claimed(store),
         setupRequired' => UNCHANGED setupRequired /\ pc[p] # "claimed",
         UNCHANGED <<store, file, synced, unsynced, tmp, cfg, router, retention, lock, cand,
                     requests, failures, admitted>>
  PROVE  IInv'
<1>1. /\ pc' \in [Handler -> PCs] /\ req' \in [Handler -> Asked \cup {None}]
      /\ hash' \in [Handler -> Nat] /\ seen' \in [Handler -> Nat]
      /\ overtaken' \in [Handler -> BOOLEAN]
      /\ pc'[p] = "idle" /\ req'[p] = None /\ ~overtaken'[p]
  BY EndedOne
<1>2. \A q \in Handler : q # p =>
        /\ pc'[q] = pc[q] /\ req'[q] = req[q] /\ hash'[q] = hash[q]
        /\ seen'[q] = seen[q] /\ overtaken'[q] = overtaken[q]
  BY EndedOne
<1>3. /\ ~Active(p)' /\ pc'[p] \notin Committing /\ pc'[p] \notin Waiting
      /\ \A q \in Handler : q # p => (Active(q)' <=> Active(q))
  BY <1>1, <1>2 DEF Active, Waiting, Committing
<1>4. Typed'
  BY <1>1, <1>2, <1>3 DEF IInv, Typed
<1>5. Flags'
  <2>1. Flags
    BY DEF IInv
  <2> QED BY <2>1 DEF Flags
<1>6. lock # p
  BY DEF IInv, Typed
<1>7. Phases'
  <2>1. Valid(store)' /\ RuntimeAgrees'
    BY DEF IInv, Phases, RuntimeAgrees, Valid, PoolFloor, Superusers, Claimed
  <2>2. \A q \in Handler : lock' = q => Behind(q)'
    BY <1>2, <1>6 DEF IInv, Phases, Behind
  <2> QED BY <2>1, <2>2 DEF Phases
<1>8. Candidate'
  BY <1>2, <1>6, KeepsCandidate
<1>9. Owned'
  <2>1. ~setupRequired' => Claimed(store)'
    BY DEF Claimed, Superusers
  <2>2. setupRequired' /\ Claimed(store)' => \E q \in Handler : pc'[q] = "claimed"
    BY <1>2 DEF IInv, Owned, Claimed, Superusers
  <2>3. \A q \in Handler : pc'[q] = "claimed" => Claimed(store)'
    BY <1>1, <1>2 DEF IInv, Owned, Claimed, Superusers
  <2>4. \A q \in Handler : Active(q)' /\ req'[q].op # "setup" => Claimed(store)'
    BY <1>2, <1>3 DEF IInv, Owned, Claimed, Superusers
  <2> QED BY <2>1, <2>2, <2>3, <2>4 DEF Owned
<1>10. Hashes'
  BY <1>1, <1>2, <1>3, SameHashes
<1>11. Durable'
  BY KeepsDurable
<1> QED BY <1>4, <1>5, <1>7, <1>8, <1>9, <1>10, <1>11 DEF IInv

(* Setup is declared complete, by a handler that owns the proxy's claim.     *)
LEMMA SetupDoneIInv == ASSUME IInv, NEW p \in Handler, SetupDone(p) PROVE IInv'
<1>1. /\ pc[p] = "claimed" /\ pc' = [pc EXCEPT ![p] = "idle"] /\ Ended(p)
      /\ setupRequired' = FALSE
      /\ UNCHANGED <<store, file, synced, unsynced, tmp, cfg, router, retention, lock, cand,
                     requests, failures, admitted>>
  BY DEF SetupDone, Goto, disk
<1>2. Claimed(store)
  BY <1>1 DEF IInv, Owned
<1> QED BY <1>1, <1>2, EndIdle DEF Committing

(* A write or a rename that fails: the disk and the runtime are as before.   *)
LEMMA WriteFailsIInv == ASSUME IInv, NEW p \in Handler, WriteFails(p) PROVE IInv'
<1> USE DEF process, disk, handler
<1>1. /\ pc[p] \in {"save", "rename"} /\ pc' = [pc EXCEPT ![p] = "idle"] /\ Ended(p)
      /\ lock' = None
      /\ UNCHANGED <<store, file, synced, unsynced, cfg, router, retention, setupRequired, failures,
                     requests, admitted>>
  BY DEF WriteFails
<1>2. /\ pc' \in [Handler -> PCs] /\ req' \in [Handler -> Asked \cup {None}]
      /\ hash' \in [Handler -> Nat] /\ seen' \in [Handler -> Nat]
      /\ overtaken' \in [Handler -> BOOLEAN]
      /\ pc'[p] = "idle" /\ req'[p] = None /\ ~overtaken'[p]
  BY <1>1, EndedOne
<1>3. \A q \in Handler : q # p =>
        /\ pc'[q] = pc[q] /\ req'[q] = req[q] /\ hash'[q] = hash[q]
        /\ seen'[q] = seen[q] /\ overtaken'[q] = overtaken[q]
  BY <1>1, EndedOne
<1>4. Behind(p) /\ \A q \in Handler : q # p => pc[q] \notin Committing
  BY <1>1, Holder DEF Committing
<1>5. \A q \in Handler : pc'[q] \notin Committing /\ lock' # q
  BY <1>1, <1>2, <1>3, <1>4 DEF Committing
<1>6. /\ ~Active(p)' /\ pc'[p] \notin Waiting /\ pc'[p] # "claimed" /\ pc[p] # "claimed"
      /\ \A q \in Handler : q # p => (Active(q)' <=> Active(q))
  BY <1>1, <1>2, <1>3 DEF Active, Waiting, Committing
<1>7. Typed'
  BY <1>1, <1>2, <1>3, <1>5, <1>6 DEF IInv, Typed
<1>8. Flags'
  <2>1. tmp' \in BOOLEAN
    BY DEF WriteFails
  <2>2. Flags
    BY DEF IInv
  <2> QED BY <1>1, <2>1, <2>2 DEF Flags
<1>9. Phases'
  <2>1. Valid(store)'
    BY <1>1 DEF IInv, Phases, Valid, PoolFloor, Superusers, Claimed
  <2>2. RuntimeAgrees'
    BY <1>1, <1>4 DEF Behind, RuntimeAgrees
  <2> QED BY <1>5, <2>1, <2>2 DEF Phases
<1>10. Candidate'
  BY <1>5 DEF Candidate
<1>11. Owned'
  <2>1. Claimed(store)' <=> Claimed(store)
    BY <1>1 DEF Claimed, Superusers
  <2> QED BY <1>1, <1>3, <1>6, <2>1 DEF IInv, Owned
<1>12. Hashes'
  BY <1>1, <1>2, <1>3, <1>6, SameHashes
<1>13. Durable'
  BY <1>1, KeepsDurable
<1> QED BY <1>7, <1>8, <1>9, <1>10, <1>11, <1>12, <1>13 DEF IInv

-----------------------------------------------------------------------------
(* An edit that is accepted becomes the candidate; a refused one ends.       *)
LEMMA SubmitIInv ==
  ASSUME IInv, NEW p \in Handler, NEW a, NEW e, Submit(p, a, e),
         Accepted(a, e) => e \in Store /\ Owns(p, e) /\ Passwords(p, e)
  PROVE  IInv'
<1> USE DEF process, disk, handler
<1>1. /\ pc[p] = "lock" /\ lock = None
      /\ UNCHANGED <<store, file, synced, unsynced, tmp, cfg, router, retention, setupRequired,
                     failures, requests, admitted>>
  BY DEF Submit
<1>2. CASE ~Accepted(a, e)
  <2>1. pc' = [pc EXCEPT ![p] = "idle"] /\ Ended(p) /\ UNCHANGED <<lock, cand>>
    BY <1>2 DEF Submit
  <2>2. setupRequired' \in BOOLEAN /\ (~setupRequired' => Claimed(store))
    BY <1>1 DEF IInv, Flags, Owned
  <2> QED BY <1>1, <2>1, <2>2, EndIdle DEF Committing
<1>3. CASE Accepted(a, e)
  <2>1. /\ pc' = [pc EXCEPT ![p] = "save"] /\ lock' = p /\ cand' = e
        /\ UNCHANGED <<req, hash, seen, overtaken>>
    BY <1>3 DEF Submit
  <2>2. e \in Store /\ Valid(e) /\ Owns(p, e) /\ Passwords(p, e)
    BY <1>3 DEF Accepted
  <2>3. /\ pc' \in [Handler -> PCs] /\ pc'[p] = "save"
        /\ \A q \in Handler : q # p => pc'[q] = pc[q]
    BY <2>1 DEF IInv, Typed, PCs, Committing
  <2>4. \A q \in Handler : /\ Active(q)' <=> Active(q)
                           /\ pc'[q] = "claimed" <=> pc[q] = "claimed"
                           /\ pc'[q] \in Waiting => pc[q] \in Waiting
                           /\ pc'[q] \in Committing <=> q = p
    <3>1. \A q \in Handler : pc[q] \notin Committing
      BY <1>1 DEF IInv, Typed
    <3> QED BY <1>1, <2>3, <3>1 DEF Active, Waiting, Committing
  <2>5. Typed'
    BY <1>1, <2>1, <2>3, <2>4 DEF IInv, Typed
  <2>6. Flags'
    BY <1>1 DEF IInv, Flags
  <2>7. Phases'
    <3>1. Valid(store)'
      BY <1>1 DEF IInv, Phases, Valid, PoolFloor, Superusers, Claimed
    <3>2. RuntimeAgrees'
      BY <2>1 DEF RuntimeAgrees
    <3>3. Behind(p)'
      BY <1>1, <2>3 DEF IInv, Phases, RuntimeAgrees, Behind
    <3> QED BY <2>1, <3>1, <3>2, <3>3 DEF Phases
  <2>8. Candidate'
    <3>1. Valid(cand)'
      BY <2>1, <2>2 DEF Valid, PoolFloor, Superusers, Claimed
    <3>2. Owns(p, cand)'
      BY <1>1, <2>1, <2>2 DEF Owns, Administrates, Superusers, Claimed
    <3>3. Passwords(p, cand)'
      BY <1>1, <2>1, <2>2 DEF Passwords
    <3> QED BY <2>1, <2>2, <3>1, <3>2, <3>3 DEF Candidate
  <2>9. Owned'
    BY <1>1, <2>1, <2>4 DEF IInv, Owned, Claimed, Superusers
  <2>10. Hashes'
    BY <1>1, <2>1, <2>4 DEF IInv, Hashes, Unrotated, Present
  <2>11. Durable'
    BY <1>1, KeepsDurable
  <2> QED BY <2>5, <2>6, <2>7, <2>8, <2>9, <2>10, <2>11 DEF IInv
<1> QED BY <1>2, <1>3

(* The swap of the store: the runtime is there already.                      *)
LEMMA PublishIInv == ASSUME IInv, NEW p \in Handler, Publish(p) PROVE IInv'
<1> DEFINE to == IF req[p].op = "setup" THEN "claimed" ELSE "idle"
<1>1. /\ pc[p] = "publish" /\ pc' = [pc EXCEPT ![p] = to]
      /\ store' = cand /\ lock' = None
      /\ overtaken' = [q \in Handler |-> q # p /\ (overtaken[q] \/ Overtakes(req[p], q))]
      /\ req' = [req EXCEPT ![p] = None]
      /\ hash' = [hash EXCEPT ![p] = 0] /\ seen' = [seen EXCEPT ![p] = 0]
      /\ UNCHANGED <<file, synced, unsynced, tmp, cfg, router, retention, setupRequired, failures,
                     requests, admitted>>
  BY DEF Publish, Goto, disk
<1>2. /\ Behind(p) /\ cand \in Store /\ Valid(cand) /\ Owns(p, cand) /\ Passwords(p, cand)
      /\ \A q \in Handler : q # p => pc[q] \notin Committing
  BY <1>1, Holder DEF Committing
<1>3. to \in {"idle", "claimed"} /\ (to = "claimed" <=> req[p].op = "setup")
  OBVIOUS
<1> HIDE DEF to
<1>4. /\ pc' \in [Handler -> PCs] /\ req' \in [Handler -> Asked \cup {None}]
      /\ hash' \in [Handler -> Nat] /\ seen' \in [Handler -> Nat]
      /\ pc'[p] = to /\ req'[p] = None
      /\ \A q \in Handler : q # p => /\ pc'[q] = pc[q] /\ req'[q] = req[q]
                                     /\ hash'[q] = hash[q] /\ seen'[q] = seen[q]
  BY <1>1, <1>3 DEF IInv, Typed, PCs
<1>5. /\ overtaken' \in [Handler -> BOOLEAN] /\ ~overtaken'[p]
      /\ \A q \in Handler : overtaken'[q] => overtaken[q] \/ Overtakes(req[p], q)
  BY <1>1
<1>6. \A q \in Handler : pc'[q] \notin Committing /\ lock' # q
  BY <1>1, <1>2, <1>3, <1>4 DEF Committing
<1>7. /\ ~Active(p)' /\ pc'[p] \notin Waiting /\ Active(p)
      /\ \A q \in Handler : q # p => (Active(q)' <=> Active(q))
  BY <1>1, <1>3, <1>4 DEF Active, Waiting, Committing
<1>8. Typed'
  BY <1>1, <1>2, <1>4, <1>5, <1>6, <1>7 DEF IInv, Typed, Behind
<1>9. Flags'
  BY <1>1 DEF IInv, Flags
<1>10. Phases'
  <2>1. Valid(store)'
    BY <1>1, <1>2 DEF Valid, PoolFloor, Superusers, Claimed
  <2>2. RuntimeAgrees'
    BY <1>1, <1>2 DEF Behind, RuntimeAgrees
  <2> QED BY <1>6, <2>1, <2>2 DEF Phases
<1>11. Candidate'
  BY <1>6 DEF Candidate
<1>12. Owned'
  <2>1. Claimed(store)' <=> Claimed(cand)
    BY <1>1 DEF Claimed, Superusers
  <2>2. /\ Claimed(store) => Claimed(cand)
        /\ req[p].op = "setup" => Claimed(cand)
        /\ req[p].op # "setup" => Claimed(store)
    BY <1>2, <1>7 DEF Owns, Claimed, IInv, Owned
  <2>3. ~setupRequired' => Claimed(store)'
    BY <1>1, <2>1, <2>2 DEF IInv, Owned
  <2>4. setupRequired' /\ Claimed(store)' => \E q \in Handler : pc'[q] = "claimed"
    <3>1. CASE req[p].op = "setup"
      BY <1>3, <1>4, <3>1
    <3>2. CASE req[p].op # "setup"
      BY <1>1, <1>4, <2>2, <3>2 DEF IInv, Owned
    <3> QED BY <3>1, <3>2
  <2>5. \A q \in Handler : pc'[q] = "claimed" => Claimed(store)'
    BY <1>3, <1>4, <2>1, <2>2 DEF IInv, Owned
  <2>6. \A q \in Handler : Active(q)' /\ req'[q].op # "setup" => Claimed(store)'
    BY <1>4, <1>7, <2>1, <2>2 DEF IInv, Owned
  <2> QED BY <2>3, <2>4, <2>5, <2>6 DEF Owned
<1>13. Hashes'
  <2>1. \A u \in DOMAIN cand.users :
          \/ cand.users[u].pw = hash[p]
          \/ u \in DOMAIN store.users /\ cand.users[u].pw = store.users[u].pw
    BY <1>2 DEF Passwords
  <2>2. hash[p] \in 1..requests
    BY <1>7 DEF IInv, Hashes
  <2>3. \A u \in DOMAIN store'.users : store'.users[u].pw <= requests'
    BY <1>1, <2>1, <2>2 DEF IInv, Hashes
  <2>4. ASSUME NEW q \in Handler, Active(q)'
        PROVE  /\ hash'[q] \in 1..requests' /\ seen'[q] <= requests'
               /\ \A u \in DOMAIN store'.users : store'.users[u].pw # hash'[q]
               /\ \A r \in Handler : Active(r)' =>
                    seen'[q] # hash'[r] /\ (q # r => hash'[q] # hash'[r])
    <3>1. q # p /\ Active(q)
      BY <1>7, <2>4
    <3>2. \A u \in DOMAIN store'.users : store'.users[u].pw # hash'[q]
      BY <1>1, <1>4, <1>7, <2>1, <3>1 DEF IInv, Hashes
    <3> QED BY <1>1, <1>4, <1>7, <3>1, <3>2 DEF IInv, Hashes
  <2>5. ASSUME NEW q \in Handler, pc'[q] \in Waiting, overtaken'[q], req'[q].op = "account"
        PROVE  ~Unrotated(q)'
    <3>1. /\ q # p /\ pc[q] \in Waiting /\ req[q].op = "account" /\ Active(q)
          /\ req'[q] = req[q] /\ seen'[q] = seen[q]
      BY <1>4, <1>7, <2>5 DEF Active
    <3>2. seen[q] # hash[p]
      BY <1>7, <3>1 DEF IInv, Hashes
    <3> DEFINE b == req[q].by
    <3>3. SUFFICES ASSUME b \in DOMAIN cand.users, cand.users[b].pw = seen[q] PROVE FALSE
      BY <1>1, <3>1 DEF Unrotated, Present
    <3>4. b \in DOMAIN store.users /\ cand.users[b].pw = store.users[b].pw
      BY <2>1, <3>2, <3>3
    <3>5. CASE overtaken[q]
      BY <3>1, <3>3, <3>4, <3>5 DEF IInv, Hashes, Unrotated, Present
    <3>6. CASE Overtakes(req[p], q)
      BY <1>2, <3>2, <3>3, <3>6 DEF Overtakes, Passwords
    <3> QED BY <1>5, <2>5, <3>5, <3>6
  <2>6. ASSUME NEW q \in Handler, ~Active(q)' PROVE req'[q] = None /\ ~overtaken'[q]
    <3>1. CASE q = p
      BY <1>4, <1>5, <3>1
    <3>2. CASE q # p
      BY <1>4, <1>5, <1>7, <2>6, <3>2 DEF IInv, Hashes, Overtakes
    <3> QED BY <3>1, <3>2
  <2> QED BY <2>3, <2>4, <2>5, <2>6 DEF Hashes
<1>14. Durable'
  <2>1. Keeping(cand) /\ Keeping(synced)
    BY <1>1, Holder, CandidateKept DEF Committing, IInv, Durable
  <2> QED BY <1>1, <2>1 DEF Durable, Keeping, Valid, PoolFloor, Superusers, Claimed
<1> QED BY <1>8, <1>9, <1>10, <1>11, <1>12, <1>13, <1>14 DEF IInv

-----------------------------------------------------------------------------
(* A request arrives: its hash is new, and what it has seen is a hash of the  *)
(* store or none.                                                           *)
LEMMA ArriveIInv ==
  ASSUME IInv, NEW p \in Handler, NEW r \in Asked, NEW to \in Waiting, NEW saw \in Nat,
         Arrive(p, r, to, saw), saw <= requests,
         \A q \in Handler : Active(q) => saw # hash[q],
         r.op # "setup" => Claimed(store),
         failures' \in 0..(ThrottleMax + 1), admitted' \in Nat,
         admitted' <= failures', admitted' <= ThrottleMax + 1
  PROVE  IInv'
<1> USE DEF process, disk, handler
<1>1. /\ pc[p] = "idle" /\ requests < MaxRequests /\ requests' = requests + 1
      /\ pc' = [pc EXCEPT ![p] = to] /\ req' = [req EXCEPT ![p] = r]
      /\ hash' = [hash EXCEPT ![p] = requests + 1] /\ seen' = [seen EXCEPT ![p] = saw]
      /\ UNCHANGED <<store, file, synced, unsynced, tmp, cfg, router, retention, setupRequired, lock,
                     cand, overtaken>>
  BY DEF Arrive, FreshHash
<1>2. requests \in Nat /\ requests' \in 0..MaxRequests
  BY <1>1 DEF IInv, Flags
<1>3. /\ pc' \in [Handler -> PCs] /\ req' \in [Handler -> Asked \cup {None}]
      /\ hash' \in [Handler -> Nat] /\ seen' \in [Handler -> Nat]
      /\ pc'[p] = to /\ req'[p] = r /\ hash'[p] = requests + 1 /\ seen'[p] = saw
  BY <1>1, <1>2 DEF IInv, Typed, PCs
<1>4. \A q \in Handler : q # p => /\ pc'[q] = pc[q] /\ req'[q] = req[q]
                                  /\ hash'[q] = hash[q] /\ seen'[q] = seen[q]
  BY <1>1 DEF IInv, Typed
<1>5. /\ Active(p)' /\ ~Active(p) /\ pc'[p] \notin Committing /\ pc[p] \notin Committing
      /\ pc'[p] # "claimed" /\ lock # p
      /\ \A q \in Handler : q # p => (Active(q)' <=> Active(q))
  <2>1. lock = p <=> pc[p] \in Committing
    BY DEF IInv, Typed
  <2> QED BY <1>1, <1>3, <1>4, <2>1 DEF Active, Waiting, Committing
<1>6. Typed'
  BY <1>1, <1>3, <1>4, <1>5 DEF IInv, Typed
<1>7. Flags'
  BY <1>1, <1>2 DEF IInv, Flags
<1>8. Phases'
  <2>1. Valid(store)' /\ RuntimeAgrees'
    BY <1>1 DEF IInv, Phases, RuntimeAgrees, Valid, PoolFloor, Superusers, Claimed
  <2>2. \A q \in Handler : lock' = q => Behind(q)'
    BY <1>1, <1>4, <1>5 DEF IInv, Phases, Behind
  <2> QED BY <2>1, <2>2 DEF Phases
<1>9. Candidate'
  BY <1>1, <1>4, <1>5, KeepsCandidate
<1>10. Owned'
  <2>1. Claimed(store)' <=> Claimed(store)
    BY <1>1 DEF Claimed, Superusers
  <2>2. setupRequired' /\ Claimed(store)' => \E q \in Handler : pc'[q] = "claimed"
    BY <1>1, <1>4, <2>1 DEF IInv, Owned
  <2> QED BY <1>1, <1>3, <1>4, <1>5, <2>1, <2>2 DEF IInv, Owned
<1>11. Hashes'
  <2>1. \A u \in DOMAIN store.users : store.users[u].pw \in Nat /\ store.users[u].pw <= requests
    <3>1. store.users \in Users
      BY StoreIs DEF IInv, Typed
    <3>2. \A u \in DOMAIN store.users : store.users[u] \in Account
      BY <3>1, TableIs DEF Users
    <3> QED BY <3>2 DEF Account, IInv, Hashes
  <2>2. \A u \in DOMAIN store'.users : store'.users[u].pw <= requests'
    BY <1>1, <1>2, <2>1
  <2>3. \A q \in Handler : Active(q) => hash[q] \in 1..requests /\ seen[q] <= requests
                                        /\ seen[q] \in Nat
    BY DEF IInv, Typed, Hashes
  <2>4. ASSUME NEW q \in Handler, Active(q)'
        PROVE  /\ hash'[q] \in 1..requests' /\ seen'[q] <= requests'
               /\ \A u \in DOMAIN store'.users : store'.users[u].pw # hash'[q]
    <3>1. CASE q = p
      BY <1>1, <1>2, <1>3, <2>1, <3>1
    <3>2. CASE q # p
      BY <1>1, <1>2, <1>4, <1>5, <2>3, <2>4, <3>2 DEF IInv, Hashes
    <3> QED BY <3>1, <3>2
  <2>5. ASSUME NEW q \in Handler, Active(q)', NEW o \in Handler, Active(o)'
        PROVE  seen'[q] # hash'[o] /\ (q # o => hash'[q] # hash'[o])
    <3>1. CASE q = p /\ o = p
      BY <1>2, <1>3, <3>1
    <3>2. CASE q = p /\ o # p
      BY <1>2, <1>3, <1>4, <1>5, <2>3, <2>5, <3>2
    <3>3. CASE q # p /\ o = p
      BY <1>2, <1>3, <1>4, <1>5, <2>3, <2>5, <3>3
    <3>4. CASE q # p /\ o # p
      BY <1>4, <1>5, <2>5, <3>4 DEF IInv, Hashes
    <3> QED BY <3>1, <3>2, <3>3, <3>4
  <2>6. ASSUME NEW q \in Handler, pc'[q] \in Waiting, overtaken'[q], req'[q].op = "account"
        PROVE  ~Unrotated(q)'
    <3>1. q # p
      BY <1>1, <1>5, <2>6 DEF IInv, Hashes
    <3> QED BY <1>1, <1>4, <2>6, <3>1 DEF IInv, Hashes, Unrotated, Present
  <2>7. ASSUME NEW q \in Handler, ~Active(q)' PROVE req'[q] = None /\ ~overtaken'[q]
    BY <1>1, <1>4, <1>5, <2>7 DEF IInv, Hashes
  <2> QED BY <2>2, <2>4, <2>5, <2>6, <2>7 DEF Hashes
<1>12. Durable'
  BY <1>1, KeepsDurable
<1> QED BY <1>6, <1>7, <1>8, <1>9, <1>10, <1>11, <1>12 DEF IInv

(* A handler goes on without the mutex: nothing but its place, the throttle and  *)
(* its copy change.                                                         *)
LEMMA GoesOn ==
  ASSUME IInv, NEW p \in Handler, NEW to \in Waiting, pc[p] \in Waiting,
         pc' = [pc EXCEPT ![p] = to], Flags',
         UNCHANGED <<store, file, synced, unsynced, cfg, router, retention, setupRequired,
                     lock, req, hash, seen, cand, requests, overtaken>>
  PROVE  IInv'
<1>2. /\ pc' \in [Handler -> PCs] /\ pc'[p] = to
      /\ \A q \in Handler : q # p => pc'[q] = pc[q]
  BY DEF IInv, Typed, PCs
<1>3. \A q \in Handler : /\ Active(q)' <=> Active(q)
                         /\ pc'[q] = "claimed" <=> pc[q] = "claimed"
                         /\ pc'[q] \in Waiting <=> pc[q] \in Waiting
                         /\ pc'[q] \in Committing <=> pc[q] \in Committing
                         /\ pc[q] \in Committing => pc'[q] = pc[q]
  BY <1>2 DEF Active, Waiting, Committing
<1>4. Typed'
  BY <1>2, <1>3 DEF IInv, Typed
<1>6. Phases'
  <2>1. Valid(store)' /\ RuntimeAgrees'
    BY DEF IInv, Phases, RuntimeAgrees, Routed, Valid, PoolFloor, Superusers, Claimed
  <2>2. \A q \in Handler : lock' = q => Behind(q)'
    BY <1>3 DEF IInv, Typed, Phases, Behind
  <2> QED BY <2>1, <2>2 DEF Phases
<1>7. Candidate'
  BY KeepsCandidate
<1>8. Owned'
  BY <1>3 DEF IInv, Owned, Claimed, Superusers
<1>9. Hashes'
  BY <1>3 DEF IInv, Hashes, Unrotated, Present
<1>10. Durable'
  BY KeepsDurable
<1> QED BY <1>4, <1>6, <1>7, <1>8, <1>9, <1>10 DEF IInv

(* Hashing and reading are done: the handler waits for the mutex.            *)
LEMMA WorkIInv == ASSUME IInv, NEW p \in Handler, Work(p) PROVE IInv'
<1> USE DEF process, disk, handler, history
<1>1. /\ pc[p] = "work" /\ pc' = [pc EXCEPT ![p] = "lock"]
      /\ UNCHANGED <<store, file, synced, unsynced, tmp, cfg, router, retention,
                     setupRequired, failures, lock, req, hash, seen, cand, requests,
                     overtaken, admitted>>
  BY DEF Work, Goto
<1>2. Flags'
  BY <1>1 DEF IInv, Flags
<1> QED BY <1>1, <1>2, GoesOn DEF Waiting

(* A setup whose body has been read is admitted or rejected.                  *)
LEMMA SetupBodyIInv ==
  ASSUME IInv, NEW p \in Handler, SetupAdmitted(p) \/ SetupRejected(p) PROVE IInv'
<1> USE DEF process, disk, handler
<1>1. CASE SetupAdmitted(p)
  <2>1. /\ pc[p] = "body" /\ pc' = [pc EXCEPT ![p] = "work"] /\ failures <= ThrottleMax
        /\ failures' = failures + 1 /\ admitted' = admitted + 1
        /\ UNCHANGED <<store, file, synced, unsynced, tmp, cfg, router, retention,
                       setupRequired, lock, req, hash, seen, cand, requests, overtaken>>
    BY <1>1 DEF SetupAdmitted, AdmitPreAuth, Goto
  <2>2. tmp' \in BOOLEAN /\ unsynced' \in BOOLEAN /\ setupRequired' \in BOOLEAN
    BY <2>1 DEF IInv, Flags
  <2>3. /\ requests' \in 0..MaxRequests /\ failures' \in 0..(ThrottleMax + 1)
        /\ admitted' \in Nat /\ admitted' <= failures' /\ admitted' <= ThrottleMax + 1
    <3>1. /\ requests \in 0..MaxRequests /\ failures \in 0..(ThrottleMax + 1)
          /\ admitted \in Nat /\ admitted <= failures
      BY DEF IInv, Flags
    <3> QED BY <2>1, <3>1
  <2> QED BY <2>1, <2>2, <2>3, GoesOn DEF Waiting, Flags
<1>2. CASE SetupRejected(p)
  <2>1. /\ pc[p] = "body" /\ pc' = [pc EXCEPT ![p] = "idle"] /\ Ended(p)
        /\ UNCHANGED <<store, file, synced, unsynced, tmp, cfg, router, retention,
                       setupRequired, lock, cand, requests, failures, admitted>>
    BY <1>2 DEF SetupRejected, Goto
  <2>2. setupRequired' \in BOOLEAN /\ (~setupRequired' => Claimed(store))
    BY <2>1 DEF IInv, Flags, Owned
  <2> QED BY <2>1, <2>2, EndIdle DEF Committing
<1> QED BY <1>1, <1>2

(* The Settings page: the store is cloned, and the page answered.             *)
LEMMA PageIInv ==
  ASSUME IInv, NEW p \in Handler, ApiConfig(p) \/ ApiConfigAnswers(p) PROVE IInv'
<1> USE DEF process, disk, handler
<1>1. /\ pc[p] \in {"lock", "page"}
      /\ UNCHANGED <<store, file, synced, unsynced, tmp, cfg, router, retention,
                     setupRequired, lock, cand, requests, failures, admitted>>
  BY DEF ApiConfig, ApiConfigAnswers, Is, Goto
<1>2. CASE pc' = [pc EXCEPT ![p] = "page"] /\ UNCHANGED <<req, hash, seen, overtaken>>
  <2>1. Flags'
    BY <1>1 DEF IInv, Flags
  <2> QED BY <1>1, <1>2, <2>1, GoesOn DEF Waiting
<1>3. CASE pc' = [pc EXCEPT ![p] = "idle"] /\ Ended(p)
  <2>1. setupRequired' \in BOOLEAN /\ (~setupRequired' => Claimed(store))
    BY <1>1 DEF IInv, Flags, Owned
  <2> QED BY <1>1, <1>3, <2>1, EndIdle DEF Committing
<1> QED BY <1>2, <1>3 DEF ApiConfig, ApiConfigAnswers, Goto

(* Only the throttle moves, or nothing does.                                *)
LEMMA ThrottleIInv ==
  ASSUME IInv, Flags',
         UNCHANGED <<store, file, synced, unsynced, cfg, router, retention, setupRequired, lock, pc,
                     req, hash, seen, cand, requests, overtaken>>
  PROVE  IInv'
<1>1. \A q \in Handler : Active(q)' <=> Active(q)
  BY DEF Active
<1>2. Typed'
  BY <1>1 DEF IInv, Typed
<1>3. Phases'
  <2>1. Valid(store)' /\ RuntimeAgrees'
    BY DEF IInv, Phases, RuntimeAgrees, Valid, PoolFloor, Superusers, Claimed
  <2>2. \A q \in Handler : lock' = q => Behind(q)'
    BY DEF IInv, Phases, Behind
  <2> QED BY <2>1, <2>2 DEF Phases
<1>4. Candidate'
  BY KeepsCandidate
<1>5. Owned'
  BY <1>1 DEF IInv, Owned, Claimed, Superusers
<1>6. Hashes'
  BY <1>1 DEF IInv, Hashes, Unrotated, Present
<1>7. Durable'
  BY KeepsDurable
<1> QED BY <1>2, <1>3, <1>4, <1>5, <1>6, <1>7 DEF IInv

(* A process that starts is in step with the file it finds.                  *)
LEMMA RebootIInv == ASSUME IInv, Reboot PROVE IInv'
<1>1. /\ file' \in {file, synced} /\ Valid(file') /\ tmp' = FALSE
      /\ store' = file' /\ cfg' = file' /\ router' = Routed(file')
      /\ retention' = file'.days
      /\ failures' = 0 /\ lock' = None /\ admitted' = 0 /\ requests' = requests
      /\ pc' = [p \in Handler |-> "idle"] /\ req' = [p \in Handler |-> None]
      /\ hash' = [p \in Handler |-> 0] /\ seen' = [p \in Handler |-> 0]
      /\ overtaken' = [p \in Handler |-> FALSE]
  BY DEF Reboot, Killed, PowerLost
<1>10. /\ unsynced' \in BOOLEAN /\ synced' \in {file', synced}
       /\ ~unsynced' => synced' = file'
  BY DEF Reboot, Killed, PowerLost, IInv, Flags
<1>11. Keeping(file') /\ Keeping(synced')
  BY <1>1, <1>10, FileKept DEF IInv, Durable
<1>2. setupRequired' = ~Claimed(file')
  BY DEF Reboot
<1>3. \A p \in Handler : /\ pc'[p] = "idle" /\ lock' # p /\ ~Active(p)'
                         /\ req'[p] = None /\ ~overtaken'[p]
                         /\ pc'[p] \notin Waiting /\ pc'[p] \notin Committing
  BY <1>1 DEF Active, Waiting, Committing
<1>4. Typed'
  <2>1. file' \in Store /\ synced' \in Store
    BY <1>11 DEF Keeping
  <2>2. overtaken' \in [Handler -> BOOLEAN]
    BY <1>1
  <2>3. /\ pc' \in [Handler -> PCs] /\ req' \in [Handler -> Asked \cup {None}]
        /\ hash' \in [Handler -> Nat] /\ seen' \in [Handler -> Nat]
    BY <1>1 DEF PCs
  <2> QED BY <1>1, <1>3, <2>1, <2>2, <2>3 DEF Typed
<1>5. Flags'
  <2>1. setupRequired' \in BOOLEAN
    BY <1>2
  <2>2. tmp' \in BOOLEAN
    BY <1>1
  <2>3. requests' \in 0..MaxRequests
    BY <1>1 DEF IInv, Flags
  <2> QED BY <1>1, <1>10, <2>1, <2>2, <2>3 DEF Flags
<1>6. Phases'
  <2>1. Valid(store)'
    BY <1>1 DEF Valid, PoolFloor, Superusers, Claimed
  <2>2. RuntimeAgrees'
    BY <1>1, <1>10 DEF RuntimeAgrees, Routed
  <2> QED BY <1>3, <2>1, <2>2 DEF Phases
<1>7. Candidate'
  BY <1>3 DEF Candidate
<1>8. Owned'
  <2>1. Claimed(store)' <=> Claimed(file')
    BY <1>1 DEF Claimed, Superusers
  <2> QED BY <1>2, <1>3, <2>1 DEF Owned
<1>9. Hashes'
  <2>1. ASSUME NEW u \in DOMAIN file'.users PROVE file'.users[u].pw <= requests
    BY <1>11, <2>1 DEF Keeping
  <2> QED BY <1>1, <1>3, <2>1 DEF Hashes
<1>12. Durable'
  BY <1>1, <1>11 DEF Durable, Keeping, Valid, PoolFloor, Superusers, Claimed
<1> QED BY <1>4, <1>5, <1>6, <1>7, <1>8, <1>9, <1>12 DEF IInv

-----------------------------------------------------------------------------
(* The edits.  A handler that waits for the mutex has a request.             *)
LEMMA Asking ==
  ASSUME IInv, NEW p \in Handler, pc[p] = "lock"
  PROVE  /\ req[p] \in Asked /\ hash[p] \in Nat /\ store \in Store
         /\ store.users \in Users /\ store.keys \in Keys /\ store.clients \in Clients
         /\ DOMAIN store.users \subseteq User
         /\ \A u \in DOMAIN store.users : store.users[u] \in Account
<1>1. Active(p)
  BY DEF Active, Waiting
<1>2. store \in Store /\ hash[p] \in Nat /\ req[p] \in Asked
  BY <1>1 DEF IInv, Typed
<1>3. store.users \in Users /\ store.keys \in Keys /\ store.clients \in Clients
  BY <1>2, StoreIs
<1> QED BY <1>2, <1>3, TableIs DEF Users

(* An edit that leaves the users alone.                                     *)
LEMMA SameUsers ==
  ASSUME NEW p \in Handler, NEW e, e.users = store.users,
         req[p].op \notin {"setup", "resetPassword", "removeUser"},
         req[p].op \in AdminOnly => Administrates(req[p].by)
  PROVE  Owns(p, e) /\ Passwords(p, e)
<1>1. Superusers(e) = Superusers(store)
  BY DEF Superusers
<1>2. Owns(p, e)
  BY <1>1 DEF Owns
<1>3. Passwords(p, e)
  BY DEF Passwords
<1> QED BY <1>2, <1>3

(* Keys: one's own are added; rows are removed, enabled and disabled.         *)
LEMMA KeysIInv ==
  ASSUME IInv, NEW p \in Handler, AddKey(p) \/ RemoveKey(p) \/ SetKey(p)
  PROVE  IInv'
<1>1. pc[p] = "lock" /\ req[p].op \in {"addKey", "removeKey", "setKey"}
  BY DEF AddKey, RemoveKey, SetKey, Is
<1>2. req[p].op \notin AdminOnly
  BY <1>1 DEF AdminOnly
<1>3. /\ store \in Store /\ store.keys \in Keys /\ req[p].by \in User /\ req[p].key \in Key
  BY <1>1, Asking, AskedIs
<1>4. ASSUME NEW x \in Keys
      PROVE  LET e == [store EXCEPT !.keys = x]
             IN  e \in Store /\ Owns(p, e) /\ Passwords(p, e)
  <2>1. [store EXCEPT !.keys = x] \in Store /\ [store EXCEPT !.keys = x].users = store.users
    BY <1>3, EditKeys
  <2> QED BY <1>1, <1>2, <2>1, SameUsers
<1>5. CASE AddKey(p)
  <2> DEFINE row == [owner |-> req[p].by, enabled |-> TRUE]
             x == With(store.keys, req[p].key, row)
  <2>1. row \in KeyRow
    BY <1>3 DEF KeyRow
  <2>2. x \in Keys
    <3> HIDE DEF row
    <3> QED BY <1>3, <2>1, WithTable DEF Keys
  <2>3. Submit(p, Present(p) /\ req[p].key \notin DOMAIN store.keys, [store EXCEPT !.keys = x])
    BY <1>5 DEF AddKey
  <2> HIDE DEF x
  <2> QED BY <1>4, <2>2, <2>3, SubmitIInv
<1>6. CASE RemoveKey(p)
  <2> DEFINE x == Without(store.keys, {req[p].key})
  <2>1. x \in Keys
    BY <1>3, WithoutTable DEF Keys
  <2>2. Submit(p, MayTouch(req[p].by, store.keys, req[p].key), [store EXCEPT !.keys = x])
    BY <1>6 DEF RemoveKey, Removed
  <2> HIDE DEF x
  <2> QED BY <1>4, <2>1, <2>2, SubmitIInv
<1>7. CASE SetKey(p)
  <2> DEFINE k == req[p].key
             may == MayTouch(req[p].by, store.keys, k)
             row == [store.keys[k] EXCEPT !.enabled = ~store.keys[k].enabled]
             x == [store.keys EXCEPT ![k] = row]
             e == IF may THEN [store EXCEPT !.keys[k].enabled = ~@] ELSE store
  <2>1. Submit(p, may, e)
    BY <1>7 DEF SetKey
  <2>2. CASE may
    <3>1. k \in DOMAIN store.keys
      BY <2>2 DEF MayTouch
    <3>2. store.keys[k] \in KeyRow
      BY <1>3, <3>1, TableIs DEF Keys
    <3>3. row \in KeyRow
      BY <3>2 DEF KeyRow
    <3>4. e = [store EXCEPT !.keys = x]
      BY <2>2
    <3>5. x \in Keys
      <4> HIDE DEF row, k
      <4> QED BY <1>3, <3>1, <3>3, ChangedTable DEF Keys
    <3> HIDE DEF x, e, may
    <3> QED BY <1>4, <2>1, <3>4, <3>5, SubmitIInv
  <2>3. CASE ~may
    <3>1. ~Accepted(may, e)
      BY <2>3 DEF Accepted
    <3> HIDE DEF may, e
    <3> QED BY <2>1, <3>1, SubmitIInv
  <2> QED BY <2>2, <2>3
<1> QED BY <1>5, <1>6, <1>7

(* Client keys.                                                             *)
LEMMA ClientsIInv ==
  ASSUME IInv, NEW p \in Handler, AddClient(p) \/ RemoveClient(p)
  PROVE  IInv'
<1>1. pc[p] = "lock" /\ req[p].op \in {"addClient", "removeClient"}
  BY DEF AddClient, RemoveClient, Is
<1>2. req[p].op \notin AdminOnly
  BY <1>1 DEF AdminOnly
<1>3. /\ store \in Store /\ store.clients \in Clients /\ req[p].by \in User
      /\ req[p].client \in Client
  BY <1>1, Asking, AskedIs
<1>4. ASSUME NEW x \in Clients
      PROVE  LET e == [store EXCEPT !.clients = x]
             IN  e \in Store /\ Owns(p, e) /\ Passwords(p, e)
  <2>1. /\ [store EXCEPT !.clients = x] \in Store
        /\ [store EXCEPT !.clients = x].users = store.users
    BY <1>3, EditClients
  <2> QED BY <1>1, <1>2, <2>1, SameUsers
<1>5. CASE AddClient(p)
  <2> DEFINE row == [owner |-> req[p].by]
             x == With(store.clients, req[p].client, row)
  <2>1. row \in ClientRow
    BY <1>3 DEF ClientRow
  <2>2. x \in Clients
    <3> HIDE DEF row
    <3> QED BY <1>3, <2>1, WithTable DEF Clients
  <2>3. Submit(p, Present(p) /\ req[p].client \notin DOMAIN store.clients,
               [store EXCEPT !.clients = x])
    BY <1>5 DEF AddClient
  <2> HIDE DEF x
  <2> QED BY <1>4, <2>2, <2>3, SubmitIInv
<1>6. CASE RemoveClient(p)
  <2> DEFINE x == Without(store.clients, {req[p].client})
  <2>1. x \in Clients
    BY <1>3, WithoutTable DEF Clients
  <2>2. Submit(p, MayTouch(req[p].by, store.clients, req[p].client),
               [store EXCEPT !.clients = x])
    BY <1>6 DEF RemoveClient
  <2> HIDE DEF x
  <2> QED BY <1>4, <2>1, <2>2, SubmitIInv
<1> QED BY <1>5, <1>6

(* Server settings, and a user's language: the knobs are replaced.           *)
LEMMA ServerIInv ==
  ASSUME IInv, NEW p \in Handler,
         \/ Mode(p) \/ Upstream(p) \/ History(p) \/ Limits(p) \/ GovernorCfg(p)
         \/ Routing(p) \/ Locale(p) \/ Server(p) \/ AccountLocale(p)
  PROVE  IInv'
<1> USE DEF Limits, GovernorCfg, Routing, Locale, Section
<1>1. /\ pc[p] = "lock"
      /\ req[p].op \in {"mode", "upstream", "history", "limits", "governor_cfg", "routing",
                        "locale", "server", "accountLocale"}
  BY DEF Mode, Upstream, History, Server, AccountLocale, Is
<1>2. store \in Store /\ req[p] \in Asked
  BY <1>1, Asking
<1>3. ASSUME NEW a, NEW e \in Store, e.users = store.users, Submit(p, a, e),
             req[p].op \in AdminOnly => (a => Administrates(req[p].by))
      PROVE  IInv'
  <2>1. Accepted(a, e) => Owns(p, e) /\ Passwords(p, e)
    BY <1>1, <1>3, SameUsers DEF Accepted
  <2> QED BY <1>3, <2>1, SubmitIInv
<1>4. Replaced \in Store /\ Replaced.users = store.users
  <2>1. 1 - store.knobs \in {0, 1}
    BY <1>2, StoreIs
  <2> QED BY <1>2, <2>1, EditKnobs DEF Replaced
<1>5. CASE Limits(p) \/ GovernorCfg(p) \/ Routing(p) \/ Locale(p)
  BY <1>3, <1>4, <1>5
<1>6. CASE AccountLocale(p)
  <2>1. req[p].op \notin AdminOnly
    BY <1>6 DEF AccountLocale, Is, AdminOnly
  <2> QED BY <1>3, <1>4, <1>6, <2>1 DEF AccountLocale
<1>7. CASE Mode(p)
  <2> DEFINE e == [store EXCEPT !.open = ~store.open]
  <2>1. e \in Store /\ e.users = store.users
    <3>1. (~store.open) \in BOOLEAN
      OBVIOUS
    <3> DEFINE b == ~store.open
    <3> HIDE DEF b
    <3>2. b \in BOOLEAN
      BY <3>1 DEF b
    <3>3. [store EXCEPT !.open = b] \in Store /\ [store EXCEPT !.open = b].users = store.users
      BY <1>2, <3>2, EditOpen
    <3> QED BY <3>3 DEF b
  <2>2. Submit(p, Administrates(req[p].by), e)
    BY <1>7 DEF Mode
  <2> HIDE DEF e
  <2> QED BY <1>3, <2>1, <2>2
<1>8. CASE Upstream(p)
  <2> DEFINE e == [store EXCEPT !.url = req[p].url]
  <2>1. e \in Store /\ e.users = store.users
    BY <1>2, <1>8, AskedIs, EditUrl DEF Upstream, Is
  <2>2. Submit(p, Administrates(req[p].by), e)
    BY <1>8 DEF Upstream
  <2> HIDE DEF e
  <2> QED BY <1>3, <2>1, <2>2
<1>9. CASE History(p)
  <2> DEFINE e == [store EXCEPT !.days = req[p].days]
  <2>1. e \in Store /\ e.users = store.users
    BY <1>2, <1>9, AskedIs, EditDays DEF History, Is
  <2>2. Submit(p, Administrates(req[p].by), e)
    BY <1>9 DEF History
  <2> HIDE DEF e
  <2> QED BY <1>3, <2>1, <2>2
<1>10. CASE Server(p)
  <2> DEFINE e == [Replaced EXCEPT !.url = req[p].url]
  <2>1. e \in Store /\ e.users = store.users
    BY <1>2, <1>4, <1>10, AskedIs, EditUrl DEF Server, Is
  <2>2. Submit(p, Administrates(req[p].by), e)
    BY <1>10 DEF Server
  <2> HIDE DEF e
  <2> QED BY <1>3, <2>1, <2>2
<1> QED BY <1>5, <1>6, <1>7, <1>8, <1>9, <1>10

(* A row of an ordinary user, or a password, is changed.                     *)
LEMMA ChangedUser ==
  ASSUME IInv, NEW p \in Handler, pc[p] = "lock", NEW u \in DOMAIN store.users,
         NEW row \in Account, row.pw = hash[p] \/ row.pw = store.users[u].pw,
         row.role = "superuser" <=> store.users[u].role = "superuser",
         NEW e, e = [store EXCEPT !.users = [store.users EXCEPT ![u] = row]]
  PROVE  /\ e \in Store /\ Superusers(e) = Superusers(store)
         /\ \A v \in DOMAIN e.users :
              \/ e.users[v].pw = hash[p]
              \/ v \in DOMAIN store.users /\ e.users[v].pw = store.users[v].pw
         /\ e.users[u] = row
<1> DEFINE x == [store.users EXCEPT ![u] = row]
<1>1. /\ x \in Users /\ DOMAIN x = DOMAIN store.users /\ x[u] = row
      /\ \A v \in DOMAIN store.users : v # u => x[v] = store.users[v]
  BY Asking, ChangedTable DEF Users
<1> HIDE DEF x
<1>2. e \in Store /\ e.users = x
  BY <1>1, Asking, EditUsers DEF x
<1>3. \A v \in DOMAIN store.users :
        x[v].role = "superuser" <=> store.users[v].role = "superuser"
  BY <1>1
<1>4. Superusers(e) = Superusers(store)
  BY <1>1, <1>2, <1>3 DEF Superusers
<1> QED BY <1>1, <1>2, <1>4

(* A new user's role is not the superuser's.                                *)
LEMMA AddUserIInv == ASSUME IInv, NEW p \in Handler, AddUser(p) PROVE IInv'
<1> DEFINE n == req[p].user
           row == [role |-> req[p].role, pw |-> hash[p]]
           x == With(store.users, n, row)
           e == [store EXCEPT !.users = x]
           a == Recheck(req[p].by) /\ n \notin DOMAIN store.users
<1>1. pc[p] = "lock" /\ req[p].op = "addUser" /\ Submit(p, a, e)
  BY DEF AddUser, Is
<1>2. n \in User /\ req[p].role \in {"admin", "user"}
  BY <1>1, Asking, AskedIs
<1>3. row \in Account /\ row.pw = hash[p] /\ row.role # "superuser"
  BY <1>1, <1>2, Asking DEF Account, Role
<1> HIDE DEF row
<1>4. /\ x \in Users /\ DOMAIN x = DOMAIN store.users \cup {n} /\ x[n] = row
      /\ \A v \in DOMAIN store.users : v # n => x[v] = store.users[v]
  <2> DEFINE f == store.users
  <2>1. f \in Table(User, Account)
    BY <1>1, Asking DEF Users
  <2> HIDE DEF n, f
  <2>2. /\ With(f, n, row) \in Table(User, Account)
        /\ DOMAIN With(f, n, row) = DOMAIN f \cup {n}
        /\ With(f, n, row)[n] = row
        /\ \A v \in DOMAIN f : v # n => With(f, n, row)[v] = f[v]
    <3>1. n \in User /\ row \in Account
      BY <1>2, <1>3
    <3> QED BY <2>1, <3>1, WithTable
  <2> QED BY <2>2 DEF f, Users
<1> HIDE DEF x
<1>5. e \in Store /\ e.users = x
  BY <1>1, <1>4, Asking, EditUsers
<1> HIDE DEF e
<1>6. ASSUME a PROVE Owns(p, e) /\ Passwords(p, e)
  <2>1. n \notin DOMAIN store.users /\ Administrates(req[p].by)
    BY <1>6 DEF Recheck
  <2>2. Superusers(e) = Superusers(store)
    BY <1>3, <1>4, <1>5, <2>1 DEF Superusers
  <2>3. Owns(p, e)
    BY <1>1, <2>1, <2>2 DEF Owns
  <2>4. Passwords(p, e)
    BY <1>1, <1>3, <1>4, <1>5 DEF Passwords
  <2> QED BY <2>3, <2>4
<1> HIDE DEF a
<1> QED BY <1>1, <1>5, <1>6, SubmitIInv DEF Accepted

(* The superuser is inviolable: only an ordinary user is removed.            *)
LEMMA RemoveUserIInv == ASSUME IInv, NEW p \in Handler, RemoveUser(p) PROVE IInv'
<1> DEFINE u == req[p].user
           x == Without(store.users, {u})
           b == [store EXCEPT !.users = x]
           c == [b EXCEPT !.keys = Without(b.keys, OwnedBy(b.keys, u))]
           e == [c EXCEPT !.clients = Without(c.clients, OwnedBy(c.clients, u))]
           a == Recheck(req[p].by) /\ Ordinary(u)
<1>1. pc[p] = "lock" /\ req[p].op = "removeUser"
  BY DEF RemoveUser, Is
<1>2. /\ x \in Users /\ DOMAIN x = DOMAIN store.users \ {u}
      /\ \A v \in DOMAIN store.users \ {u} : x[v] = store.users[v]
  <2> DEFINE f == store.users
             D == {u}
  <2>1. f \in Table(User, Account)
    BY <1>1, Asking DEF Users
  <2> HIDE DEF D, f
  <2>2. /\ Without(f, D) \in Table(User, Account)
        /\ DOMAIN Without(f, D) = DOMAIN f \ D
        /\ \A v \in DOMAIN f \ D : Without(f, D)[v] = f[v]
    BY <2>1, WithoutTable
  <2> QED BY <2>2 DEF f, D, Users
<1> HIDE DEF x
<1>3. b \in Store /\ b.users = x /\ b.keys = store.keys /\ b.clients = store.clients
  BY <1>1, <1>2, Asking, EditUsers
<1> HIDE DEF b
<1>4. b.keys \in Keys /\ b.clients \in Clients
  BY <1>3, StoreIs
<1>5. Without(b.keys, OwnedBy(b.keys, u)) \in Keys
  BY <1>4, WithoutTable DEF Keys
<1>6. c \in Store /\ c.users = x /\ c.clients = b.clients
  BY <1>3, <1>5, EditKeys
<1> HIDE DEF c
<1>7. Without(c.clients, OwnedBy(c.clients, u)) \in Clients
  BY <1>4, <1>6, WithoutTable DEF Clients
<1>8. e \in Store /\ e.users = x
  BY <1>6, <1>7, EditClients
<1>9. Submit(p, a, e)
  <2>1. [store EXCEPT !.users = Without(@, {u}),
                      !.keys = Without(@, OwnedBy(@, u)),
                      !.clients = Without(@, OwnedBy(@, u))] = e
    BY <1>3, <1>6 DEF b, c, x
  <2> QED BY <2>1 DEF RemoveUser
<1> HIDE DEF e
<1>10. ASSUME a PROVE Owns(p, e) /\ Passwords(p, e)
  <2>1. Ordinary(u) /\ Administrates(req[p].by)
    BY <1>10 DEF Recheck
  <2>2. Superusers(e) = Superusers(store)
    BY <1>2, <1>8, <2>1 DEF Superusers, Ordinary
  <2>3. Owns(p, e)
    BY <1>1, <2>1, <2>2 DEF Owns
  <2>4. Passwords(p, e)
    BY <1>2, <1>8 DEF Passwords
  <2> QED BY <2>3, <2>4
<1> HIDE DEF a
<1> QED BY <1>8, <1>9, <1>10, SubmitIInv DEF Accepted

(* Passwords are reset and roles are set, of ordinary users only.            *)
LEMMA ResetPasswordIInv == ASSUME IInv, NEW p \in Handler, ResetPassword(p) PROVE IInv'
<1> DEFINE u == req[p].user
           a == Recheck(req[p].by) /\ Ordinary(u)
           row == [store.users[u] EXCEPT !.pw = hash[p]]
           e == IF a THEN [store EXCEPT !.users[u].pw = hash[p]] ELSE store
<1>1. pc[p] = "lock" /\ req[p].op = "resetPassword" /\ Submit(p, a, e)
  BY DEF ResetPassword, Is
<1>2. ASSUME a PROVE e \in Store /\ Owns(p, e) /\ Passwords(p, e)
  <2>1. u \in DOMAIN store.users /\ Administrates(req[p].by)
    BY <1>2 DEF Recheck, Ordinary
  <2>2. store.users[u] \in Account /\ hash[p] \in Nat
    BY <1>1, <2>1, Asking
  <2>3. row \in Account /\ row.pw = hash[p] /\ row.role = store.users[u].role
    BY <2>2 DEF Account
  <2>4. e = [store EXCEPT !.users = [store.users EXCEPT ![u] = row]]
    BY <1>2
  <2> HIDE DEF row, e, u
  <2>5. /\ e \in Store /\ Superusers(e) = Superusers(store)
        /\ \A v \in DOMAIN e.users :
             \/ e.users[v].pw = hash[p]
             \/ v \in DOMAIN store.users /\ e.users[v].pw = store.users[v].pw
        /\ e.users[u] = row
    BY <1>1, <2>1, <2>3, <2>4, ChangedUser
  <2>6. Owns(p, e)
    BY <1>1, <2>1, <2>5 DEF Owns
  <2>7. Passwords(p, e)
    BY <1>1, <2>3, <2>5 DEF Passwords, u
  <2> QED BY <2>5, <2>6, <2>7
<1> HIDE DEF a, e
<1> QED BY <1>1, <1>2, SubmitIInv DEF Accepted

(* A new role is not the superuser's, and neither was the old one.           *)
LEMMA SetRoleIInv == ASSUME IInv, NEW p \in Handler, SetRole(p) PROVE IInv'
<1> DEFINE u == req[p].user
           a == Recheck(req[p].by) /\ Ordinary(u)
           row == [store.users[u] EXCEPT !.role = req[p].role]
           e == IF a THEN [store EXCEPT !.users[u].role = req[p].role] ELSE store
<1>1. pc[p] = "lock" /\ req[p].op = "setRole" /\ Submit(p, a, e)
  BY DEF SetRole, Is
<1>2. ASSUME a PROVE e \in Store /\ Owns(p, e) /\ Passwords(p, e)
  <2>1. /\ u \in DOMAIN store.users /\ store.users[u].role # "superuser"
        /\ Administrates(req[p].by)
    BY <1>2 DEF Recheck, Ordinary
  <2>2. store.users[u] \in Account /\ req[p].role \in {"admin", "user"}
    BY <1>1, <2>1, Asking, AskedIs
  <2>3. row \in Account /\ row.pw = store.users[u].pw /\ row.role # "superuser"
    BY <2>2 DEF Account, Role
  <2>4. e = [store EXCEPT !.users = [store.users EXCEPT ![u] = row]]
    BY <1>2
  <2> HIDE DEF row, e, u
  <2>5. /\ e \in Store /\ Superusers(e) = Superusers(store)
        /\ \A v \in DOMAIN e.users :
             \/ e.users[v].pw = hash[p]
             \/ v \in DOMAIN store.users /\ e.users[v].pw = store.users[v].pw
    BY <1>1, <2>1, <2>3, <2>4, ChangedUser
  <2>6. Owns(p, e)
    BY <1>1, <2>1, <2>5 DEF Owns
  <2>7. Passwords(p, e)
    BY <1>1, <2>5 DEF Passwords
  <2> QED BY <2>5, <2>6, <2>7
<1> HIDE DEF a, e
<1> QED BY <1>1, <1>2, SubmitIInv DEF Accepted

(* A user's own password, if the hash is the one that was verified.          *)
LEMMA PasswordChangeIInv ==
  ASSUME IInv, NEW p \in Handler, ApplyPasswordChange(p) PROVE IInv'
<1> DEFINE u == req[p].by
           a == Unrotated(p)
           row == [store.users[u] EXCEPT !.pw = hash[p]]
           e == IF a THEN [store EXCEPT !.users[u].pw = hash[p]] ELSE store
<1>1. pc[p] = "lock" /\ req[p].op = "account" /\ Submit(p, a, e)
  BY DEF ApplyPasswordChange, Is
<1>2. ASSUME a PROVE e \in Store /\ Owns(p, e) /\ Passwords(p, e)
  <2>1. u \in DOMAIN store.users
    BY <1>2 DEF Unrotated, Present
  <2>2. store.users[u] \in Account /\ hash[p] \in Nat
    BY <1>1, <2>1, Asking
  <2>3. row \in Account /\ row.pw = hash[p] /\ row.role = store.users[u].role
    BY <2>2 DEF Account
  <2>4. e = [store EXCEPT !.users = [store.users EXCEPT ![u] = row]]
    BY <1>2
  <2> HIDE DEF row, e, u
  <2>5. /\ e \in Store /\ Superusers(e) = Superusers(store)
        /\ \A v \in DOMAIN e.users :
             \/ e.users[v].pw = hash[p]
             \/ v \in DOMAIN store.users /\ e.users[v].pw = store.users[v].pw
    BY <1>1, <2>1, <2>3, <2>4, ChangedUser
  <2>6. Owns(p, e)
    BY <1>1, <2>5 DEF Owns, AdminOnly
  <2>7. Passwords(p, e)
    BY <1>1, <2>5 DEF Passwords
  <2> QED BY <2>5, <2>6, <2>7
<1> HIDE DEF a, e
<1> QED BY <1>1, <1>2, SubmitIInv DEF Accepted

(* Adoption keeps a table a table.                                          *)
LEMMA Adopted ==
  ASSUME NEW u \in User
  PROVE  /\ \A f \in Keys : Adopt(f, u) \in Keys
         /\ \A f \in Clients : Adopt(f, u) \in Clients
<1>1. ASSUME NEW f \in Keys PROVE Adopt(f, u) \in Keys
  <2>1. PICK D \in Domains(Key) : f \in [D -> KeyRow]
    BY DEF Keys, Table
  <2>2. ASSUME NEW x \in D PROVE [f[x] EXCEPT !.owner = u] \in KeyRow
    BY <2>1 DEF KeyRow
  <2>3. Adopt(f, u) \in [D -> KeyRow]
    BY <2>1, <2>2 DEF Adopt
  <2> QED BY <2>3 DEF Keys, Table
<1>2. ASSUME NEW f \in Clients PROVE Adopt(f, u) \in Clients
  <2>1. PICK D \in Domains(Client) : f \in [D -> ClientRow]
    BY DEF Clients, Table
  <2>2. ASSUME NEW x \in D PROVE [f[x] EXCEPT !.owner = u] \in ClientRow
    BY <2>1 DEF ClientRow
  <2>3. Adopt(f, u) \in [D -> ClientRow]
    BY <2>1, <2>2 DEF Adopt
  <2> QED BY <2>3 DEF Clients, Table
<1> QED BY <1>1, <1>2

(* Setup is accepted only by a store that nobody owns, and leaves it owned.   *)
LEMMA SetupIInv == ASSUME IInv, NEW p \in Handler, Setup(p) PROVE IInv'
<1> DEFINE u == req[p].by
           k == req[p].key
           c == req[p].client
           keys == Adopt(store.keys, u)
           clients == Adopt(store.clients, u)
           row == [role |-> "superuser", pw |-> hash[p]]
           U == [x \in {u} |-> row]
           K == IF k = NoKey THEN keys ELSE With(keys, k, [owner |-> u, enabled |-> TRUE])
           C == IF c = NoKey THEN clients ELSE With(clients, c, [owner |-> u])
           e == [store EXCEPT !.users = U, !.keys = K, !.clients = C, !.url = req[p].url]
           a == Claimable /\ k \notin DOMAIN keys /\ c \notin DOMAIN clients
<1>1. pc[p] = "lock" /\ req[p].op = "setup" /\ Submit(p, a, e)
  BY DEF Setup
<1>2. /\ u \in User /\ k \in Key \cup {NoKey} /\ c \in Client \cup {NoKey}
      /\ req[p].url \in Url /\ store \in Store /\ hash[p] \in Nat
      /\ store.keys \in Keys /\ store.clients \in Clients
  BY <1>1, Asking, AskedIs
<1>3. keys \in Keys /\ clients \in Clients
  BY <1>2, Adopted
<1>4. K \in Keys
  <2> DEFINE r == [owner |-> u, enabled |-> TRUE]
  <2>1. r \in KeyRow
    BY <1>2 DEF KeyRow
  <2> HIDE DEF keys, r, k
  <2>2. k # NoKey => With(keys, k, r) \in Keys
    BY <1>2, <1>3, <2>1, WithTable DEF Keys
  <2> QED BY <1>3, <2>2 DEF r
<1>5. C \in Clients
  <2> DEFINE r == [owner |-> u]
  <2>1. r \in ClientRow
    BY <1>2 DEF ClientRow
  <2> HIDE DEF clients, r, c
  <2>2. c # NoKey => With(clients, c, r) \in Clients
    BY <1>2, <1>3, <2>1, WithTable DEF Clients
  <2> QED BY <1>3, <2>2 DEF r
<1>6. U \in Users /\ DOMAIN U = {u} /\ U[u].role = "superuser" /\ U[u].pw = hash[p]
  <2>1. row \in Account /\ row.role = "superuser" /\ row.pw = hash[p]
    BY <1>2 DEF Account, Role
  <2> HIDE DEF row
  <2>2. U \in [{u} -> Account] /\ {u} \in SUBSET User
    BY <1>2, <2>1
  <2>3. IsFiniteSet({u})
    BY FS_Singleton
  <2>4. U \in Table(User, Account)
    BY <2>2, <2>3, IsTable
  <2> QED BY <2>1, <2>4 DEF Users
<1> HIDE DEF U, K, C
<1>7. e \in Store /\ e.users = U
  <2> DEFINE e1 == [store EXCEPT !.users = U]
             e2 == [e1 EXCEPT !.keys = K]
             e3 == [e2 EXCEPT !.clients = C]
             e4 == [e3 EXCEPT !.url = req[p].url]
  <2>1. e1 \in Store /\ e1.users = U
    BY <1>2, <1>6, EditUsers
  <2>2. e2 \in Store /\ e2.users = U
    <3> HIDE DEF e1
    <3> QED BY <1>4, <2>1, EditKeys
  <2>3. e3 \in Store /\ e3.users = U
    <3> HIDE DEF e2
    <3> QED BY <1>5, <2>2, EditClients
  <2>4. e4 \in Store /\ e4.users = U
    <3> HIDE DEF e3
    <3> QED BY <1>2, <2>3, EditUrl
  <2> QED BY <2>4
<1> HIDE DEF e
<1>8. ASSUME a PROVE Owns(p, e) /\ Passwords(p, e)
  <2>1. ~Claimed(store)
    BY <1>8 DEF Claimable
  <2>2. u \in Superusers(e)
    BY <1>6, <1>7 DEF Superusers
  <2>3. Owns(p, e)
    BY <1>1, <2>1, <2>2 DEF Owns, Claimed, AdminOnly
  <2>4. Passwords(p, e)
    BY <1>1, <1>6, <1>7 DEF Passwords
  <2> QED BY <2>3, <2>4
<1> HIDE DEF a
<1> QED BY <1>1, <1>7, <1>8, SubmitIInv DEF Accepted

-----------------------------------------------------------------------------
(* The requests.  Sessions are only accepted by a proxy that has an owner.    *)
LEMMA AsksIInv ==
  ASSUME IInv, NEW p \in Handler, NEW r \in Asked, Asks(p, r) \/ AsksSlowly(p, r)
  PROVE  IInv'
<1>1. PICK to \in Waiting : Arrive(p, r, to, 0)
  BY DEF Asks, AsksSlowly, Waiting
<1>2. Claimed(store)
  BY DEF Asks, AsksSlowly, Identified, IInv, Owned
<1>3. \A q \in Handler : Active(q) => 0 # hash[q]
  BY DEF IInv, Hashes
<1>4. /\ failures' \in 0..(ThrottleMax + 1) /\ admitted' \in Nat /\ admitted' <= failures'
      /\ admitted' <= ThrottleMax + 1 /\ 0 <= requests
  <2>1. failures' = failures /\ admitted' = admitted
    BY DEF Asks, AsksSlowly
  <2>2. Flags
    BY DEF IInv
  <2> QED BY <2>1, <2>2 DEF Flags
<1> QED BY <1>1, <1>2, <1>3, <1>4, ArriveIInv

(* A change of one's own password has read a hash of the store.              *)
LEMMA AccountIInv ==
  ASSUME IInv, NEW p \in Handler, NEW u \in User, NEW F, AccountArrives(p, u, F)
  PROVE  IInv'
<1> DEFINE r == [op |-> "account", by |-> u]
           saw == store.users[u].pw
<1>1. Arrive(p, r, "work", saw) /\ Identified(u) /\ UNCHANGED <<failures, admitted>>
  BY DEF AccountArrives
<1>2. r \in Asked /\ r.op = "account" /\ "work" \in Waiting
  BY DEF Asked, Waiting
<1>3. u \in DOMAIN store.users /\ Claimed(store)
  BY <1>1 DEF Identified, IInv, Owned
<1>4. saw \in Nat
  <2>1. store.users \in Users
    BY StoreIs DEF IInv, Typed
  <2>2. store.users[u] \in Account
    BY <1>3, <2>1, TableIs DEF Users
  <2> QED BY <2>2 DEF Account
<1>5. saw <= requests /\ \A q \in Handler : Active(q) => saw # hash[q]
  BY <1>3 DEF IInv, Hashes
<1>6. /\ failures' \in 0..(ThrottleMax + 1) /\ admitted' \in Nat /\ admitted' <= failures'
      /\ admitted' <= ThrottleMax + 1
  <2>1. Flags
    BY DEF IInv
  <2> QED BY <1>1, <2>1 DEF Flags
<1> HIDE DEF r, saw
<1> QED BY <1>1, <1>2, <1>3, <1>4, <1>5, <1>6, ArriveIInv

(* A setup is submitted while nobody owns the proxy.                         *)
LEMMA SetupArrivesIInv ==
  ASSUME IInv, NEW p \in Handler, NEW u \in User, NEW k \in Key \cup {NoKey},
         NEW c \in Client \cup {NoKey}, NEW l \in Url, SetupArrives(p, u, k, c, l)
  PROVE  IInv'
<1> DEFINE r == [op |-> "setup", by |-> u, key |-> k, client |-> c, url |-> l]
<1>1. Arrive(p, r, "body", 0) /\ failures' = failures /\ admitted' = admitted
  BY DEF SetupArrives
<1>2. r \in Asked /\ r.op = "setup" /\ "body" \in Waiting
  BY DEF Asked, Waiting
<1>3. \A q \in Handler : Active(q) => 0 # hash[q]
  BY DEF IInv, Hashes
<1>4. /\ failures' \in 0..(ThrottleMax + 1) /\ admitted' \in Nat /\ admitted' <= failures'
      /\ admitted' <= ThrottleMax + 1 /\ 0 <= requests
  <2>1. Flags
    BY DEF IInv
  <2> QED BY <1>1, <2>1 DEF Flags
<1> HIDE DEF r
<1> QED BY <1>1, <1>2, <1>3, <1>4, ArriveIInv

(* Every request.                                                           *)
LEMMA RequestIInv == ASSUME IInv, NEW p \in Handler, Request(p) PROVE IInv'
<1>1. ASSUME NEW u \in User, NEW k \in Key \cup {NoKey}, NEW c \in Client \cup {NoKey},
             NEW l \in Url, SetupArrives(p, u, k, c, l)
      PROVE  IInv'
  BY <1>1, SetupArrivesIInv
<1>2. ASSUME NEW u \in User, NEW k \in Key, NEW op \in {"addKey", "removeKey", "setKey"},
             Asks(p, [op |-> op, by |-> u, key |-> k])
      PROVE  IInv'
  <2>1. [op |-> op, by |-> u, key |-> k] \in Asked
    BY DEF Asked
  <2> QED BY <1>2, <2>1, AsksIInv
<1>3. ASSUME NEW u \in User, NEW c \in Client, NEW op \in {"addClient", "removeClient"},
             Asks(p, [op |-> op, by |-> u, client |-> c])
      PROVE  IInv'
  <2>1. [op |-> op, by |-> u, client |-> c] \in Asked
    BY DEF Asked
  <2> QED BY <1>3, <2>1, AsksIInv
<1>4. ASSUME NEW u \in User, NEW op \in {"mode", "limits", "governor_cfg", "routing", "page"},
             Asks(p, [op |-> op, by |-> u])
      PROVE  IInv'
  <2>1. [op |-> op, by |-> u] \in Asked
    BY DEF Asked
  <2> QED BY <1>4, <2>1, AsksIInv
<1>5. ASSUME NEW u \in User, NEW l \in Url, NEW op \in {"upstream", "server"},
             Asks(p, [op |-> op, by |-> u, url |-> l])
      PROVE  IInv'
  <2>1. [op |-> op, by |-> u, url |-> l] \in Asked
    BY DEF Asked
  <2> QED BY <1>5, <2>1, AsksIInv
<1>6. ASSUME NEW u \in User, NEW d \in Days,
             Asks(p, [op |-> "history", by |-> u, days |-> d])
      PROVE  IInv'
  <2>1. [op |-> "history", by |-> u, days |-> d] \in Asked
    BY DEF Asked
  <2> QED BY <1>6, <2>1, AsksIInv
<1>7. ASSUME NEW u \in User, NEW v \in User, NEW r \in {"admin", "user"},
             NEW op \in {"addUser", "setRole"},
             AsksSlowly(p, [op |-> op, by |-> u, user |-> v, role |-> r])
      PROVE  IInv'
  <2>1. [op |-> op, by |-> u, user |-> v, role |-> r] \in Asked
    BY DEF Asked
  <2> QED BY <1>7, <2>1, AsksIInv
<1>8. ASSUME NEW u \in User, NEW v \in User, NEW op \in {"removeUser", "resetPassword"},
             AsksSlowly(p, [op |-> op, by |-> u, user |-> v])
      PROVE  IInv'
  <2>1. [op |-> op, by |-> u, user |-> v] \in Asked
    BY DEF Asked
  <2> QED BY <1>8, <2>1, AsksIInv
<1>9. ASSUME NEW u \in User, AsksSlowly(p, [op |-> "locale", by |-> u])
      PROVE  IInv'
  <2>1. [op |-> "locale", by |-> u] \in Asked
    BY DEF Asked
  <2> QED BY <1>9, <2>1, AsksIInv
<1>10. ASSUME NEW u \in User, NEW F \in SUBSET Field,
              AccountArrives(p, u, F) \/ AccountLocaleArrives(p, u, F)
       PROVE  IInv'
  <2>1. [op |-> "accountLocale", by |-> u] \in Asked
    BY DEF Asked
  <2>2. AccountArrives(p, u, F) \/ Asks(p, [op |-> "accountLocale", by |-> u])
    BY <1>10 DEF AccountLocaleArrives
  <2> QED BY <2>1, <2>2, AccountIInv, AsksIInv
<1> QED BY <1>1, <1>2, <1>3, <1>4, <1>5, <1>6, <1>7, <1>8, <1>9, <1>10 DEF Request

(* The throttle counts, and its window ends.                                *)
LEMMA AttemptsIInv == ASSUME IInv, ValidateKey \/ LoginFails \/ WindowEnds PROVE IInv'
<1> USE DEF process, disk, handler, history
<1>1. Flags
  BY DEF IInv
<1>2. tmp' \in BOOLEAN /\ setupRequired' \in BOOLEAN /\ requests' \in 0..MaxRequests
  BY <1>1 DEF Flags, ValidateKey, LoginFails, WindowEnds
<1>5. unsynced' \in BOOLEAN
  BY <1>1 DEF Flags, ValidateKey, LoginFails, WindowEnds
<1>3. /\ failures' \in 0..(ThrottleMax + 1) /\ admitted' \in Nat
      /\ admitted' <= failures' /\ admitted' <= ThrottleMax + 1
  <2>1. CASE ValidateKey
    BY <1>1, <2>1 DEF Flags, ValidateKey, AdmitPreAuth
  <2>2. CASE LoginFails
    BY <1>1, <2>2 DEF Flags, LoginFails
  <2>3. CASE WindowEnds
    BY <1>1, <2>3 DEF Flags, WindowEnds
  <2> QED BY <2>1, <2>2, <2>3
<1>4. Flags'
  BY <1>2, <1>3, <1>5 DEF Flags
<1> QED BY <1>4, ThrottleIInv DEF ValidateKey, LoginFails, WindowEnds

-----------------------------------------------------------------------------
(* Every step keeps the invariant.                                          *)
LEMMA NextIInv == IInv /\ [Next]_vars => IInv'
<1> SUFFICES ASSUME IInv, [Next]_vars PROVE IInv'
  OBVIOUS
<1>1. ASSUME NEW p \in Handler, Request(p) PROVE IInv'
  BY <1>1, RequestIInv
<1>2. ASSUME NEW p \in Handler, HandlerStep(p) PROVE IInv'
  <2>1. CASE CommitStep(p)
    BY <2>1, CommitOnIInv, WriteFailsIInv, PublishIInv, SetupDoneIInv DEF CommitStep
  <2>2. CASE AddKey(p) \/ RemoveKey(p) \/ SetKey(p) \/ AddClient(p) \/ RemoveClient(p)
    BY <2>2, KeysIInv, ClientsIInv
  <2>3. CASE \/ Mode(p) \/ Upstream(p) \/ History(p) \/ Limits(p) \/ GovernorCfg(p)
             \/ Routing(p) \/ Locale(p) \/ Server(p) \/ AccountLocale(p)
    BY <2>3, ServerIInv
  <2>4. CASE AddUser(p) \/ RemoveUser(p) \/ ResetPassword(p) \/ SetRole(p)
    BY <2>4, AddUserIInv, RemoveUserIInv, ResetPasswordIInv, SetRoleIInv
  <2>5. CASE Work(p) \/ Setup(p) \/ ApplyPasswordChange(p)
    BY <2>5, WorkIInv, SetupIInv, PasswordChangeIInv
  <2>6. CASE SetupAdmitted(p) \/ SetupRejected(p) \/ ApiConfig(p) \/ ApiConfigAnswers(p)
    BY <2>6, SetupBodyIInv, PageIInv
  <2> QED BY <1>2, <2>1, <2>2, <2>3, <2>4, <2>5, <2>6 DEF HandlerStep
<1>3. CASE ValidateKey \/ LoginFails \/ WindowEnds
  BY <1>3, AttemptsIInv
<1>4. CASE Reboot
  BY <1>4, RebootIInv
<1>5. CASE UNCHANGED vars
  <2> USE DEF vars, process, disk, handler, history
  <2>1. Flags
    BY DEF IInv
  <2>2. Flags'
    BY <1>5, <2>1 DEF Flags
  <2> QED BY <1>5, <2>2, ThrottleIInv
<1> QED BY <1>1, <1>2, <1>3, <1>4, <1>5 DEF Next

(* The invariant holds of every behaviour.                                  *)
LEMMA InvariantHolds == Spec => []IInv
<1> QED BY InitIInv, NextIInv, PTL DEF Spec

(* What is on disk passes the rules of validate, at every step of a commit.   *)
LEMMA DiskIsValid == IInv => Bootable
BY FileKept DEF IInv, Durable, Keeping, Bootable

(* Disk, store and runtime stay one configuration that can be booted from:    *)
(* whatever is committed, refused, fails or is killed, and whenever, the file  *)
(* and what a power loss leaves of it pass validate, the runtime's copies are  *)
(* the store's whenever the store mutex is free, and the throttle bounds the   *)
(* hashing that an unclaimed proxy does (config.rs, settings.rs, auth.rs).     *)
THEOREM StoreSoundTheorem == Spec => []StoreSound
<1>1. ASSUME NEW s \in Store PROVE StoreOK(s)
  <2>1. s.users \in Users /\ s.keys \in Keys /\ s.clients \in Clients /\ s.url \in Url
    BY StoreIs
  <2>2. DOMAIN s.users \subseteq User /\ \A u \in DOMAIN s.users : s.users[u] \in Account
    BY <2>1, TableIs DEF Users
  <2>3. DOMAIN s.keys \subseteq Key
    BY <2>1, TableIs DEF Keys
  <2>4. DOMAIN s.clients \subseteq Client
    BY <2>1, TableIs DEF Clients
  <2> QED BY <2>1, <2>2, <2>3, <2>4 DEF StoreOK, Account
<1>2. IInv => TypeOK
  <2> SUFFICES ASSUME IInv PROVE TypeOK
    OBVIOUS
  <2>1. StoreOK(store) /\ StoreOK(file) /\ StoreOK(synced)
    BY <1>1 DEF IInv, Typed
  <2>2. lock \in Handler \cup {None} /\ \A p \in Handler : lock = p <=> pc[p] \in Committing
    BY DEF IInv, Typed
  <2>3. lock # None => StoreOK(cand)
    BY <1>1, <2>2 DEF IInv, Candidate
  <2>4. {tmp, unsynced, setupRequired} \subseteq BOOLEAN
    BY DEF IInv, Flags
  <2>5. failures \in 0..(ThrottleMax + 1) /\ requests \in 0..MaxRequests
    BY DEF IInv, Flags
  <2> QED BY <2>1, <2>2, <2>3, <2>4, <2>5 DEF TypeOK, Committing
<1>3. IInv => RuntimeAgrees /\ HashingBounded
  BY DEF IInv, Phases, Flags, HashingBounded
<1>4. IInv => StoreSound
  BY <1>2, <1>3, DiskIsValid DEF StoreSound
<1> QED BY <1>4, InvariantHolds, PTL

-----------------------------------------------------------------------------
(* The file, what is durable of it, and the store change in four steps only.  *)
LEMMA FileAndStore ==
  ASSUME NEW p \in Handler, Request(p) \/ HandlerStep(p)
  PROVE  \/ Rename(p) \/ SyncDirectory(p) \/ SyncFails(p) \/ Publish(p)
         \/ UNCHANGED <<file, synced, unsynced, store>>
<1> USE DEF disk
<1>1. ASSUME NEW r, NEW to, NEW saw, Arrive(p, r, to, saw)
      PROVE  UNCHANGED <<file, synced, unsynced, store>>
  BY <1>1 DEF Arrive
<1>2. ASSUME NEW a, NEW e, Submit(p, a, e) PROVE UNCHANGED <<file, synced, unsynced, store>>
  BY <1>2 DEF Submit
<1>3. CASE Request(p)
  BY <1>1, <1>3 DEF Request, SetupArrives, Asks, AsksSlowly, AccountArrives,
                    AccountLocaleArrives
<1>4. CASE CommitStep(p)
  BY <1>4 DEF CommitStep, Write, WriteFails, SwapRuntime, Rebuild, Retain, SetupDone
<1>5. CASE HandlerStep(p) /\ ~CommitStep(p)
  BY <1>2, <1>5 DEF HandlerStep, SetupAdmitted, SetupRejected, ApiConfig,
                    ApiConfigAnswers, Work, Setup, AddKey, RemoveKey, SetKey, AddClient,
                    RemoveClient, Mode, Upstream, History, Limits, GovernorCfg, Routing,
                    Locale, Server, Section, AddUser, RemoveUser, ResetPassword, SetRole,
                    AccountLocale, ApplyPasswordChange
<1> QED BY <1>3, <1>4, <1>5

(* The config store is a crash-safe register: a commit renames one accepted    *)
(* store over the file and then serves it, one commit at a time; a process      *)
(* killed anywhere in between serves the old one or the new one, and so does    *)
(* one whose machine lost power, unless the sync of the directory, whose         *)
(* failure save ignores, had failed before (config.rs save, settings.rs commit,  *)
(* lib.rs start).                                                           *)
THEOREM RegisterTheorem == Spec => RegisterSpec
<1>1. Init => Register!Init
  <2> SUFFICES ASSUME Init PROVE Register!Init
    OBVIOUS
  <2>1. IInv
    BY InitIInv
  <2>2. lock = None /\ unsynced = FALSE
    BY DEF Init
  <2> QED BY <2>1, <2>2 DEF IInv, Phases, RuntimeAgrees, Register!Init
<1>2. IInv /\ IInv' /\ [Next]_vars => [Register!Next]_<<file, synced, unsynced, store>>
  <2> SUFFICES ASSUME IInv, IInv', [Next]_vars
               PROVE  [Register!Next]_<<file, synced, unsynced, store>>
    OBVIOUS
  <2>1. ASSUME NEW p \in Handler, Rename(p) PROVE Register!Install
    <3>1. /\ pc[p] = "rename" /\ file' = cand /\ store' = store
          /\ UNCHANGED <<synced, unsynced>>
      BY <2>1 DEF Rename, Goto
    <3>2. Behind(p) /\ Valid(cand)
      BY <3>1, Holder DEF Committing
    <3>3. file = store /\ (unsynced \/ synced = file)
      BY <3>1, <3>2 DEF Behind
    <3>4. Valid(file')
      BY <3>1, <3>2
    <3> QED BY <3>1, <3>3, <3>4 DEF Register!Install
  <2>2. ASSUME NEW p \in Handler, Publish(p) PROVE Register!Publish
    <3>1. pc[p] = "publish" /\ store' = cand /\ UNCHANGED <<file, synced, unsynced>>
      BY <2>2 DEF Publish, Goto, disk
    <3>2. Behind(p)
      BY <3>1, Holder DEF Committing
    <3>3. file = cand /\ (unsynced \/ synced = file)
      BY <3>1, <3>2 DEF Behind
    <3> QED BY <3>1, <3>3 DEF Register!Publish
  <2>3. ASSUME NEW p \in Handler, SyncDirectory(p) \/ SyncFails(p)
        PROVE  Register!Sync \/ Register!SyncFails
    BY <2>3 DEF SyncDirectory, SyncFails, Register!Sync, Register!SyncFails
  <2>4. CASE Reboot
    <3>1. store' = file' /\ (Killed \/ PowerLost)
      BY <2>4 DEF Reboot
    <3>2. CASE Killed
      BY <3>1, <3>2 DEF Killed, Register!Next, Register!Kill
    <3>3. CASE PowerLost
      BY <3>1, <3>3 DEF PowerLost, Register!Next, Register!PowerLoss
    <3> QED BY <3>1, <3>2, <3>3
  <2>5. CASE ValidateKey \/ LoginFails \/ WindowEnds \/ UNCHANGED vars
    BY <2>5 DEF ValidateKey, LoginFails, WindowEnds, vars, disk
  <2> QED BY <2>1, <2>2, <2>3, <2>4, <2>5, FileAndStore DEF Next, Register!Next
<1> QED BY <1>1, <1>2, InvariantHolds, PTL DEF RegisterSpec, Register!Spec, Spec

-----------------------------------------------------------------------------
(* A step is one handler's.                                                 *)
LEMMA OneMoves ==
  ASSUME NEW p \in Handler, NEW q \in Handler, q # p, Request(p) \/ HandlerStep(p),
         pc \in [Handler -> PCs]
  PROVE  pc'[q] = pc[q]
<1>1. ASSUME NEW to, pc' = [pc EXCEPT ![p] = to] PROVE pc'[q] = pc[q]
  BY <1>1
<1>2. ASSUME NEW r, NEW to, NEW saw, Arrive(p, r, to, saw) PROVE pc'[q] = pc[q]
  BY <1>1, <1>2 DEF Arrive
<1>3. ASSUME NEW a, NEW e, Submit(p, a, e) PROVE pc'[q] = pc[q]
  BY <1>1, <1>3 DEF Submit
<1>4. ASSUME NEW from, NEW to, Goto(p, from, to) PROVE pc'[q] = pc[q]
  BY <1>1, <1>4 DEF Goto
<1>5. CASE Request(p)
  BY <1>2, <1>5 DEF Request, SetupArrives, Asks, AsksSlowly, AccountArrives,
                    AccountLocaleArrives
<1>6. CASE CommitStep(p)
  BY <1>1, <1>4, <1>6 DEF CommitStep, Write, WriteFails, Rename, SyncDirectory, SyncFails,
                          SwapRuntime, Rebuild, Retain, Publish, SetupDone
<1>7. CASE HandlerStep(p) /\ ~CommitStep(p)
  BY <1>1, <1>3, <1>4, <1>7 DEF HandlerStep, SetupAdmitted, SetupRejected, ApiConfig,
                    ApiConfigAnswers, Work, Setup, AddKey, RemoveKey, SetKey, AddClient,
                    RemoveClient, Mode, Upstream, History, Limits, GovernorCfg, Routing,
                    Locale, Server, Section, AddUser, RemoveUser, ResetPassword, SetRole,
                    AccountLocale, ApplyPasswordChange
<1> QED BY <1>5, <1>6, <1>7

(* A handler that waits with a change of its own password applies that.       *)
LEMMA AppliesPassword ==
  ASSUME NEW p \in Handler, pc[p] = "lock", req[p].op = "account",
         Request(p) \/ HandlerStep(p)
  PROVE  ApplyPasswordChange(p)
<1>1. ~Request(p)
  BY DEF Request, SetupArrives, Asks, AsksSlowly, AccountArrives, AccountLocaleArrives,
         Arrive
<1>2. ~CommitStep(p)
  BY DEF CommitStep, Write, WriteFails, Rename, SyncDirectory, SyncFails, SwapRuntime,
         Rebuild, Retain, Publish, SetupDone, Goto
<1>3. /\ ~Work(p) /\ ~Setup(p) /\ ~SetupAdmitted(p) /\ ~SetupRejected(p)
      /\ ~ApiConfig(p) /\ ~ApiConfigAnswers(p)
  BY DEF Work, Setup, SetupAdmitted, SetupRejected, ApiConfig, ApiConfigAnswers, Is, Goto
<1> QED BY <1>1, <1>2, <1>3 DEF HandlerStep, Is, AddKey, RemoveKey, SetKey, AddClient,
           RemoveClient, Mode, Upstream, History, Limits, GovernorCfg, Routing, Locale,
           Server, Section, AddUser, RemoveUser, ResetPassword, SetRole, AccountLocale

(* A store that is replaced is replaced by the candidate, or by what a power     *)
(* loss brings back.                                                        *)
LEMMA StoreStep ==
  ASSUME IInv, [Next]_vars, store' # store
  PROVE  \/ \E p \in Handler : lock = p /\ store' = cand
         \/ unsynced /\ store' = synced
<1>1. ASSUME NEW p \in Handler, Publish(p) PROVE lock = p /\ store' = cand
  <2>1. pc[p] = "publish" /\ store' = cand
    BY <1>1 DEF Publish, Goto
  <2> QED BY <2>1 DEF IInv, Typed, Committing
<1>2. ASSUME NEW p \in Handler, Request(p) \/ HandlerStep(p)
      PROVE  lock = p /\ store' = cand
  <2>1. ~Rename(p) /\ ~SyncDirectory(p) /\ ~SyncFails(p)
    BY DEF Rename, SyncDirectory, SyncFails
  <2> QED BY <1>1, <1>2, <2>1, FileAndStore
<1>3. CASE Reboot
  <2>1. store' \in {file, synced}
    BY <1>3 DEF Reboot, Killed, PowerLost
  <2> QED BY <2>1, FileKept
<1>4. CASE ValidateKey \/ LoginFails \/ WindowEnds \/ UNCHANGED vars
  BY <1>4 DEF ValidateKey, LoginFails, WindowEnds, vars
<1> QED BY <1>2, <1>3, <1>4 DEF Next

(* The owner of a claimed store stays, through commits and restarts, unless a   *)
(* power loss takes back a file that was never synced.                      *)
LEMMA OwnerStep == ASSUME IInv, IInv', [Next]_vars PROVE OwnerKept
<1>1. ASSUME Claimed(store), store' # store
      PROVE  Superusers(store') = Superusers(store) \/ (unsynced /\ store' = synced)
  <2>1. CASE \E p \in Handler : lock = p /\ store' = cand
    <3>1. Superusers(cand) = Superusers(store)
      BY <1>1, <2>1 DEF IInv, Candidate, Owns
    <3> QED BY <2>1, <3>1
  <2> QED BY <1>1, <2>1, StoreStep
<1>2. store' = store => Superusers(store') = Superusers(store)
  OBVIOUS
<1>3. ~setupRequired' => Claimed(store')
  BY DEF IInv, Owned, Claimed, Superusers
<1>4. setupRequired' /\ Claimed(store') => \E p \in Handler : pc'[p] = "claimed"
  BY DEF IInv, Owned, Claimed, Superusers
<1> QED BY <1>1, <1>2, <1>3, <1>4 DEF OwnerKept

(* A change of password that a reset overtook is not applied.                *)
LEMMA ResetStep == ASSUME IInv, [Next]_vars PROVE ResetWins
<1> SUFFICES ASSUME NEW p \in Handler, pc[p] = "lock", pc'[p] = "save",
                    req[p].op = "account", overtaken[p]
             PROVE  FALSE
  BY DEF ResetWins
<1>1. pc \in [Handler -> PCs]
  BY DEF IInv, Typed
<1>2. ~Unrotated(p)
  BY DEF IInv, Hashes, Waiting
<1>3. ~ApplyPasswordChange(p)
  BY <1>1, <1>2 DEF ApplyPasswordChange, Submit, Accepted
<1>4. ASSUME NEW q \in Handler, Request(q) \/ HandlerStep(q) PROVE FALSE
  <2>1. CASE q = p
    BY <1>3, <1>4, <2>1, AppliesPassword
  <2>2. CASE q # p
    BY <1>1, <1>4, <2>2, OneMoves
  <2> QED BY <2>1, <2>2
<1>5. CASE ValidateKey \/ LoginFails \/ WindowEnds \/ UNCHANGED vars
  BY <1>5 DEF ValidateKey, LoginFails, WindowEnds, vars
<1>6. CASE Reboot
  BY <1>6 DEF Reboot
<1> QED BY <1>4, <1>5, <1>6 DEF Next

(* Who may do what is decided by the store as it is when the change is         *)
(* applied: the proxy keeps its owner for ever (or falls back on what a failed   *)
(* sync of the directory left on disk), an acknowledged password reset         *)
(* wins over a change that was authorized before it, and an admin who is one no *)
(* longer changes nothing (settings.rs setup, account, users and the section     *)
(* handlers), for any number of handlers, requests and kills.                 *)
THEOREM AuthorityTheorem == Spec => AuthorityHeld
<1>1. IInv => AuthorityLive
  <2> SUFFICES ASSUME IInv, NEW p \in Handler, pc[p] = "publish", req[p].op \in AdminOnly
               PROVE  Administrates(req[p].by)
    BY DEF AuthorityLive
  <2>1. Owns(p, cand)
    BY Holder DEF Committing
  <2> QED BY <2>1 DEF Owns
<1>2. IInv /\ IInv' /\ [Next]_vars => [OwnerKept /\ ResetWins /\ AuthorityLive]_vars
  BY <1>1, OwnerStep, ResetStep
<1> QED BY <1>2, InvariantHolds, PTL DEF AuthorityHeld, Spec

-----------------------------------------------------------------------------
(* The Settings page.                                                       *)

(* The enabled keys of the owner, of which the page padlocks the last one.    *)
Floor(s) == {k \in DOMAIN s.keys : s.keys[k].enabled /\ s.keys[k].owner \in Superusers(s)}

(* The padlock is the pool floor: taking a key away leaves the owner an         *)
(* enabled one exactly if it is not the only one.                            *)
LEMMA Padlock ==
  ASSUME NEW s \in Store, Valid(s), NEW k \in DOMAIN s.keys,
         NEW e, e = [s EXCEPT !.keys = Without(s.keys, {k})]
  PROVE  k \notin Guarded(s) <=> Valid(e)
<1> DEFINE K == Without(s.keys, {k})
<1>1. s.keys \in Keys /\ s.users \in Users
  BY StoreIs
<1>2. /\ DOMAIN K = DOMAIN s.keys \ {k}
      /\ \A y \in DOMAIN s.keys \ {k} : K[y] = s.keys[y]
  BY DEF Without
<1>3. e.keys = K /\ e.users = s.users /\ e.clients = s.clients /\ e.days = s.days
  BY DEF Store
<1> HIDE DEF K
<1>4. Superusers(e) = Superusers(s) /\ (Claimed(e) <=> Claimed(s))
  BY <1>3 DEF Superusers, Claimed
<1>5. IsFiniteSet(Floor(s))
  <2>1. IsFiniteSet(DOMAIN s.keys)
    BY <1>1, TableIs DEF Keys
  <2>2. Floor(s) \in SUBSET (DOMAIN s.keys)
    BY DEF Floor
  <2> QED BY <2>1, <2>2, FS_Subset
<1>6. \A su, sv \in Superusers(s) : su = sv
  <2>1. IsFiniteSet(Superusers(s))
    <3>1. IsFiniteSet(DOMAIN s.users)
      BY <1>1, TableIs DEF Users
    <3>2. Superusers(s) \in SUBSET (DOMAIN s.users)
      BY DEF Superusers
    <3> QED BY <3>1, <3>2, FS_Subset
  <2>2. Cardinality(Superusers(s)) \in Nat /\ Cardinality(Superusers(s)) <= 1
    BY <2>1, FS_CardinalityType DEF Valid
  <2>3. CASE Cardinality(Superusers(s)) = 0
    BY <2>1, <2>3, FS_EmptySet
  <2>4. CASE Cardinality(Superusers(s)) = 1
    BY <2>1, <2>4, FS_Singleton
  <2> QED BY <2>2, <2>3, <2>4
<1>7. k \in Guarded(s) <=> Floor(s) = {k}
  <2>1. Guarded(s) = IF Cardinality(Floor(s)) = 1 THEN Floor(s) ELSE {}
    BY DEF Guarded, Floor
  <2>2. Cardinality(Floor(s)) = 1 <=> \E x : Floor(s) = {x}
    BY <1>5, FS_Singleton
  <2> QED BY <2>1, <2>2
<1>8. Valid(e) <=> PoolFloor(e)
  <2>1. /\ Cardinality(Superusers(e)) <= 1 /\ (e.days = 0 \/ e.days >= Window)
        /\ Claimed(e) => \A c \in DOMAIN e.clients : e.clients[c].owner \in DOMAIN e.users
    BY <1>3, <1>4 DEF Valid
  <2>2. Claimed(e) => \A y \in DOMAIN e.keys : e.keys[y].owner \in DOMAIN e.users
    BY <1>2, <1>3, <1>4 DEF Valid
  <2> QED BY <2>1, <2>2 DEF Valid
<1>9. PoolFloor(e) <=> \A su \in Superusers(s) : \E y \in DOMAIN s.keys \ {k} :
                         s.keys[y].enabled /\ s.keys[y].owner = su
  BY <1>2, <1>3, <1>4 DEF PoolFloor
<1>10. ASSUME Floor(s) = {k} PROVE ~PoolFloor(e)
  <2>1. s.keys[k].owner \in Superusers(s)
    BY <1>10 DEF Floor
  <2> QED BY <1>9, <1>10, <2>1 DEF Floor
<1>11. ASSUME Floor(s) # {k} PROVE PoolFloor(e)
  <2> SUFFICES ASSUME NEW su \in Superusers(s)
               PROVE  \E y \in DOMAIN s.keys \ {k} : s.keys[y].enabled /\ s.keys[y].owner = su
    BY <1>9
  <2>1. PICK y \in DOMAIN s.keys : s.keys[y].enabled /\ s.keys[y].owner = su
    BY DEF Valid, PoolFloor
  <2>2. y \in Floor(s)
    BY <2>1 DEF Floor
  <2>3. PICK z \in Floor(s) : z # k
    BY <1>11, <2>2
  <2>4. z \in DOMAIN s.keys \ {k} /\ s.keys[z].enabled /\ s.keys[z].owner = su
    BY <1>6, <2>3 DEF Floor
  <2> QED BY <2>4
<1> QED BY <1>7, <1>8, <1>10, <1>11

(* What the clone shows to a user, when the store is not being changed.        *)
LEMMA PageTells ==
  ASSUME IInv, lock = None, NEW u \in DOMAIN store.users
  PROVE  LET page == ConfigResponse(store, u, router)
         IN /\ \A k \in Key :
                 (k \in DOMAIN page.keys /\ ~page.keys[k].guarded)
                   <=> Accepted(MayTouch(u, store.keys, k), Removed(k))
            /\ Administrates(u) =>
                 \A k \in DOMAIN page.keys : page.keys[k].owner \in page.users
            /\ \A c \in Client : c \in page.clients <=> MayTouch(u, store.clients, c)
            /\ page.server <=> Accepted(Administrates(u), Replaced)
<1> DEFINE page == ConfigResponse(store, u, router)
           S == Shown(store, u, store.keys)
           row(k) == [owner |-> store.keys[k].owner, guarded |-> k \in Guarded(store),
                      enabled |-> store.keys[k].enabled,
                      lane |-> k \in DOMAIN router.keys /\ router.keys[k].enabled]
<1>1. /\ store \in Store /\ Valid(store) /\ Claimed(store)
      /\ Administrates(u) <=> IsAdmin(store.users[u].role)
  BY DEF IInv, Durable, Keeping, Administrates
<1>2. /\ page.keys = [k \in S |-> row(k)]
      /\ page.clients = Shown(store, u, store.clients)
      /\ page.users = IF IsAdmin(store.users[u].role) THEN DOMAIN store.users ELSE {}
  BY DEF ConfigResponse
<1>3. page.server <=> Administrates(u)
  BY <1>1 DEF ConfigResponse
<1>4. DOMAIN page.keys = S /\ \A k \in S : page.keys[k] = row(k)
  <2> HIDE DEF page, S, row
  <2> QED BY <1>2
<1>5. ASSUME NEW k \in S
      PROVE  /\ page.keys[k].owner = store.keys[k].owner
             /\ page.keys[k].guarded <=> k \in Guarded(store)
  <2>2. page.keys[k] = row(k)
    BY <1>4
  <2>3. row(k).owner = store.keys[k].owner
    OBVIOUS
  <2>4. row(k).guarded <=> k \in Guarded(store)
    OBVIOUS
  <2> HIDE DEF page, row
  <2> QED BY <2>2, <2>3, <2>4
<1> HIDE DEF page, row
<1>6. ASSUME NEW x, NEW f
      PROVE  x \in Shown(store, u, f) <=> MayTouch(u, f, x)
  BY <1>1 DEF Shown, MayTouch
<1>7. ASSUME NEW k \in Key
      PROVE  (k \in DOMAIN page.keys /\ ~page.keys[k].guarded)
               <=> Accepted(MayTouch(u, store.keys, k), Removed(k))
  <2>1. CASE k \in S
    <3>1. k \in DOMAIN store.keys
      BY <2>1 DEF Shown
    <3>2. k \notin Guarded(store) <=> Valid(Removed(k))
      BY <1>1, <3>1, Padlock DEF Removed
    <3> QED BY <1>4, <1>5, <1>6, <2>1, <3>2 DEF Accepted
  <2>2. CASE k \notin S
    BY <1>4, <1>6, <2>2 DEF Accepted
  <2> QED BY <2>1, <2>2
<1>8. ASSUME Administrates(u), NEW k \in DOMAIN page.keys
      PROVE  page.keys[k].owner \in page.users
  <2>1. k \in S /\ k \in DOMAIN store.keys
    BY <1>4, <1>8 DEF Shown
  <2>2. store.keys[k].owner \in DOMAIN store.users
    BY <1>1, <2>1 DEF Valid
  <2> QED BY <1>1, <1>2, <1>5, <1>8, <2>1, <2>2
<1>9. Valid(Replaced)
  <2>1. /\ Replaced.users = store.users /\ Replaced.keys = store.keys
        /\ Replaced.clients = store.clients /\ Replaced.days = store.days
    BY <1>1 DEF Replaced, Store
  <2> QED BY <1>1, <2>1 DEF Valid, Superusers, Claimed, PoolFloor
<1>10. \A c \in Client : c \in page.clients <=> MayTouch(u, store.clients, c)
  BY <1>2, <1>6
<1>11. page.server <=> Accepted(Administrates(u), Replaced)
  BY <1>3, <1>9 DEF Accepted
<1> QED BY <1>7, <1>8, <1>10, <1>11 DEF page

(* As long as store and runtime configuration are the same, the router is theirs. *)
LEMMA RouterFollows == ASSUME IInv, cfg = store PROVE router = Routed(store)
<1>1. CASE lock = None
  BY <1>1 DEF IInv, Phases, RuntimeAgrees
<1>2. CASE lock # None
  <2>1. lock \in Handler /\ Behind(lock)
    BY <1>2 DEF IInv, Typed, Phases
  <2> QED BY <2>1 DEF Behind
<1> QED BY <1>1, <1>2

(* The lanes that a page shows when it answers before the next commit.        *)
LEMMA LanesTell ==
  ASSUME IInv, cfg = store, NEW u
  PROVE  LET page == ConfigResponse(store, u, router)
         IN  \A k \in DOMAIN page.keys :
               page.keys[k].lane <=> page.keys[k].enabled /\ store.nvidia
<1> DEFINE page == ConfigResponse(store, u, router)
           S == Shown(store, u, store.keys)
           row(k) == [owner |-> store.keys[k].owner, guarded |-> k \in Guarded(store),
                      enabled |-> store.keys[k].enabled,
                      lane |-> k \in DOMAIN router.keys /\ router.keys[k].enabled]
<1>1. store \in Store /\ router = Routed(store)
  BY RouterFollows DEF IInv, Typed
<1>2. page.keys = [k \in S |-> row(k)]
  BY DEF ConfigResponse
<1>3. DOMAIN page.keys = S /\ \A k \in S : page.keys[k] = row(k)
  <2> HIDE DEF page, S, row
  <2> QED BY <1>2
<1>4. ASSUME NEW k \in S PROVE row(k).lane <=> row(k).enabled /\ store.nvidia
  <2>1. k \in DOMAIN store.keys
    BY DEF Shown
  <2>2. CASE store.nvidia
    BY <1>1, <2>1, <2>2 DEF Routed
  <2>3. CASE ~store.nvidia
    <3>1. router.keys = Empty
      BY <1>1, <2>3 DEF Routed, Store
    <3>2. k \notin DOMAIN router.keys
      BY <3>1 DEF Empty
    <3> QED BY <2>3, <3>2
  <2> QED BY <2>2, <2>3
<1> HIDE DEF page, S, row
<1>5. \A k \in DOMAIN page.keys : page.keys[k].lane <=> page.keys[k].enabled /\ store.nvidia
  BY <1>3, <1>4
<1> QED BY <1>5 DEF page

(* The Settings page tells the truth: in the clone it is made from, a key is    *)
(* offered for removal to exactly those whose removal the server would accept,  *)
(* owners are users and the server section is shown to those who may save it;   *)
(* and unless a commit came between the clone and the answer, a key has a lane   *)
(* exactly if it is enabled and the provider serves (settings.rs api_config      *)
(* against its own handlers).                                                *)
THEOREM PageTheorem == Spec => []PageIsTrue
<1>1. IInv => PageIsTrue
  BY PageTells, LanesTell DEF PageIsTrue
<1> QED BY <1>1, InvariantHolds, PTL

=============================================================================
