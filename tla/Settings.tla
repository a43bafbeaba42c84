------------------------------ MODULE Settings ------------------------------
(***************************************************************************)
(* First-run setup, users, keys and settings: the handlers of settings.rs,   *)
(* the store rules and the atomic save of config.rs, the login throttle of   *)
(* auth.rs, and the process start of lib.rs.                                 *)
(*                                                                         *)
(* Every handler ends in one commit under the store mutex; what it reads     *)
(* before (a role, a password hash) is read in an earlier critical section,  *)
(* and passwords are hashed and verified in between.  A password hash is a   *)
(* number: hashing draws a new salt, so no two hashes are equal.  The         *)
(* process may be killed at any point and starts again from the file.  A      *)
(* failed sync of the directory is ignored by save: the rename may not have    *)
(* reached the disk when the commit is acknowledged.                        *)
(***************************************************************************)
EXTENDS Naturals, FiniteSets

CONSTANTS
  Handler,        \* concurrent requests
  User, Key, Client, Url,
  NoKey, None,
  Days, Window,   \* retentions an admin may ask for; default_window_days
  MaxRequests,    \* bound on the requests of a behaviour
  MaxFaults,      \* bound on failed writes and kills
  ThrottleMax     \* THROTTLE_MAX_FAILURES

ASSUME ConstantsAssumption ==
  /\ NoKey \notin Key /\ None \notin Handler
  /\ Days \subseteq Nat /\ Window \in Nat \ {0}
  /\ MaxRequests \in Nat /\ MaxFaults \in Nat /\ ThrottleMax \in Nat

VARIABLES
  store,          \* AppState::store, the guarded truth
  file, synced,   \* config.json as it is now, and as it is after a power loss
  unsynced,       \* a sync of the directory failed or never came: synced is behind
  tmp,            \* config.json.tmp exists
  cfg, router, retention,   \* the runtime's copies
  revision,
  setupRequired, failures,
  lock,           \* the handler that holds the store mutex
  pc, req,        \* each handler: where it is, its request
  hash, seen,     \* the password hash it installs, and the one it verified
  copy,           \* the store a handler of the Settings page cloned
  cand,           \* the candidate being committed
  requests, faults,
  overtaken,      \* history: the caller's password was reset since it was read
  admitted        \* history: setup requests admitted in this throttle window

process == <<cfg, router, retention, revision, setupRequired>>
history == <<overtaken, admitted>>
disk == <<file, synced, unsynced>>
handler == <<req, hash, seen, copy>>
vars == <<store, disk, tmp, process, failures, lock, pc, handler, cand, requests, faults,
          history>>

Role == {"superuser", "admin", "user"}
IsAdmin(r) == r \in {"superuser", "admin"}

With(f, x, v) == [y \in DOMAIN f \cup {x} |-> IF y = x THEN v ELSE f[y]]
Without(f, D) == [y \in DOMAIN f \ D |-> f[y]]
OwnedBy(f, u) == {x \in DOMAIN f : f[x].owner = u}

-----------------------------------------------------------------------------
\* The store.

Superusers(s) == {u \in DOMAIN s.users : s.users[u].role = "superuser"}
Claimed(s) == Superusers(s) # {}

\* validate: one superuser; a claimed store has no orphan keys, and its superuser
\* owns an enabled key (the pool floor); retention covers the default window.
PoolFloor(s) ==
  \A su \in Superusers(s) :
    \E k \in DOMAIN s.keys : s.keys[k].enabled /\ s.keys[k].owner = su

Valid(s) ==
  /\ Cardinality(Superusers(s)) <= 1
  /\ s.days = 0 \/ s.days >= Window
  /\ Claimed(s) => /\ \A k \in DOMAIN s.keys : s.keys[k].owner \in DOMAIN s.users
                   /\ \A c \in DOMAIN s.clients : s.clients[c].owner \in DOMAIN s.users
  /\ PoolFloor(s)

Empty == [x \in {} |-> 0]

\* StoredConfig::default: nobody, no keys.
Fresh(url) == [users |-> Empty, keys |-> Empty, clients |-> Empty, open |-> FALSE,
               url |-> url, days |-> Window, knobs |-> 0, nvidia |-> TRUE]

\* What the router and the serving pool are made of: the store, without a lane if
\* the nvidia provider is disabled (no runtime, an empty pool).
RoutedOrphaned(s) == s                                             \* mutant
Routed(s) == IF s.nvidia THEN s ELSE [s EXCEPT !.keys = Empty]

Started(s) ==
  /\ store = s /\ cfg = s /\ router = Routed(s) /\ retention = s.days
  /\ revision = 1
  /\ setupRequired = ~Claimed(s)

\* An installation that has been set up, one whose users were removed by hand
\* from the file (the documented recovery), perhaps with the nvidia provider
\* disabled, or a fresh one.
Installed(u, v, k, url) ==
  [Fresh(url) EXCEPT
     !.users = [x \in {u, v} |-> [role |-> IF x = u THEN "superuser" ELSE "admin",
                                  pw |-> 0]],
     !.keys = [x \in {k} |-> [owner |-> u, enabled |-> TRUE]]]

Recovering(u, k, url) ==
  [Fresh(url) EXCEPT !.keys = [x \in {k} |-> [owner |-> u, enabled |-> TRUE]]]

Disabled(s) == [s EXCEPT !.nvidia = FALSE]

Init ==
  /\ \E u \in User, v \in User, k \in Key, url \in Url :
       \E s \in {Fresh(url), Installed(u, v, k, url), Recovering(u, k, url),
                 Disabled(Recovering(u, k, url))} :
         u # v /\ Started(s) /\ file = s /\ synced = s
  /\ unsynced = FALSE /\ copy = [p \in Handler |-> None]
  /\ tmp = FALSE /\ failures = 0 /\ lock = None /\ cand = None
  /\ pc = [p \in Handler |-> "idle"] /\ req = [p \in Handler |-> None]
  /\ hash = [p \in Handler |-> 0] /\ seen = [p \in Handler |-> 0]
  /\ requests = 0 /\ faults = 0
  /\ overtaken = [p \in Handler |-> FALSE] /\ admitted = 0

-----------------------------------------------------------------------------
\* commit, by the handler that holds the lock: the candidate is validated, saved,
\* swapped into the runtime and published, step by step.

Goto(p, from, to) == pc[p] = from /\ pc' = [pc EXCEPT ![p] = to]

\* The end of a handler.
Ended(p) ==
  /\ req' = [req EXCEPT ![p] = None]
  /\ hash' = [hash EXCEPT ![p] = 0] /\ seen' = [seen EXCEPT ![p] = 0]
  /\ copy' = [copy EXCEPT ![p] = None]
  /\ overtaken' = [overtaken EXCEPT ![p] = FALSE]

AcceptedUnchecked(allowed, edited) == allowed                      \* mutant
Accepted(allowed, edited) == allowed /\ Valid(edited)

\* Take the lock, check, edit a clone of the store, and commit it if it is valid.
Submit(p, allowed, edited) ==
  /\ pc[p] = "lock" /\ lock = None
  /\ IF Accepted(allowed, edited)
     THEN /\ pc' = [pc EXCEPT ![p] = "save"] /\ lock' = p /\ cand' = edited
          /\ UNCHANGED <<handler, overtaken>>
     ELSE /\ pc' = [pc EXCEPT ![p] = "idle"] /\ Ended(p)
          /\ UNCHANGED <<lock, cand>>
  /\ UNCHANGED <<store, disk, tmp, process, failures, requests, faults,
                 admitted>>

\* save: the temporary file, then the rename over config.json, then the directory.
Write(p) ==
  /\ Goto(p, "save", "rename") /\ tmp' = TRUE
  /\ UNCHANGED <<store, disk, process, failures, lock, handler,
                 cand, requests, faults, history>>

WriteFailsHolding(p) ==                                            \* mutant
  /\ pc[p] \in {"save", "rename"} /\ faults < MaxFaults
  /\ faults' = faults + 1
  /\ pc' = [pc EXCEPT ![p] = "idle"] /\ Ended(p)
  /\ UNCHANGED <<store, disk, tmp, process, failures, lock, cand, requests,
                 admitted>>

\* Opening, writing or renaming failed: nothing is applied.
WriteFails(p) ==
  /\ pc[p] \in {"save", "rename"} /\ faults < MaxFaults
  /\ faults' = faults + 1
  /\ tmp' \in (IF pc[p] = "save" THEN BOOLEAN ELSE {TRUE})
  /\ pc' = [pc EXCEPT ![p] = "idle"] /\ Ended(p)
  /\ lock' = None /\ cand' = None
  /\ UNCHANGED <<store, disk, process, failures, requests, admitted>>

Rename(p) ==
  /\ Goto(p, "rename", "sync") /\ file' = cand /\ tmp' = FALSE
  /\ UNCHANGED <<store, synced, unsynced, process, failures, lock, handler, cand,
                 requests, faults, history>>

SyncDirectoryNever(p) ==                                           \* mutant
  /\ Goto(p, "sync", "cfg")
  /\ UNCHANGED <<store, disk, tmp, process, failures, lock, handler, cand, requests,
                 faults, history>>

SyncDirectory(p) ==
  /\ Goto(p, "sync", "cfg") /\ synced' = file /\ unsynced' = FALSE
  /\ UNCHANGED <<store, file, tmp, process, failures, lock, handler, cand, requests,
                 faults, history>>

\* The directory cannot be opened or synced: nobody is told, and the commit goes on.
\* The new entry may or may not have reached the disk.
SyncFails(p) ==
  /\ Goto(p, "sync", "cfg")
  /\ synced' \in {synced, file} /\ unsynced' = TRUE
  /\ UNCHANGED <<store, file, tmp, process, failures, lock, handler, cand, requests,
                 faults, history>>

SwapRuntime(p) ==
  /\ Goto(p, "cfg", "router") /\ cfg' = cand
  /\ UNCHANGED <<store, disk, tmp, router, retention, revision, setupRequired,
                 failures, lock, handler, cand, requests, faults, history>>

Rebuild(p) ==
  /\ Goto(p, "router", "retain") /\ router' = Routed(cand)
  /\ UNCHANGED <<store, disk, tmp, cfg, retention, revision, setupRequired,
                 failures, lock, handler, cand, requests, faults, history>>

RetainNever == retention                                           \* mutant
Retained == IF cand.days # store.days THEN cand.days ELSE retention

Retain(p) ==
  /\ Goto(p, "retain", "publish") /\ retention' = Retained
  /\ UNCHANGED <<store, disk, tmp, cfg, router, revision, setupRequired,
                 failures, lock, handler, cand, requests, faults, history>>

\* The guard takes the candidate; only then does the lock go.  Setup is declared
\* complete after the lock is released, everything else is done.
Overtakes(r, q) ==
  /\ r.op \in {"resetPassword", "removeUser"} /\ req[q] # None
  /\ req[q].op = "account" /\ req[q].by = r.user

Publish(p) ==
  /\ Goto(p, "publish", IF req[p].op = "setup" THEN "claimed" ELSE "idle")
  /\ store' = cand /\ revision' = revision + 1
  /\ overtaken' = [q \in Handler |-> q # p /\ (overtaken[q] \/ Overtakes(req[p], q))]
  /\ lock' = None /\ cand' = None
  /\ req' = [req EXCEPT ![p] = None] /\ copy' = [copy EXCEPT ![p] = None]
  /\ hash' = [hash EXCEPT ![p] = 0] /\ seen' = [seen EXCEPT ![p] = 0]
  /\ UNCHANGED <<disk, tmp, cfg, router, retention, setupRequired, failures,
                 requests, faults, admitted>>

SetupDone(p) ==
  /\ Goto(p, "claimed", "idle") /\ Ended(p)
  /\ setupRequired' = FALSE
  /\ UNCHANGED <<store, disk, tmp, cfg, router, retention, revision, failures,
                 lock, cand, requests, faults, admitted>>

CommitStep(p) ==
  \/ Write(p) \/ WriteFails(p) \/ Rename(p) \/ SyncDirectory(p) \/ SyncFails(p)
  \/ SwapRuntime(p) \/ Rebuild(p) \/ Retain(p) \/ Publish(p) \/ SetupDone(p)
-----------------------------------------------------------------------------
\* Requests.  require_session identifies the caller against the live store.

\* hash_password draws a new salt.
FreshHash == requests + 1

Arrive(p, r, to, saw) ==
  /\ pc[p] = "idle" /\ requests < MaxRequests
  /\ requests' = requests + 1
  /\ pc' = [pc EXCEPT ![p] = to] /\ req' = [req EXCEPT ![p] = r]
  /\ hash' = [hash EXCEPT ![p] = FreshHash] /\ seen' = [seen EXCEPT ![p] = saw]
  /\ UNCHANGED <<store, disk, tmp, process, lock, copy, cand, faults, overtaken>>

Identified(u) == lock = None /\ ~setupRequired /\ u \in DOMAIN store.users
Administrates(u) == u \in DOMAIN store.users /\ IsAdmin(store.users[u].role)

\* A request that is decided in one critical section.
Asks(p, r) ==
  /\ Identified(r.by) /\ Arrive(p, r, "lock", 0)
  /\ UNCHANGED <<failures, admitted>>

\* users and locale look at the caller's role first, then hash a password or read
\* the body without the lock.
AsksSlowly(p, r) ==
  /\ Identified(r.by) /\ Administrates(r.by) /\ Arrive(p, r, "work", 0)
  /\ UNCHANGED <<failures, admitted>>

Work(p) ==
  /\ Goto(p, "work", "lock")
  /\ UNCHANGED <<store, disk, tmp, process, failures, lock, handler,
                 cand, requests, faults, history>>

-----------------------------------------------------------------------------
\* POST /setup: refused once setup is complete; its body is read, and rejected or
\* admitted by the throttle before the password is hashed.

SetupArrives(p, u, k, c, l) ==
  /\ setupRequired
  /\ Arrive(p, [op |-> "setup", by |-> u, key |-> k, client |-> c, url |-> l],
            "body", 0)
  /\ UNCHANGED <<failures, admitted>>

AdmitAlways == TRUE                                                \* mutant
AdmitPreAuth == failures <= ThrottleMax

SetupAdmitted(p) ==
  /\ Goto(p, "body", "work") /\ AdmitPreAuth
  /\ failures' = failures + 1 /\ admitted' = admitted + 1
  /\ UNCHANGED <<store, disk, tmp, process, lock, handler, cand, requests, faults,
                 overtaken>>

\* An unreadable body, a weak password, or too many attempts.
SetupRejected(p) ==
  /\ Goto(p, "body", "idle") /\ Ended(p)
  /\ UNCHANGED <<store, disk, tmp, process, failures, lock, cand, requests, faults,
                 admitted>>

\* The claim: all users are replaced by the superuser, who adopts every key and
\* adds those submitted.
ClaimTwice == TRUE                                                 \* mutant
Claimable == ~Claimed(store)

Adopt(f, u) == [x \in DOMAIN f |-> [f[x] EXCEPT !.owner = u]]

Setup(p) ==
  /\ pc[p] = "lock" /\ req[p].op = "setup"
  /\ LET u == req[p].by
         k == req[p].key
         keys == Adopt(store.keys, u)
         clients == Adopt(store.clients, u)
         Given(f, x, v) == IF x = NoKey THEN f ELSE With(f, x, v)
     IN Submit(p, Claimable /\ k \notin DOMAIN keys
                            /\ req[p].client \notin DOMAIN clients,
               [store EXCEPT
                  !.users = [x \in {u} |-> [role |-> "superuser", pw |-> hash[p]]],
                  !.keys = Given(keys, k, [owner |-> u, enabled |-> TRUE]),
                  !.clients = Given(clients, req[p].client, [owner |-> u]),
                  !.url = req[p].url])

\* Checking a key for the wizard is an attempt, too.
ValidateKey ==
  /\ setupRequired /\ AdmitPreAuth
  /\ failures' = failures + 1
  /\ UNCHANGED <<store, disk, tmp, process, lock, pc, handler, cand,
                 requests, faults, history>>

\* A failed login counts as one.  It was let in before its password was verified,
\* so concurrent logins overshoot; counts beyond the first excess are all alike, and
\* once there is an owner they matter only to a setup whose body is being read.
LoginFails ==
  /\ ~setupRequired /\ failures < ThrottleMax + 1
  /\ \E p \in Handler : pc[p] = "body"
  /\ failures' = failures + 1
  /\ UNCHANGED <<store, disk, tmp, process, lock, pc, handler, cand,
                 requests, faults, history>>

\* The window of the throttle ends.
WindowEnds ==
  /\ failures > 0 /\ failures' = 0 /\ admitted' = 0
  /\ UNCHANGED <<store, disk, tmp, process, lock, pc, handler, cand,
                 requests, faults, overtaken>>

-----------------------------------------------------------------------------
\* nim-keys and clients: one's own, or anyone's for an admin.

Is(p, op) == pc[p] = "lock" /\ req[p].op = op
Present(p) == req[p].by \in DOMAIN store.users
MayTouch(u, f, x) ==
  u \in DOMAIN store.users /\ x \in DOMAIN f /\ (Administrates(u) \/ f[x].owner = u)

Removed(k) == [store EXCEPT !.keys = Without(@, {k})]

AddKey(p) ==
  /\ Is(p, "addKey")
  /\ Submit(p, Present(p) /\ req[p].key \notin DOMAIN store.keys,
            [store EXCEPT !.keys =
               With(@, req[p].key, [owner |-> req[p].by, enabled |-> TRUE])])

RemoveKey(p) ==
  /\ Is(p, "removeKey")
  /\ Submit(p, MayTouch(req[p].by, store.keys, req[p].key), Removed(req[p].key))

SetKey(p) ==
  /\ Is(p, "setKey")
  /\ LET k == req[p].key
         may == MayTouch(req[p].by, store.keys, k)
     IN Submit(p, may, IF may THEN [store EXCEPT !.keys[k].enabled = ~@] ELSE store)

AddClient(p) ==
  /\ Is(p, "addClient")
  /\ Submit(p, Present(p) /\ req[p].client \notin DOMAIN store.clients,
            [store EXCEPT !.clients = With(@, req[p].client, [owner |-> req[p].by])])

RemoveClient(p) ==
  /\ Is(p, "removeClient")
  /\ Submit(p, MayTouch(req[p].by, store.clients, req[p].client),
            [store EXCEPT !.clients = Without(@, {req[p].client})])

Mode(p) ==
  /\ Is(p, "mode")
  /\ Submit(p, Administrates(req[p].by), [store EXCEPT !.open = ~@])

-----------------------------------------------------------------------------
\* Server settings, for admins: the upstream, the retention, and the knobs that
\* only the runtime reads (limits, governor, routing, locale).

Upstream(p) ==
  /\ Is(p, "upstream")
  /\ Submit(p, Administrates(req[p].by), [store EXCEPT !.url = req[p].url])

History(p) ==
  /\ Is(p, "history")
  /\ Submit(p, Administrates(req[p].by), [store EXCEPT !.days = req[p].days])

\* One section of knobs replaced; which one does not matter to the others.
Replaced == [store EXCEPT !.knobs = 1 - @]

Section(p, op) == Is(p, op) /\ Submit(p, Administrates(req[p].by), Replaced)

Limits(p) == Section(p, "limits")
GovernorCfg(p) == Section(p, "governor_cfg")
Routing(p) == Section(p, "routing")
Locale(p) == Section(p, "locale")

\* The Server form: the upstream and the limits as one candidate.
Server(p) ==
  /\ Is(p, "server")
  /\ Submit(p, Administrates(req[p].by), [Replaced EXCEPT !.url = req[p].url])

\* users: the role is looked up again under the lock; the superuser is inviolable.
RecheckNever(u) == TRUE                                            \* mutant
Recheck(u) == Administrates(u)

Ordinary(u) == u \in DOMAIN store.users /\ store.users[u].role # "superuser"

AddUser(p) ==
  /\ Is(p, "addUser")
  /\ Submit(p, Recheck(req[p].by) /\ req[p].user \notin DOMAIN store.users,
            [store EXCEPT !.users =
               With(@, req[p].user, [role |-> req[p].role, pw |-> hash[p]])])

\* A removed user's keys leave the pool and their client keys are revoked.
RemoveUser(p) ==
  /\ Is(p, "removeUser")
  /\ LET u == req[p].user
     IN Submit(p, Recheck(req[p].by) /\ Ordinary(u),
               [store EXCEPT !.users = Without(@, {u}),
                             !.keys = Without(@, OwnedBy(@, u)),
                             !.clients = Without(@, OwnedBy(@, u))])

ResetPassword(p) ==
  /\ Is(p, "resetPassword")
  /\ LET u == req[p].user
         may == Recheck(req[p].by) /\ Ordinary(u)
     IN Submit(p, may, IF may THEN [store EXCEPT !.users[u].pw = hash[p]] ELSE store)

SetRole(p) ==
  /\ Is(p, "setRole")
  /\ LET u == req[p].user
         may == Recheck(req[p].by) /\ Ordinary(u)
     IN Submit(p, may, IF may THEN [store EXCEPT !.users[u].role = req[p].role]
                       ELSE store)

-----------------------------------------------------------------------------
\* GET /api/config: the store is cloned under its mutex, and the page made from the
\* clone and, later, from the lanes of the pool that is serving by then: the
\* sections of the Settings page, filtered by role.  A padlock marks the
\* superuser's only enabled key.

GuardedStored(s) ==                                                \* mutant
  LET mine == {k \in DOMAIN s.keys : s.keys[k].owner \in Superusers(s)}
  IN IF Cardinality(mine) = 1 THEN mine ELSE {}
Guarded(s) ==
  LET enabled == {k \in DOMAIN s.keys : s.keys[k].enabled
                                          /\ s.keys[k].owner \in Superusers(s)}
  IN IF Cardinality(enabled) = 1 THEN enabled ELSE {}

Shown(s, u, f) == {x \in DOMAIN f : IsAdmin(s.users[u].role) \/ f[x].owner = u}

ConfigResponse(s, u, pool) ==
  [keys |-> [k \in Shown(s, u, s.keys) |->
               [owner |-> s.keys[k].owner, guarded |-> k \in Guarded(s),
                enabled |-> s.keys[k].enabled,
                lane |-> k \in DOMAIN pool.keys /\ pool.keys[k].enabled]],
   clients |-> Shown(s, u, s.clients),
   server |-> IsAdmin(s.users[u].role),
   users |-> IF IsAdmin(s.users[u].role) THEN DOMAIN s.users ELSE {}]

ApiConfig(p) ==
  /\ Is(p, "page") /\ lock = None
  /\ IF Present(p)
     THEN /\ pc' = [pc EXCEPT ![p] = "page"] /\ copy' = [copy EXCEPT ![p] = store]
          /\ UNCHANGED <<req, hash, seen, overtaken>>
     ELSE pc' = [pc EXCEPT ![p] = "idle"] /\ Ended(p)
  /\ UNCHANGED <<store, disk, tmp, process, failures, lock, cand, requests, faults,
                 admitted>>

\* It answers ConfigResponse(copy[p], req[p].by, router).
ApiConfigAnswers(p) ==
  /\ Goto(p, "page", "idle") /\ Ended(p)
  /\ UNCHANGED <<store, disk, tmp, process, failures, lock, cand, requests, faults,
                 admitted>>

-----------------------------------------------------------------------------
\* account: the caller's hash is read, the current password verified against it
\* and the new one hashed without the lock, and applied if the hash is unchanged.

\* What the fields of the body ask for; any password field decides.
Field == {"current_password", "new_password", "action", "locale", "unknown"}
AccountBody(F) ==
  LET passwords == {"current_password", "new_password"}
  IN CASE passwords \subseteq F -> "Password"
       [] F = {"action", "locale"} -> "Locale"
       [] OTHER -> "Rejected"

AccountArrives(p, u, F) ==
  /\ Identified(u) /\ AccountBody(F) = "Password"
  /\ Arrive(p, [op |-> "account", by |-> u], "work", store.users[u].pw)
  /\ UNCHANGED <<failures, admitted>>

\* ... or the caller's language, which needs no password.
AccountLocaleArrives(p, u, F) ==
  AccountBody(F) = "Locale" /\ Asks(p, [op |-> "accountLocale", by |-> u])
AccountLocale(p) == Is(p, "accountLocale") /\ Submit(p, Present(p), Replaced)

UnrotatedNot(p) == Present(p)                                      \* mutant
Unrotated(p) == Present(p) /\ store.users[req[p].by].pw = seen[p]

ApplyPasswordChange(p) ==
  /\ Is(p, "account")
  /\ Submit(p, Unrotated(p),
            IF Unrotated(p) THEN [store EXCEPT !.users[req[p].by].pw = hash[p]]
            ELSE store)

-----------------------------------------------------------------------------
\* The process is killed, or the machine loses power and with it what had not
\* reached the disk, and it starts again: the stale temporary file is dropped and
\* the store is read from the file.
Killed ==
  /\ UNCHANGED <<file, synced>>
  /\ unsynced' = (unsynced \/ synced # file)

PowerLost == file' \in {file, synced} /\ synced' = file' /\ unsynced' = FALSE

Reboot ==
  /\ faults < MaxFaults /\ faults' = faults + 1
  /\ Killed \/ PowerLost
  /\ Valid(file') /\ tmp' = FALSE
  /\ store' = file' /\ cfg' = file' /\ router' = Routed(file')
  /\ retention' = file'.days
  /\ revision' = 1 /\ setupRequired' = ~Claimed(file')
  /\ failures' = 0 /\ lock' = None /\ cand' = None
  /\ pc' = [p \in Handler |-> "idle"] /\ req' = [p \in Handler |-> None]
  /\ hash' = [p \in Handler |-> 0] /\ seen' = [p \in Handler |-> 0]
  /\ copy' = [p \in Handler |-> None]
  /\ overtaken' = [p \in Handler |-> FALSE] /\ admitted' = 0
  /\ UNCHANGED requests

Request(p) ==
  \/ \E u \in User, k \in Key \cup {NoKey}, c \in Client \cup {NoKey}, l \in Url :
       SetupArrives(p, u, k, c, l)
  \/ \E u \in User, k \in Key, op \in {"addKey", "removeKey", "setKey"} :
       Asks(p, [op |-> op, by |-> u, key |-> k])
  \/ \E u \in User, c \in Client, op \in {"addClient", "removeClient"} :
       Asks(p, [op |-> op, by |-> u, client |-> c])
  \/ \E u \in User, op \in {"mode", "limits", "governor_cfg", "routing", "page"} :
       Asks(p, [op |-> op, by |-> u])
  \/ \E u \in User, l \in Url, op \in {"upstream", "server"} :
       Asks(p, [op |-> op, by |-> u, url |-> l])
  \/ \E u \in User, d \in Days : Asks(p, [op |-> "history", by |-> u, days |-> d])
  \/ \E u, v \in User, r \in {"admin", "user"}, op \in {"addUser", "setRole"} :
       AsksSlowly(p, [op |-> op, by |-> u, user |-> v, role |-> r])
  \/ \E u, v \in User, op \in {"removeUser", "resetPassword"} :
       AsksSlowly(p, [op |-> op, by |-> u, user |-> v])
  \/ \E u \in User : AsksSlowly(p, [op |-> "locale", by |-> u])
  \/ \E u \in User, F \in SUBSET Field :
       AccountArrives(p, u, F) \/ AccountLocaleArrives(p, u, F)

HandlerStep(p) ==
  \/ SetupAdmitted(p) \/ SetupRejected(p) \/ ApiConfig(p) \/ ApiConfigAnswers(p)
  \/ Work(p) \/ Setup(p) \/ AddKey(p) \/ RemoveKey(p) \/ SetKey(p) \/ AddClient(p)
  \/ RemoveClient(p) \/ Mode(p) \/ Upstream(p) \/ History(p) \/ Limits(p)
  \/ GovernorCfg(p) \/ Routing(p) \/ Locale(p) \/ Server(p)
  \/ AddUser(p) \/ RemoveUser(p) \/ ResetPassword(p) \/ SetRole(p)
  \/ AccountLocale(p) \/ ApplyPasswordChange(p) \/ CommitStep(p)

Next ==
  \/ \E p \in Handler : Request(p) \/ HandlerStep(p)
  \/ ValidateKey \/ LoginFails \/ WindowEnds \/ Reboot

Spec == Init /\ [][Next]_vars

-----------------------------------------------------------------------------
StoreOK(s) ==
  /\ DOMAIN s.users \subseteq User /\ DOMAIN s.keys \subseteq Key
  /\ DOMAIN s.clients \subseteq Client /\ s.url \in Url
  /\ \A u \in DOMAIN s.users : s.users[u].role \in Role

\* Every variable has its type; the store mutex is held by a handler that commits.
TypeOK ==
  /\ StoreOK(store) /\ StoreOK(file) /\ StoreOK(synced)
  /\ {tmp, unsynced, setupRequired} \subseteq BOOLEAN
  /\ failures \in 0..(ThrottleMax + 1) /\ requests \in 0..MaxRequests
  /\ lock \in Handler \cup {None} /\ (lock # None => StoreOK(cand))
  /\ \A p \in Handler :
       lock = p <=> pc[p] \in {"save", "rename", "sync", "cfg", "router", "retain",
                               "publish"}

\* The file on disk can always be booted from: it passes the rules of validate,
\* whatever was killed when, and so does what a power loss would leave.
Bootable == Valid(file) /\ Valid(synced)

\* The config store is a crash-safe register: see ConfigRegister.
Register == INSTANCE ConfigRegister WITH disk <- file, durable <- synced,
                                         lax <- unsynced, served <- store,
                                         IsValue <- Valid
RegisterSpec == Register!Spec

\* When the store mutex is free, the runtime configuration, the router and the
\* retention are those of the store, the store is what is in the file, and unless a
\* sync of the directory failed, it is what a power loss would leave.
RuntimeAgrees ==
  lock = None => /\ cfg = store /\ router = Routed(store) /\ retention = store.days
                 /\ file = store
                 /\ unsynced \/ synced = store

\* The proxy has one owner for ever: a claimed store keeps its superuser (unless a
\* power loss takes back a file whose directory was never synced), and setup is
\* open only while there is none (or the winner is about to close it).
OwnerKept ==
  /\ Claimed(store) => \/ Superusers(store') = Superusers(store)
                       \/ unsynced /\ store' = synced
  /\ ~setupRequired' => Claimed(store')
  /\ setupRequired' /\ Claimed(store') => \E p \in Handler : pc'[p] = "claimed"

\* A password reset that has been acknowledged wins: no change that was
\* authorized with the older password is applied after it.
ResetWins ==
  \A p \in Handler :
    pc[p] = "lock" /\ pc'[p] = "save" /\ req[p].op = "account" => ~overtaken[p]

\* Authority is live: what only an admin may change is changed on behalf of a user
\* who is an admin in the store that the change replaces.
AdminOnly == {"mode", "limits", "governor_cfg", "routing", "locale", "server",
              "upstream", "history", "addUser", "removeUser", "resetPassword",
              "setRole"}
AuthorityLive ==
  \A p \in Handler :
    pc[p] = "publish" /\ pc'[p] = "idle" /\ store' # store /\ req[p].op \in AdminOnly
      => Administrates(req[p].by)

\* The Settings page tells the truth.  In the clone it is made from, a key is
\* offered for removal to exactly those whose removal the server would accept (the
\* padlock is the pool floor), every row's owner is a user the admin sees, and the
\* server section is there for those who may save it.  When it answers while that
\* clone is still what the proxy is configured with, a key has a lane exactly if it
\* is enabled and the provider serves.
PageIsTrue ==
  /\ lock = None => \A u \in DOMAIN store.users :
       LET page == ConfigResponse(store, u, router)
       IN /\ \A k \in Key :
               (k \in DOMAIN page.keys /\ ~page.keys[k].guarded)
                 <=> Accepted(MayTouch(u, store.keys, k), Removed(k))
          /\ Administrates(u) =>
               \A k \in DOMAIN page.keys : page.keys[k].owner \in page.users
          /\ \A c \in Client : c \in page.clients <=> MayTouch(u, store.clients, c)
          /\ page.server <=> Accepted(Administrates(u), Replaced)
  /\ \A p \in Handler : pc[p] = "page" /\ copy[p] = store /\ copy[p] = cfg =>
       LET page == ConfigResponse(copy[p], req[p].by, router)
       IN \A k \in DOMAIN page.keys :
            page.keys[k].lane <=> page.keys[k].enabled /\ copy[p].nvidia

\* The throttle bounds the password hashing an unclaimed proxy can be made to do.
HashingBounded == admitted <= ThrottleMax + 1

\* Who may do what is decided by the store as it is when the change is applied,
\* however long before that a handler looked: the owner stays, an acknowledged
\* password reset wins, and admins who no longer are change nothing.
AuthorityHeld == [][OwnerKept /\ ResetWins /\ AuthorityLive]_vars

\* Disk, store and runtime stay one configuration that can be booted from, with
\* the hashing done before anyone owns the proxy bounded.
StoreSound == TypeOK /\ Bootable /\ RuntimeAgrees /\ HashingBounded
=============================================================================
