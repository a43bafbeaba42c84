----------------------------- MODULE StateStore -----------------------------
(***************************************************************************)
(* What the router remembers across restarts: the health map and the         *)
(* flock_state.db writer of health.rs, the attempt bookkeeping, persistence   *)
(* tick and boot of router.rs, and the persistence hooks of pool.rs and       *)
(* circuit.rs.  The governors' rows are in Governor.                         *)
(*                                                                         *)
(* Memory is changed first and an operation is queued for the one writer     *)
(* thread afterwards, outside the lock; lane windows, cooldowns and circuits  *)
(* are also queued by a periodic tick.  A kill loses memory and queue, never  *)
(* an applied operation (a power loss that also drops the tail of the         *)
(* write-ahead log is a kill with a slower writer).                          *)
(*                                                                         *)
(* Time has ticks, Second of which make one second.  Instants are ticks;      *)
(* persisted stamps are built from whole unix seconds, and after a restart    *)
(* instants are rebuilt from them.  Latencies and ratings are left out.       *)
(***************************************************************************)
EXTENDS Integers, Sequences, FiniteSets, SequencesExt, FiniteSetsExt, Functions

CONSTANTS
  Task,                    \* requests and probes in flight
  Provider, Key, Session,
  None,
  LegacyHealth, Legacy,    \* AstMatrix's rows: provider -> healthy, and pins:
                           \* session -> expiry in unix seconds
  Affinity,                \* and pins by last use: session -> updated_at
  Second,                  \* ticks in a second
  Window, Grace,           \* WINDOW, and restore's 120 s, in ticks
  Backoffs,                \* penalties, in ticks
  Ttl,                     \* sticky_ttl, in seconds
  Rpm,
  MaxFailures, Timeout, HalfOpenMax,   \* circuit: failures, ticks, successes
  MaxNow,
  MaxEvents,               \* bound on attempts and ticks
  MaxSetbacks,             \* bound on kills and failed writes
  MaxBacklog               \* bound on the operations queued while time passes

\* A breaker as memory and the database hold it.
Circuit == [state : {"closed", "half", "open"}, failures : Nat, last : Int,
            unix : Nat, good : Nat]

ASSUME ConstantsAssumption ==
  /\ IsFiniteSet(Provider) /\ IsFiniteSet(Key)
  /\ None \notin Circuit /\ None \notin Nat
  /\ \A n \in {Second, Window, Grace, Ttl, Rpm, MaxFailures, Timeout,
               HalfOpenMax} : n \in Nat \ {0}
  /\ Grace >= Window
  /\ Backoffs \subseteq Nat
  /\ DOMAIN LegacyHealth \subseteq Provider /\ Range(LegacyHealth) \subseteq BOOLEAN
  /\ \A pins \in {Legacy, Affinity} :
       DOMAIN pins \subseteq Session /\ Range(pins) \subseteq Nat
  /\ \A n \in {MaxNow, MaxEvents, MaxSetbacks, MaxBacklog} : n \in Nat

VARIABLES
  now,
  up,          \* "down", "importing", "up"
  left,        \* legacy rows the running import has not reached
  mem,         \* HealthInner, pools and circuits of this process
  db,          \* flock_state.db, None before the first boot creates it
  queue,       \* PersistOps on their way to the writer thread
  task,        \* what each attempt still has to do
  batch,       \* the operations the tick has built and not sent
  events, setbacks,
  kills,       \* history: restarts so far
  sends,       \* history: when send number i was made
  kept,        \* history: the sends the process made or found in the database
  ends,        \* history: when the last penalty, opening or pin really ends
  saved        \* history: "built" or "sent" once a tick has all that memory holds

process == <<mem, queue, task, batch>>
history == <<sends, kept, ends, saved>>
vars == <<now, up, left, process, db, events, setbacks, kills, history>>

Unix == now \div Second          \* unix_now
Floor == Unix * Second           \* now_unix * 1000

-----------------------------------------------------------------------------
\* State as the process and the database hold it.

Lanes(v) == [p \in Provider |-> [k \in Key |-> v]]
Closed == [state |-> "closed", failures |-> 0, last |-> 0, unix |-> 0, good |-> 0]

\* A new process before restore: never-probed providers, no rows.
Blank == [health |-> [p \in Provider |-> None], pin |-> [s \in Session |-> None],
          circuit |-> [p \in Provider |-> Closed], sent |-> Lanes(<<>>),
          cool |-> Lanes(0)]

EmptyDb == [health |-> [p \in Provider |-> None], pin |-> [s \in Session |-> None],
            circuit |-> [p \in Provider |-> None], sent |-> Lanes(<<>>),
            cool |-> Lanes(0)]

Live(pin) == pin # None /\ pin > Unix
InWindow(stamp) == now - stamp.at < Window

\* The members of a deque that are in T, in their order (SelectSeq, as a
\* recursive function).
Filtered(s, T) ==
  LET F[i \in 0..Len(s)] ==
        IF i = 0 THEN <<>>
        ELSE IF s[i] \in T THEN Append(F[i - 1], s[i]) ELSE F[i - 1]
  IN  F[Len(s)]

Pruned(sent) == Filtered(sent, {stamp \in Range(sent) : InWindow(stamp)})

\* apply_op: one statement or one transaction per operation.
Apply(d, o) ==
  CASE o.op = "health"   -> [d EXCEPT !.health[o.provider] = o.healthy]
    [] o.op = "sticky"   -> [d EXCEPT !.pin[o.session] = o.expires]
    [] o.op = "sweep"    -> [d EXCEPT !.pin = [s \in Session |->
                               IF @[s] # None /\ @[s] <= o.unix THEN None ELSE @[s]]]
    [] o.op = "circuit"  -> [d EXCEPT !.circuit[o.provider] = o.snap]
    [] o.op = "lanes"    -> [d EXCEPT !.sent[o.provider] = [k \in Key |->
                               IF o.rows[k] = <<>> THEN @[k] ELSE o.rows[k]]]
    [] o.op = "cooldown" -> [d EXCEPT !.cool[o.provider][o.key] = o.until]

-----------------------------------------------------------------------------
\* Circuit breaker.

Opened(c) == [c EXCEPT !.state = "open", !.last = now, !.unix = Unix, !.good = 0]

\* Mutant of RecordFailure: opens one failure late.
RecordFailureLate(c) ==
  IF c.state = "closed" /\ c.failures < MaxFailures THEN [c EXCEPT !.failures = @ + 1]
  ELSE Opened([c EXCEPT !.failures = @ + 1])

RecordFailure(c) ==
  CASE c.state = "closed" ->
         IF c.failures + 1 >= MaxFailures THEN Opened([c EXCEPT !.failures = @ + 1])
         ELSE [c EXCEPT !.failures = @ + 1]
    [] c.state = "half"   -> Opened(c)
    [] c.state = "open"   -> c

RecordSuccess(c) ==
  CASE c.state = "closed" -> [c EXCEPT !.failures = 0]
    [] c.state = "half"   ->
         IF c.good + 1 >= HalfOpenMax
         THEN [c EXCEPT !.state = "closed", !.failures = 0, !.good = 0]
         ELSE [c EXCEPT !.good = @ + 1]
    [] c.state = "open"   -> c

Elapsed(c) == now - c.last >= Timeout
Allows(c) == c.state # "open" \/ (c.unix > 0 /\ Elapsed(c))

\* allow(): an open circuit whose timeout is over becomes half-open.
Allow(p) ==
  /\ up = "up" /\ mem.circuit[p].state = "open" /\ Allows(mem.circuit[p])
  /\ mem' = [mem EXCEPT !.circuit[p].state = "half", !.circuit[p].good = 0]
  /\ saved' = "no"
  /\ UNCHANGED <<now, up, left, db, queue, task, batch, sends, kept, ends, events, setbacks, kills>>

-----------------------------------------------------------------------------
\* Attempts: memory changes and queued operations in program order.  An
\* operation and the memory change after it are one step, as they touch
\* different rows; unix is the clock the handler read when it began.

HealthOp(p, good) == [op |-> "health", provider |-> p, healthy |-> good]
StickyOp(s, e) == [op |-> "sticky", session |-> s, expires |-> e]
CooldownOp(p, k, u) == [op |-> "cooldown", provider |-> p, key |-> k, until |-> u]

Idle == [todo |-> None, op |-> None]
Pin(s) == [do |-> "pin", session |-> s, unix |-> Unix]
Cool(p, k, b) == [do |-> "cool", provider |-> p, key |-> k, backoff |-> b, unix |-> Unix]

\* The session of a request that succeeds is used now.
Used(end, then) ==
  IF then # None /\ then.do = "pin"
  THEN [end EXCEPT !.pin[then.session] = Max({@, then.unix + Ttl})] ELSE end

\* record_health, after the circuit has counted the outcome.
Begin(t, p, good, Outcome(_), then) ==
  /\ up = "up" /\ task[t] = Idle /\ events > 0
  /\ events' = events - 1
  /\ mem' = [mem EXCEPT !.health[p] = good, !.circuit[p] = Outcome(@)]
  /\ task' = [task EXCEPT ![t] = [todo |-> then, op |-> HealthOp(p, good)]]
  /\ ends' = Used(IF mem'.circuit[p].state = "open" /\ mem.circuit[p].state # "open"
                  THEN [ends EXCEPT !.open[p] = now + Timeout] ELSE ends, then)
  /\ saved' = "no"
  /\ UNCHANGED <<now, up, left, db, queue, batch, sends, kept, setbacks, kills>>

Unmoved(c) == c

FinishSuccess(t) ==
  \E p \in Provider, s \in Session : Begin(t, p, TRUE, RecordSuccess, Pin(s))
FinishFailure(t) ==
  \E p \in Provider, k \in Key, b \in Backoffs :
    Begin(t, p, FALSE, RecordFailure, Cool(p, k, b))
RecordAttempt(t) ==
  \E p \in Provider :
    \/ Begin(t, p, TRUE, RecordSuccess, None)
    \/ Begin(t, p, FALSE, RecordFailure, None)
ProbeOnce(t) == \E p \in Provider, good \in BOOLEAN : Begin(t, p, good, Unmoved, None)

\* set_sticky.
SetSticky(t) ==
  /\ up = "up" /\ task[t].todo # None /\ task[t].todo.do = "pin"
  /\ LET step == task[t].todo  expires == step.unix + Ttl IN
       /\ mem' = [mem EXCEPT !.pin[step.session] = expires]
       /\ task' = [task EXCEPT ![t] = [todo |-> None, op |-> StickyOp(step.session, expires)]]
  /\ queue' = Append(queue, task[t].op)
  /\ saved' = "no"
  /\ UNCHANGED <<now, up, left, db, batch, sends, kept, ends, events, setbacks, kills>>

\* penalize keeps the later end; the operation carries this penalty's own.
Penalized(m, p, k, b) == [m EXCEPT !.cool[p][k] = Max({@, now + b})]

Penalize(t) ==
  /\ up = "up" /\ task[t].todo # None /\ task[t].todo.do = "cool"
  /\ LET step == task[t].todo IN
       /\ mem' = Penalized(mem, step.provider, step.key, step.backoff)
       /\ ends' = Penalized(ends, step.provider, step.key, step.backoff)
       /\ task' = [task EXCEPT ![t] = [todo |-> None, op |->
              CooldownOp(step.provider, step.key, step.unix * Second + step.backoff)]]
  /\ queue' = Append(queue, task[t].op)
  /\ saved' = "no"
  /\ UNCHANGED <<now, up, left, db, batch, sends, kept, events, setbacks, kills>>

\* The operation after the last memory change.
LastOp(t) ==
  /\ up = "up" /\ task[t].todo = None /\ task[t].op # None
  /\ queue' = Append(queue, task[t].op)
  /\ task' = [task EXCEPT ![t] = Idle]
  /\ UNCHANGED <<now, up, left, mem, db, batch, history, events, setbacks, kills>>

\* try_take on a lane: the stamp of a send.  Cooldowns and full windows refuse.
Send(p, k) ==
  /\ up = "up" /\ events > 0
  /\ mem.cool[p][k] <= now
  /\ LET live == Pruned(mem.sent[p][k]) IN
       /\ Len(live) < Rpm
       /\ mem' = [mem EXCEPT !.sent[p][k] = Append(live, [id |-> Len(sends) + 1, at |-> now])]
  /\ sends' = Append(sends, now)
  /\ kept' = kept \cup {[id |-> Len(sends) + 1, provider |-> p, key |-> k]}
  /\ events' = events - 1
  /\ saved' = "no"
  /\ UNCHANGED <<now, up, left, db, queue, task, batch, ends, setbacks, kills>>

\* enter_cooldown of the serving path: no operation is queued.
EnterCooldown(p, k, b) ==
  /\ up = "up" /\ events > 0
  /\ mem' = Penalized(mem, p, k, b)
  /\ ends' = Penalized(ends, p, k, b)
  /\ saved' = "no"
  /\ events' = events - 1
  /\ UNCHANGED <<now, up, left, db, queue, task, batch, sends, kept, setbacks, kills>>

-----------------------------------------------------------------------------
\* The persistence tick.

\* Mutant of Saved: whole-second stamps.
SavedWhole(stamp) ==
  [id |-> stamp.id, at |-> ((Floor - (now - stamp.at)) \div Second) * Second]
Saved(stamp) == [id |-> stamp.id, at |-> Floor - (now - stamp.at)]
LaneWindowRow(sent) ==
  LET live == Pruned(sent) IN [i \in DOMAIN live |-> Saved(live[i])]
\* Mutant of CooldownRow: the time that is left instead of the end.
CooldownRowLeft(until) == until - now
CooldownRow(until) == Floor + (until - now)

\* ProviderRuntime::snapshot, as the operations persist_once makes of it.
SnapshotOps(p) ==
  <<[op |-> "circuit", provider |-> p, snap |-> mem.circuit[p]],
    [op |-> "lanes", provider |-> p,
     rows |-> [k \in Key |-> LaneWindowRow(mem.sent[p][k])]]>>
  \o SetToSeq({CooldownOp(p, k, CooldownRow(mem.cool[p][k])) :
                 k \in {k \in Key : mem.cool[p][k] > now}})

Snapshot ==
  /\ up = "up" /\ batch = None /\ events > 0
  /\ batch' = FlattenSeq(SetToSeq({SnapshotOps(p) : p \in Provider}))
  /\ events' = events - 1
  /\ saved' = IF \A t \in Task : task[t] = Idle THEN "built" ELSE "no"
  /\ UNCHANGED <<now, up, left, mem, db, queue, task, sends, kept, ends, setbacks, kills>>

\* The rest of persist_once: send the batch, sweep the pins, queue the sweep
\* once for the health map and once more for the tick.
PersistOnce ==
  /\ up = "up" /\ batch # None
  /\ LET expired == {s \in Session : mem.pin[s] # None /\ ~Live(mem.pin[s])}
         sweep == [op |-> "sweep", unix |-> Unix]
     IN  /\ mem' = [mem EXCEPT !.pin = [s \in Session |-> IF s \in expired THEN None ELSE @[s]]]
         /\ queue' = queue \o batch \o (IF expired = {} THEN <<>> ELSE <<sweep, sweep>>)
  /\ batch' = None
  /\ saved' = IF saved = "built" THEN "sent" ELSE "no"
  /\ UNCHANGED <<now, up, left, db, task, sends, kept, ends, events, setbacks, kills>>

\* writer_loop.
Write ==
  /\ up = "up" /\ queue # <<>>
  /\ db' = Apply(db, Head(queue))
  /\ queue' = Tail(queue)
  /\ UNCHANGED <<now, up, left, mem, task, batch, history, events, setbacks, kills>>

\* A failed statement is logged and its operation dropped.
WriteFails ==
  /\ up = "up" /\ queue # <<>> /\ setbacks > 0
  /\ queue' = Tail(queue)
  /\ setbacks' = setbacks - 1
  /\ saved' = "no"
  /\ UNCHANGED <<now, up, left, mem, db, task, batch, sends, kept, ends, events, kills>>

-----------------------------------------------------------------------------
\* Boot.

\* First boot: the state database is created, then the legacy rows are copied
\* one statement at a time, table after table.
TableRows(table, rows) == {table} \X DOMAIN rows
LegacyRows == TableRows("health", LegacyHealth) \cup TableRows("pin", Legacy)
                \cup TableRows("affinity", Affinity)

LegacyEnd(s) == Max({IF s \in DOMAIN Legacy THEN Legacy[s] ELSE 0,
                     IF s \in DOMAIN Affinity THEN Affinity[s] + Ttl ELSE 0})

FirstBoot ==
  /\ up = "down" /\ db = None
  /\ up' = "importing" /\ db' = EmptyDb /\ left' = LegacyRows
  /\ UNCHANGED <<now, process, history, events, setbacks, kills>>

\* The import copies a row of a table once those before are done.
Copy(table, x, before) ==
  /\ up = "importing" /\ <<table, x>> \in left
  /\ \A row \in left : row[1] \notin before
  /\ left' = left \ {<<table, x>>}
  /\ UNCHANGED <<now, up, process, history, events, setbacks, kills>>

ImportHealth(p) ==
  /\ Copy("health", p, {})
  /\ db' = [db EXCEPT !.health[p] = LegacyHealth[p]]

\* INSERT OR IGNORE of a pin that has not expired.
Carried(s, expires) ==
  IF db.pin[s] = None /\ expires > Unix THEN [db EXCEPT !.pin[s] = expires] ELSE db

ImportPin(s) == Copy("pin", s, {"health"}) /\ db' = Carried(s, Legacy[s])
ImportAffinity(s) ==
  Copy("affinity", s, {"health", "pin"}) /\ db' = Carried(s, Affinity[s] + Ttl)

\* An error ends the import; what it copied stays.
ImportFails ==
  /\ up = "importing" /\ left # {} /\ setbacks > 0
  /\ left' = {}
  /\ setbacks' = setbacks - 1
  /\ UNCHANGED <<now, up, process, db, history, events, kills>>

\* restore_lane_window, restore_cooldown and CircuitBreaker::restore: instants
\* from whole-second stamps.
Recent(row) == Floor - row.at < Grace
\* Mutant of Restamped: restored sends count as sent at boot.
RestampedNow(row) == [id |-> row.id, at |-> now]
Restamped(row) == [id |-> row.id, at |-> now - (Floor - row.at)]
RestoreLane(rows) ==
  LET fresh == Filtered(rows, {r \in Range(rows) : Recent(r) /\ Floor - r.at < Window})
  IN  [i \in DOMAIN fresh |-> Restamped(fresh[i])]
RestoreCooldown(until) == IF until <= Floor THEN 0 ELSE now + (until - Floor)
\* Mutant of RestoreCircuit: an open circuit waits its whole timeout again.
RestoreCircuitAnew(snap) == IF snap = None THEN Closed ELSE [snap EXCEPT !.last = now]
RestoreCircuit(snap) ==
  IF snap = None THEN Closed
  ELSE [snap EXCEPT !.last = IF snap.unix > 0 THEN now - (Unix - snap.unix) * Second ELSE 0]

\* Mutants of Swept: a second early; a restart renews the pins it finds.
SweptEarly(pin) == IF pin # None /\ pin > Unix + 1 THEN pin ELSE None
SweptAnew(pin) == IF Live(pin) THEN Unix + Ttl ELSE None
Swept(pin) == IF Live(pin) THEN pin ELSE None
Lapsed(until) == IF until <= Floor THEN 0 ELSE until

\* restore, apply_restored and ProviderRuntime::restore, in one go before
\* anything else runs; expired pins and cooldowns are deleted.
Restored ==
  [health  |-> db.health,
   pin     |-> [s \in Session |-> Swept(db.pin[s])],
   circuit |-> [p \in Provider |-> RestoreCircuit(db.circuit[p])],
   sent    |-> [p \in Provider |-> [k \in Key |-> RestoreLane(db.sent[p][k])]],
   cool    |-> [p \in Provider |-> [k \in Key |-> RestoreCooldown(db.cool[p][k])]]]

InRows(d) == UNION {{[id |-> row.id, provider |-> lane[1], key |-> lane[2]] :
                       row \in Range(d.sent[lane[1]][lane[2]])} :
                     lane \in Provider \X Key}

Boot ==
  /\ \/ up = "down" /\ db # None
     \/ up = "importing" /\ left = {}
  /\ up' = "up"
  /\ mem' = Restored
  /\ db' = [db EXCEPT !.pin = [s \in Session |-> Swept(@[s])],
                      !.cool = [p \in Provider |-> [k \in Key |-> Lapsed(@[p][k])]]]
  /\ kept' = InRows(db)
  /\ UNCHANGED <<now, left, queue, task, batch, sends, ends, saved, events, setbacks, kills>>

Kill ==
  /\ up # "down" /\ setbacks > 0
  /\ up' = "down" /\ left' = {}
  /\ mem' = Blank /\ queue' = <<>> /\ batch' = None
  /\ task' = [t \in Task |-> Idle]
  /\ kept' = {} /\ saved' = "no"
  /\ setbacks' = setbacks - 1 /\ kills' = kills + 1
  /\ UNCHANGED <<now, db, sends, ends, events>>

\* build reads the clock once, before the import, and passes it on.
Advance ==
  /\ up # "importing" /\ now < MaxNow /\ Len(queue) <= MaxBacklog
  /\ now' = now + 1
  /\ UNCHANGED <<up, left, process, db, events, setbacks, kills, history>>

-----------------------------------------------------------------------------
Init ==
  /\ now = Second /\ up = "down" /\ left = {}
  /\ mem = Blank /\ db = None /\ queue = <<>> /\ batch = None
  /\ task = [t \in Task |-> Idle]
  /\ events = MaxEvents /\ setbacks = MaxSetbacks /\ kills = 0
  /\ sends = <<>> /\ kept = {} /\ saved = "no"
  /\ ends = [cool |-> Lanes(0), open |-> [p \in Provider |-> 0],
             pin |-> [s \in Session |-> LegacyEnd(s)]]

Next ==
  \/ \E t \in Task :
       \/ FinishSuccess(t) \/ FinishFailure(t) \/ RecordAttempt(t) \/ ProbeOnce(t)
       \/ SetSticky(t) \/ Penalize(t) \/ LastOp(t)
  \/ \E p \in Provider :
       \/ Allow(p)
       \/ \E k \in Key :
            \/ Send(p, k)
            \/ \E b \in Backoffs : EnterCooldown(p, k, b)
  \/ Snapshot \/ PersistOnce \/ Write \/ WriteFails
  \/ FirstBoot \/ ImportFails \/ Boot
  \/ \E p \in DOMAIN LegacyHealth : ImportHealth(p)
  \/ \E s \in DOMAIN Legacy : ImportPin(s)
  \/ \E s \in DOMAIN Affinity : ImportAffinity(s)
  \/ Kill \/ Advance

Spec == Init /\ [][Next]_vars

-----------------------------------------------------------------------------
\* Properties.

Rows == Seq([id : Nat, at : Int])
Database == [health  : [Provider -> BOOLEAN \cup {None}],
             pin     : [Session -> Nat \cup {None}],
             circuit : [Provider -> Circuit \cup {None}],
             sent    : [Provider -> [Key -> Rows]],
             cool    : [Provider -> [Key -> Nat]]]

\* Type invariant; a process that is not up holds nothing.
TypeOK ==
  /\ up \in {"down", "importing", "up"}
  /\ left \subseteq LegacyRows
  /\ up # "down" => db \in Database
  /\ up # "up" => mem = Blank /\ queue = <<>> /\ batch = None
                  /\ \A t \in Task : task[t] = Idle
  /\ \A s \in Session : mem.pin[s] # None => mem.pin[s] \in Nat
  /\ \A p \in Provider :
       /\ mem.health[p] \in BOOLEAN \cup {None}
       /\ mem.circuit[p].state \in {"closed", "half", "open"}
       /\ mem.circuit[p].failures \in 0..MaxFailures
       /\ \A k \in Key : mem.cool[p][k] \in Nat /\ Len(mem.sent[p][k]) \in 0..Rpm

Drift == kills * (Second - 1)   \* less than a second for each restart
Age(i) == now - sends[i]
Counted(p, k) == {r \in Range(mem.sent[p][k]) : InWindow(r)}

\* A restart does not hand a lane its budget back: a send the process made, or
\* found in lane_windows, is counted until it is WINDOW old, less one second
\* for each restart since whole-second stamps may age it by that much.
CountedAcrossRestarts ==
  \A x \in kept : Age(x.id) < Window - Drift =>
    \E r \in Counted(x.provider, x.key) : r.id = x.id

\* Nor does it throttle a lane for what it did not send: a window holds each
\* send once, at most a second per restart after it was made.
NotOverThrottled ==
  \A p \in Provider, k \in Key :
    /\ IsInjective([i \in DOMAIN mem.sent[p][k] |-> mem.sent[p][k][i].id])
    /\ \A r \in Range(mem.sent[p][k]) : r.at <= sends[r.id] + Drift

\* Restored penalties and open circuits end when they would have, within a
\* second per restart: no restart starts one again.
PenaltiesNotLonger ==
  \A p \in Provider :
    /\ \A k \in Key : mem.cool[p][k] <= ends.cool[p][k] + Drift
    /\ mem.circuit[p].state = "open" =>
         mem.circuit[p].last + Timeout < ends.open[p] + Second

\* A kill after a complete tick loses none of what the tick carries: with the
\* tick's operations applied and memory unchanged since, a restart finds the
\* same circuits and windows, and cooldowns that end at most a second before
\* they did.
RestartLosesNothing ==
  saved = "sent" /\ queue = <<>> =>
    \A p \in Provider :
      /\ Restored.circuit[p].state = mem.circuit[p].state
      /\ Restored.circuit[p].failures = mem.circuit[p].failures
      /\ \A k \in Key :
           /\ \A r \in Counted(p, k) : r.at + Window - now > Second - 1 =>
                \E i \in DOMAIN Restored.sent[p][k] : Restored.sent[p][k][i].id = r.id
           /\ mem.cool[p][k] - now > Second - 1 =>
                Restored.cool[p][k] >= mem.cool[p][k] - (Second - 1)

\* A pin ends with the TTL of the session's last use, whatever order renewals,
\* writes, the import and restarts come in.
PinsNotLonger ==
  \A s \in Session : LET bound == 0..ends.pin[s] \cup {None} IN
    mem.pin[s] \in bound /\ (db # None => db.pin[s] \in bound)

\* And no sooner: a sweep is applied long after the pins it saw, and the row of
\* a session that is still pinned is there for the next process.
NoLivePinLost ==
  db # None => \A s \in Session : Live(db.pin[s]) => db'.pin[s] # None

\* Pins last as long as they are good for, in memory, in the file and from one
\* process to the next.
PinsHonoured == [][PinsNotLonger' /\ NoLivePinLost]_vars

\* router.rs: health and pins are "write-through on record".  Once nothing is
\* in flight and no write has failed, database and memory hold the same.
WriteThrough ==
  up = "up" /\ queue = <<>> /\ batch = None /\ setbacks = MaxSetbacks
      /\ (\A t \in Task : task[t] = Idle)
    => /\ db.health = mem.health
       /\ \A s \in Session : Live(mem.pin[s]) => db.pin[s] = mem.pin[s]

\* Restarts keep the budgets honest both ways: no send the store knows of is
\* forgotten early, none is counted twice or late, and no penalty is prolonged.
WindowsRestored ==
  TypeOK /\ CountedAcrossRestarts /\ NotOverThrottled /\ PenaltiesNotLonger
=============================================================================
