------------------------------ MODULE Dispatch ------------------------------
(***************************************************************************)
(* The key pool (proxy/src/pool.rs) and the global FIFO slot dispatcher    *)
(* (proxy/src/dispatch.rs) of flock: every request joins one queue, one    *)
(* task serves it, and each grant charges one slot of one API key's        *)
(* sliding window.  Settings commits replace the pool while requests hold  *)
(* slots of the replaced generation.                                       *)
(*                                                                         *)
(* A lane's deque of send stamps is the set of the waiters it was granted  *)
(* to: a waiter is one `acquire` call and takes at most one slot, stamps   *)
(* are pushed in clock order, so popping the expired front of the deque    *)
(* and dropping the expired members of the set are the same thing.         *)
(***************************************************************************)
EXTENDS Naturals, Sequences, FiniteSets

CONSTANTS
  Key,            \* API keys that may be configured
  NoKey,          \* no lane (an unset or out-of-range preference)
  NoJob,          \* the dispatcher serves nobody
  InitOrder,      \* the configured keys at boot, in config order
  InitRpm,        \* requests per window of each key at boot
  RpmMax,         \* largest budget the validator accepts
  Rpms,           \* budgets an operator may set
  Backoffs,       \* cooldowns an upstream answer may impose
  Deadlines,      \* instants a request may have as its deadline
  Prefers,        \* lanes a conversation may hash to (1-based; 0 is none)
  UpstreamWindow, \* the rolling window the upstream enforces
  Jitter,         \* delivery jitter the pool's window is padded with
  GrantGap,       \* pause after a grant
  PollCap,        \* longest sleep between two looks at the pool
  MaxAcquires,    \* bound: acquire calls
  Horizon,        \* bound: time passes beyond it only for an armed timer
  MaxGen          \* bound: settings commits

ASSUME ConstantsAssumption ==
  /\ MaxAcquires \in Nat /\ NoKey \notin Key
  /\ InitOrder \in Seq(Key)
  /\ RpmMax \in Nat /\ Rpms \subseteq 1..RpmMax /\ InitRpm \in [Key -> Rpms]
  /\ Backoffs \subseteq Nat /\ Deadlines \subseteq Nat
  /\ Prefers \subseteq Nat
  /\ UpstreamWindow \in Nat \ {0} /\ Jitter \in Nat
  /\ GrantGap \in Nat /\ PollCap \in Nat \ {0}
  /\ Horizon \in Nat /\ MaxGen \in Nat

\* The acquire calls, numbered in the order they join the queue.
Waiter == 1..MaxAcquires

VARIABLES
  clock,                                       \* Instant::now()
  order, enabled, rpm, sent, cooldown, gen,    \* the live pool
  queue, serving, phase, wakeAt,               \* the dispatcher task
  st,                                          \* the acquire calls
  slotKey, slotAt, slotGen, arrived,           \* the slots granted
  charged,   \* history: slots taken on a key since it entered the pool
  told       \* history: until when the upstream asked for a rest of a key

pool == <<order, enabled, rpm, sent, cooldown, gen>>
task == <<queue, serving, phase, wakeAt>>
slot == <<slotKey, slotAt, slotGen, arrived>>
vars == <<clock, pool, task, st, slot, charged, told>>

-----------------------------------------------------------------------------
(* The pool.                                                               *)

WindowUnpadded == UpstreamWindow                                   \* mutant
Window == UpstreamWindow + Jitter

Elements(s) == {s[i] : i \in DOMAIN s}

\* Enabled keys in config order are the lanes that may be granted; the
\* disabled ones stay behind them as carriers of their rate state.
Lanes == SelectSeq(order, LAMBDA k : k \in enabled)
Index(k) == CHOOSE i \in DOMAIN Lanes : Lanes[i] = k

Live(k, t) == {w \in sent[k] : t < slotAt[w] + Window}
Load(k)    == Cardinality(Live(k, clock))

\* try_take: a lane can be charged now.
Open(k) == cooldown[k] <= clock /\ Load(k) < rpm[k]

PreferredLane(job) ==
  IF job.prefer \in DOMAIN Lanes THEN Lanes[job.prefer] ELSE NoKey

ReadyLanes == {k \in enabled : Open(k)}

\* reserve: the preferred lane while it has room, else the least loaded.
Chosen(job, k) ==
  /\ k \in ReadyLanes
  /\ IF PreferredLane(job) \in ReadyLanes
     THEN k = PreferredLane(job)
     ELSE \A j \in ReadyLanes :
            Load(k) < Load(j) \/ (Load(k) = Load(j) /\ Index(k) <= Index(j))

OldestStamp(k, n) ==                                               \* mutant
  CHOOSE t \in {slotAt[w] : w \in Live(k, clock)} :
    \A w \in Live(k, clock) : t <= slotAt[w]

\* The n-th oldest stamp of a lane: sent[n - 1] of the deque.
Stamp(k, n) ==
  CHOOSE t \in {slotAt[w] : w \in Live(k, clock)} :
    /\ Cardinality({w \in Live(k, clock) : slotAt[w] < t}) < n
    /\ n <= Cardinality({w \in Live(k, clock) : slotAt[w] <= t})

WindowReady(k) ==
  IF Load(k) < rpm[k] THEN clock
  ELSE Stamp(k, Load(k) - rpm[k] + 1) + Window

ReadyAt(k) ==
  IF WindowReady(k) >= cooldown[k] THEN WindowReady(k) ELSE cooldown[k]

\* How long reserve tells the dispatcher to wait when no lane is open.
SoonestWait ==
  LET waits == {Window} \cup {ReadyAt(k) - clock : k \in enabled}
  IN CHOOSE d \in waits : \A e \in waits : d <= e

-----------------------------------------------------------------------------
(* The dispatcher task: one waiter at a time, in arrival order.            *)

Init ==
  /\ clock = 0
  /\ order = InitOrder /\ enabled = Elements(InitOrder) /\ rpm = InitRpm
  /\ sent = [k \in Key |-> {}] /\ cooldown = [k \in Key |-> 0] /\ gen = 0
  /\ queue = <<>> /\ serving = NoJob /\ phase = "idle" /\ wakeAt = 0
  /\ st = [w \in Waiter |-> "new"]
  /\ slotKey = [w \in Waiter |-> NoKey] /\ slotAt = [w \in Waiter |-> 0]
  /\ slotGen = [w \in Waiter |-> 0] /\ arrived = [w \in Waiter |-> 0]
  /\ charged = [k \in Key |-> {}] /\ told = [k \in Key |-> 0]

\* struct Waiter, and the one being served.
Job == [id : Waiter, deadline : Nat, prefer : Nat]
Me == serving.id

RecvNewest ==                                                      \* mutant
  /\ phase = "idle" /\ queue # <<>>
  /\ serving' = queue[Len(queue)] /\ queue' = SubSeq(queue, 1, Len(queue) - 1)
  /\ phase' = "poll"
  /\ UNCHANGED <<clock, pool, wakeAt, st, slot, charged, told>>

\* queue.recv().await
Recv ==
  /\ phase = "idle" /\ queue # <<>>
  /\ serving' = Head(queue) /\ queue' = Tail(queue)
  /\ phase' = "poll"
  /\ UNCHANGED <<clock, pool, wakeAt, st, slot, charged, told>>

HeadClosedKeepsPolling ==                                          \* mutant
  /\ phase = "poll" /\ st[Me] = "gone"
  /\ serving' = NoJob
  /\ UNCHANGED <<clock, pool, queue, phase, wakeAt, st, slot, charged, told>>

\* reply.is_closed(): the client hung up while queued.
HeadClosed ==
  /\ phase = "poll" /\ st[Me] = "gone"
  /\ serving' = NoJob /\ phase' = "idle"
  /\ UNCHANGED <<clock, pool, queue, wakeAt, st, slot, charged, told>>

\* reserve under the read guard finds an open lane: it drops the expired
\* stamps of every lane it visits and stamps the chosen one.  The slot is in
\* the task's hand; a settings commit or a hang-up may come before the send.
Reserve(k) ==
  /\ phase = "poll" /\ st[Me] = "queued" /\ Chosen(serving, k)
  /\ sent' = [j \in Key |->
       IF j = k THEN Live(j, clock) \cup {Me}
       ELSE IF j \in enabled /\ k # PreferredLane(serving)
       THEN Live(j, clock) ELSE sent[j]]
  /\ slotKey' = [slotKey EXCEPT ![Me] = k]
  /\ slotAt' = [slotAt EXCEPT ![Me] = clock]
  /\ slotGen' = [slotGen EXCEPT ![Me] = gen]
  /\ charged' = [charged EXCEPT ![k] = @ \cup {Me}]
  /\ phase' = "send"
  /\ UNCHANGED <<clock, order, enabled, rpm, cooldown, gen, queue, serving,
                 wakeAt, st, arrived, told>>

PruneEnabled ==
  sent' = [k \in Key |-> IF k \in enabled THEN Live(k, clock) ELSE sent[k]]

\* No slot can open before the waiter's deadline: its reply is dropped.
Expire ==
  /\ phase = "poll" /\ st[Me] = "queued" /\ ReadyLanes = {}
  /\ clock + SoonestWait > serving.deadline
  /\ PruneEnabled
  /\ st' = [st EXCEPT ![Me] = "failed"]
  /\ serving' = NoJob /\ phase' = "idle"
  /\ UNCHANGED <<clock, order, enabled, rpm, cooldown, gen, queue, wakeAt,
                 slot, charged, told>>

\* A slot opens in time: sleep that long, but look again after PollCap.
Sleep(wait) ==
  /\ phase = "poll" /\ st[Me] = "queued" /\ ReadyLanes = {}
  /\ wait = SoonestWait /\ clock + wait <= serving.deadline
  /\ PruneEnabled
  /\ wakeAt' = clock + (IF wait <= PollCap THEN wait ELSE PollCap)
  /\ phase' = "sleep"
  /\ UNCHANGED <<clock, order, enabled, rpm, cooldown, gen, queue, serving,
                 st, slot, charged, told>>

\* reply.send(slot) succeeds; the task pauses for GRANT_GAP.
Deliver ==
  /\ phase = "send" /\ st[Me] = "queued"
  /\ st' = [st EXCEPT ![Me] = "delivered"]
  /\ serving' = NoJob /\ phase' = "gap" /\ wakeAt' = clock + GrantGap
  /\ UNCHANGED <<clock, pool, queue, slot, charged, told>>

\* Pool::release on the pool that granted.  When that pool has been replaced
\* the live one keeps the copy of the stamp it inherited.
KeepSlot(k) == sent[k]                                             \* mutant
WithoutSlot(k) == IF slotGen[Me] = gen THEN sent[k] \ {Me} ELSE sent[k]

\* reply.send(slot) fails: the slot goes back.
Release ==
  /\ phase = "send" /\ st[Me] = "gone"
  /\ LET k == slotKey[Me] IN
       /\ sent' = [sent EXCEPT ![k] = WithoutSlot(k)]
       /\ charged' = [charged EXCEPT ![k] = @ \ {Me}]
  /\ serving' = NoJob /\ phase' = "idle"
  /\ UNCHANGED <<clock, order, enabled, rpm, cooldown, gen, queue, wakeAt,
                 st, slot, told>>

WakeToIdle ==                                                      \* mutant
  /\ phase \in {"sleep", "gap"} /\ wakeAt <= clock
  /\ phase' = "idle"
  /\ UNCHANGED <<clock, pool, queue, serving, wakeAt, st,
                 slot, charged, told>>

Wake ==
  /\ phase \in {"sleep", "gap"} /\ wakeAt <= clock
  /\ phase' = IF phase = "sleep" THEN "poll" ELSE "idle"
  /\ UNCHANGED <<clock, pool, queue, serving, wakeAt, st,
                 slot, charged, told>>

-----------------------------------------------------------------------------
(* The callers.                                                            *)

Acquire(w, d, p) ==
  /\ st[w] = "new" /\ \A v \in 1..(w - 1) : st[v] # "new"
  /\ clock <= d
  /\ st' = [st EXCEPT ![w] = "queued"]
  /\ queue' = Append(queue, [id |-> w, deadline |-> d, prefer |-> p])
  /\ UNCHANGED <<clock, pool, serving, phase, wakeAt, slot, charged, told>>

\* Dropping the receiver: while queued, or with the slot already in the
\* channel, which is then dropped unread.
Abandon(w) ==
  /\ st[w] \in {"queued", "delivered"}
  /\ st' = [st EXCEPT ![w] = "gone"]
  /\ UNCHANGED <<clock, pool, task, slot, charged, told>>

\* The caller takes its slot and sends at once; the request reaches the
\* upstream within Jitter of the grant (the environment assumption that
\* WINDOW's padding makes).
Arrive(w) ==
  /\ st[w] = "delivered" /\ clock <= slotAt[w] + Jitter
  /\ st' = [st EXCEPT ![w] = "sent"]
  /\ arrived' = [arrived EXCEPT ![w] = clock]
  /\ UNCHANGED <<clock, pool, task, slotKey, slotAt, slotGen,
                 charged, told>>

\* Pool::penalize on the pool that granted; on a replaced pool it changes
\* nothing anyone reads.
Penalize(w, backoff) ==
  LET k == slotKey[w] until == clock + backoff IN
  /\ cooldown' = [cooldown EXCEPT ![k] =
       IF slotGen[w] = gen /\ @ < until THEN until ELSE @]
  /\ told' = [told EXCEPT ![k] = IF @ < until THEN until ELSE @]

\* A request that never reached the upstream cools its lane.
ConnectFails(w, backoff) ==
  /\ st[w] = "delivered"
  /\ st' = [st EXCEPT ![w] = "unsent"]
  /\ Penalize(w, backoff)
  /\ UNCHANGED <<clock, order, enabled, rpm, sent, gen, task,
                 slot, charged>>

\* The upstream answers 429/5xx: back off.  Any other answer leaves the pool
\* alone.
Rejected(w, backoff) ==
  /\ st[w] = "sent"
  /\ st' = [st EXCEPT ![w] = "done"]
  /\ Penalize(w, backoff)
  /\ UNCHANGED <<clock, order, enabled, rpm, sent, gen, task,
                 slot, charged>>

-----------------------------------------------------------------------------
(* Settings commits: Pool::rebuild under the write lock.  A key kept by the *)
(* new configuration, enabled or not, keeps its window and its cooldown; a  *)
(* new key starts empty; a removed key is forgotten.  The commit is refused *)
(* when it would leave no enabled key (the pool floor).                     *)

KeptEnabled(newOrder) == enabled \cap Elements(newOrder)           \* mutant
Kept(newOrder) == Elements(order) \cap Elements(newOrder)

Rebuild(newOrder, newEnabled, newRpm) ==
  /\ gen < MaxGen /\ newEnabled # {}
  /\ gen' = gen + 1
  /\ order' = newOrder /\ enabled' = newEnabled /\ rpm' = newRpm
  /\ sent' = [k \in Key |-> IF k \in Kept(newOrder) THEN sent[k] ELSE {}]
  /\ cooldown' = [k \in Key |->
       IF k \in Kept(newOrder) THEN cooldown[k]
       ELSE IF k \in Elements(newOrder) THEN clock ELSE 0]
  /\ charged' = [k \in Key |->
       IF k \in Elements(order) \cap Elements(newOrder) THEN charged[k] ELSE {}]
  /\ UNCHANGED <<clock, task, st, slot, told>>

AddKey(k, r) ==
  /\ k \notin Elements(order)
  /\ Rebuild(Append(order, k), enabled \cup {k}, [rpm EXCEPT ![k] = r])

RemoveKey(i) ==
  /\ i \in DOMAIN order
  /\ Rebuild(SubSeq(order, 1, i - 1) \o SubSeq(order, i + 1, Len(order)),
             enabled \ {order[i]}, rpm)

SetEnabled(k, on) ==
  /\ k \in Elements(order)
  /\ Rebuild(order, IF on THEN enabled \cup {k} ELSE enabled \ {k}, rpm)

SetRpm(k, r) ==
  /\ k \in Elements(order)
  /\ Rebuild(order, enabled, [rpm EXCEPT ![k] = r])

Tick ==
  /\ clock < Horizon \/ (phase \in {"sleep", "gap"} /\ clock < wakeAt)
  /\ clock' = clock + 1
  /\ UNCHANGED <<pool, task, st, slot, charged, told>>

-----------------------------------------------------------------------------
Dispatcher ==
  \/ Recv \/ HeadClosed \/ Expire \/ Deliver \/ Release \/ Wake
  \/ \E k \in Key : Reserve(k)
  \/ \E d \in 1..Window : Sleep(d)

Caller ==
  \E w \in Waiter :
    \/ \E d \in Deadlines, p \in Prefers : Acquire(w, d, p)
    \/ Abandon(w)
    \/ Arrive(w)
    \/ \E b \in Backoffs : ConnectFails(w, b) \/ Rejected(w, b)

Settings ==
  \/ \E i \in DOMAIN order : RemoveKey(i)
  \/ \E k \in Key :
       \/ \E r \in Rpms : AddKey(k, r) \/ SetRpm(k, r)
       \/ \E on \in BOOLEAN : SetEnabled(k, on)

Next == Dispatcher \/ Caller \/ Settings \/ Tick

Spec == Init /\ [][Next]_vars

\* tokio keeps the task running and its timers fire; nothing is assumed of
\* callers, operators or the upstream.
FairSpec == Spec /\ WF_vars(Dispatcher) /\ WF_vars(Tick)

\* A machine fast enough that the task always runs at once: time passes only
\* while it sleeps or has nobody to serve.
PromptSpec ==
  Init /\ [][/\ Next
             /\ clock' # clock =>
                  \/ phase = "idle" /\ queue = <<>>
                  \/ phase \in {"sleep", "gap"} /\ clock < wakeAt]_vars

-----------------------------------------------------------------------------
(* Properties.                                                             *)

States == {"new", "queued", "delivered", "sent", "unsent", "done", "failed", "gone"}

\* Every variable has the shape the code gives it; a task that is polling,
\* sleeping or sending serves a waiter.
TypeOK ==
  /\ clock \in Nat
  /\ order \in Seq(Key) /\ enabled \subseteq Key /\ rpm \in [Key -> 1..RpmMax]
  /\ sent \in [Key -> SUBSET Waiter] /\ cooldown \in [Key -> Nat] /\ gen \in Nat
  /\ queue \in Seq(Job) /\ serving \in Job \cup {NoJob}
  /\ phase \in {"idle", "poll", "sleep", "send", "gap"} /\ wakeAt \in Nat
  /\ phase \in {"poll", "sleep", "send"} => serving \in Job
  /\ st \in [Waiter -> States]
  /\ slotKey \in [Waiter -> Key \cup {NoKey}] /\ slotAt \in [Waiter -> Nat]
  /\ slotGen \in [Waiter -> Nat] /\ arrived \in [Waiter -> Nat]
  /\ charged \in [Key -> SUBSET Waiter] /\ told \in [Key -> Nat]

\* A grant never exceeds the key's budget: with the new slot, the slots taken
\* on the key inside the padded window are at most its rpm at that moment,
\* whatever commits (disable, re-enable, rpm change), hang-ups and releases
\* came before (pool.rs "a kept key can never be double-spent across a swap;
\* a lowered rpm is honored immediately").
GrantWithinBudget ==
  [][\A k \in Key :
       ~(charged'[k] \subseteq charged[k])
         => Cardinality({w \in charged'[k] : clock < slotAt'[w] + Window})
              <= rpm[k]]_vars

Arrived == {w \in Waiter : st[w] \in {"sent", "done"}}

\* What the padded WINDOW is for: in no rolling window of the upstream do more
\* than the largest budget's worth of a key's requests arrive, although each
\* may be delayed by up to Jitter after its grant.
UpstreamQuota ==
  \A k \in Key : \A v \in charged[k] \cap Arrived :
    Cardinality({w \in charged[k] \cap Arrived :
                   /\ arrived[w] <= arrived[v]
                   /\ arrived[v] < arrived[w] + UpstreamWindow}) <= RpmMax

\* Under contention slots go out strictly in arrival order (dispatch.rs 1-4):
\* when a request is granted, every earlier one has been granted, has failed
\* at its own deadline, or has left.
InArrivalOrder ==
  \A w \in Waiter : st[w] = "delivered" => \A v \in 1..(w - 1) : st[v] # "queued"

\* Capacity is not lost: a stamp in the live pool belongs to a slot taken and
\* not returned, unless a commit came between its reservation and its return
\* (dispatch.rs: "a slot granted to an abandoned waiter is returned").
SlotsAccounted ==
  \A k \in Key : \A w \in sent[k] : w \in charged[k] \/ slotGen[w] < gen

\* The wait reserve reports is the exact time until some lane opens if nothing
\* else happens (at most a window), also for a lane whose budget was lowered
\* below what it already sent; fail-fast and the sleep both rest on it.
WaitIsExact ==
  ReadyLanes = {} =>
    LET OpensIn(d) == \E k \in enabled :
          /\ cooldown[k] <= clock + d
          /\ Cardinality(Live(k, clock + d)) < rpm[k]
    IN /\ \A d \in 1..(SoonestWait - 1) : ~OpensIn(d)
       /\ SoonestWait = Window \/ OpensIn(SoonestWait)
       /\ SoonestWait \in 1..Window

\* A commit never shortens the rest of a key it keeps, enabled or carrier.
CooldownKept ==
  [][\A k \in Elements(order) :
       k \in Elements(order') => cooldown'[k] >= cooldown[k]]_vars

\* Every queued request is eventually answered: granted, failed or gone.
Resolved == \A w \in Waiter : st[w] = "queued" ~> st[w] # "queued"

\* dispatch.rs on acquire: "The receiver resolves to a reserved Slot, or
\* errors if no slot can open before `deadline`".
GrantedInTime == phase = "send" => slotAt[Me] <= serving.deadline

\* dispatch.rs on acquire: "a slot granted to an abandoned waiter is returned
\* to the pool".
AbandonedSlotReturned ==
  \A k \in Key : \A w \in Live(k, clock) :
    (st[w] = "gone" /\ phase # "send") => slotGen[w] < gen

\* dispatch.rs: "a late op on a retired pool is benign because nothing
\* consults it anymore" -- so a key the upstream asked to rest is not granted
\* before its rest is over.
PenaltyHonoured ==
  [][\A k \in Key : ~(charged'[k] \subseteq charged[k]) => told[k] <= clock]_vars
=============================================================================
