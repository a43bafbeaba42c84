------------------------------ MODULE Selection ------------------------------
(***************************************************************************)
(* Which provider a request goes to, and as which model: the provider         *)
(* definitions of providers.rs, select and the strategies of router.rs over   *)
(* the health map of health.rs, the empty-completion strikes, and the merged  *)
(* /v1/models listing of proxy.rs that shows them.                           *)
(*                                                                         *)
(* select takes its locks one after the other: strategy, pin, the runtimes,   *)
(* each candidate's health, circuit and latency are read in steps of their    *)
(* own, and outcomes, probes, settings saves and other requests come between. *)
(* What the failover loop does with the candidates is Routing's; when a       *)
(* circuit opens is too.                                                     *)
(***************************************************************************)
EXTENDS Integers, Sequences, FiniteSets, SequencesExt, FiniteSetsExt, Functions

CONSTANTS
  Task, Session, Provider, Model, None,
  Wild, Free,        \* the model names "*" and "free"
  Upstream,          \* "nvidia", whose catalogue /v1/models relays
  Env,               \* the process environment: variable -> key material
  Stores,            \* bound: the configurations settings may save
  Elo,               \* restored ratings; nothing in production changes one
  Restored,          \* bound: health, latencies, circuits and pins a boot may find
  Samples,           \* bound: latencies an attempt may show, in ms
  Period,            \* the round-robin counter is kept modulo Period
  Ttl, Decay,        \* sticky_ttl, EMPTY_STRIKE_DECAY
  MaxNow, MaxEvents  \* bounds on time, and on outcomes, probes and saves

\* The configurations: a strategy, and definitions with keys, in order.
Strategy == {"hybrid", "ast_race", "sticky_affinity", "weighted_elo", "least_latency",
             "round_robin", "free", "circuit_chain"}
ProviderKey(k) ==
  {"key", "env"} \subseteq DOMAIN k /\ k.enabled \in BOOLEAN /\ k.rpm \in Nat
ProviderDef(d) ==
  /\ d.name \in Provider /\ {d.enabled, d.noAuth, d.free} \subseteq BOOLEAN
  /\ {d.rpm, d.weight} \subseteq Nat
  /\ d.keys \in Seq(ToSet(d.keys)) /\ \A k \in ToSet(d.keys) : ProviderKey(k)
  /\ d.models \in Seq(Model \cup {Wild, Free})
  /\ DOMAIN d.map \subseteq Model \cup {Free}

\* validate_providers: no two definitions have the same name.
Valid(s) ==
  /\ s.strategy \in Strategy /\ s.defs \in Seq(ToSet(s.defs))
  /\ \A d \in ToSet(s.defs) : ProviderDef(d)
  /\ IsInjective([i \in DOMAIN s.defs |-> s.defs[i].name])

Pin == [provider : Provider, expires : Nat]

ASSUME SelectionAssumption ==
  /\ \A s \in Stores : Valid(s)
  /\ Upstream \in Provider /\ IsFiniteSet(Provider) /\ {Wild, Free} \cap Model = {}
  /\ Elo \in [Provider -> Int] /\ Samples \subseteq Nat /\ IsFiniteSet(Samples)
  /\ \A r \in Restored :
       /\ r.healthy \in [Provider -> BOOLEAN \cup {None}] /\ r.open \subseteq Provider
       /\ r.latency \in [Provider -> Samples \cup {None}] /\ r.pin \in [Session -> Pin \cup {None}]
  /\ Period \in Nat \ {0} /\ \A n \in 1..Cardinality(Provider) : Period % n = 0
  /\ \A n \in {Ttl, Decay, MaxNow, MaxEvents} : n \in Nat \ {0}

VARIABLES
  store,        \* the configuration the router was last rebuilt from
  healthy, latency, open,    \* health map, and the circuits that are open
  pin,          \* stickies: session -> provider and expiry
  counter,      \* RR
  strikes,      \* <<provider, model>> -> strikes and the time of the last
  catalog,      \* the last /v1/models listing
  task, now, events,
  calm,         \* by task, the providers that nothing has happened to since its
                \* select took the runtimes
  turns,        \* history: who led the latest round-robin orders of one list
  streak        \* history: strikes with less than Decay between them

state == <<healthy, latency, open, pin>>
selection == <<store, state, counter, strikes, catalog, task, now, events, calm, turns, streak>>

-----------------------------------------------------------------------------
\* The members of a list that are in T, in their order.
Filtered(s, T) ==
  LET F[i \in 0..Len(s)] ==
        IF i = 0 THEN <<>>
        ELSE IF s[i] \in T THEN Append(F[i - 1], s[i]) ELSE F[i - 1]
  IN  F[Len(s)]

\* Provider definitions.

\* resolve_key_material: the literal key, else the environment.
Material(k) == IF k.key # None THEN k.key
               ELSE IF k.env \in DOMAIN Env THEN Env[k.env] ELSE None

RpmFor(d, k) == IF k.rpm > 0 THEN k.rpm ELSE IF d.rpm > 0 THEN d.rpm
                ELSE IF d.free THEN 10 ELSE 60

Usable(d) == d.enabled /\ (d.noAuth \/ \E i \in DOMAIN d.keys :
                                         d.keys[i].enabled /\ Material(d.keys[i]) # None)

\* lane_specs: one lane for each key material, the first key that has it.
\* Mutant of Listed: keys that resolve to one material get a lane each.
ListedTwice(lanes, m) == FALSE
Listed(lanes, m) == \E i \in DOMAIN lanes : lanes[i].key = m
AddLane(lanes, d, k) ==
  IF Material(k) = None \/ Listed(lanes, Material(k)) THEN lanes
  ELSE Append(lanes, [key |-> Material(k), rpm |-> RpmFor(d, k), enabled |-> k.enabled])
LaneSpecs(d) ==
  LET Lanes[n \in 0..Len(d.keys)] ==
        IF n = 0 THEN <<>> ELSE AddLane(Lanes[n - 1], d, d.keys[n])
  IN  Lanes[Len(d.keys)]

Serves(d, m) == \E i \in DOMAIN d.models : d.models[i] \in {Wild, m}
MapModel(d, m) == IF m \in DOMAIN d.map THEN d.map[m] ELSE m

\* The upstream's name for the model; "free" stands for a default one.
RouteModel(d, m) ==
  IF m # Free THEN MapModel(d, m)
  ELSE IF Free \in DOMAIN d.map THEN d.map[Free]
  ELSE IF d.models # <<>> THEN Head(d.models) ELSE m

\* The runtimes: one for each enabled definition, in the store's order.
Active(s) == {d \in ToSet(s.defs) : d.enabled}
Runtimes == {d.name : d \in Active(store)}
Order == Filtered([i \in DOMAIN store.defs |-> store.defs[i].name], Runtimes)
Def(p) == CHOOSE d \in Active(store) : d.name = p

-----------------------------------------------------------------------------
\* select, one step for each lock it takes.  A request keeps the names it looks
\* at, how far it is (n), which of them have passed (ok), the latencies it has
\* read, and the definitions that each provider has had meanwhile (defs): a save
\* rewrites the definitions of running providers one by one and in place, so
\* each read of one finds any of those.

GetSticky(s) == IF pin[s] # None /\ pin[s].expires > now THEN pin[s].provider ELSE None

Idle == [at |-> "idle"]
Asking(c) == [at |-> "lock", session |-> c.session, model |-> c.model, strategy |-> c.strategy]
Looking(c, pinned, names) ==
  [at |-> "health", session |-> c.session, model |-> c.model, strategy |-> c.strategy,
   pinned |-> pinned, names |-> names, n |-> 1, ok |-> {}, lats |-> [p \in Provider |-> None],
   defs |-> [p \in Runtimes |-> {Def(p)}]]

Hybrids == {"hybrid", "sticky_affinity", "circuit_chain"}
Rts(c) == Filtered(c.names, c.ok)
Measuring(c) == ~c.pinned /\ c.strategy \in Hybrids

\* The next name, or what follows the last.
Past(c, ok) ==
  IF c.n < Len(c.names) THEN [c EXCEPT !.at = "health", !.n = @ + 1, !.ok = ok]
  ELSE IF ok # {} THEN [c EXCEPT !.at = IF Measuring(c) THEN "measure" ELSE "order",
                                 !.n = 1, !.ok = ok]
  ELSE IF c.pinned THEN Asking(c) ELSE Idle

\* The strategy: "free" is a directive, everything else the configuration's.
Arrive(t, s, m) ==
  LET strategy == IF m = Free THEN "free" ELSE store.strategy IN
  /\ task[t] = Idle /\ events > 0
  /\ events' = events - 1
  /\ task' = [task EXCEPT ![t] =
       [at |-> IF strategy = "sticky_affinity" THEN "pin" ELSE "lock",
        session |-> s, model |-> m, strategy |-> strategy]]
  /\ UNCHANGED <<store, state, counter, strikes, catalog, now, turns, streak>>

SelectPinned(t) ==
  LET p == GetSticky(task[t].session) IN
  /\ task[t].at = "pin"
  /\ task' = [task EXCEPT ![t] =
       IF p = None THEN Asking(@)
       ELSE [at |-> "runtime", session |-> @.session, model |-> @.model,
             strategy |-> @.strategy, provider |-> p]]
  /\ UNCHANGED <<store, state, counter, strikes, catalog, now, events, turns, streak>>

\* The pinned provider's runtime, with no lock kept while it is looked at.
FindPinned(t) ==
  LET p == task[t].provider IN
  /\ task[t].at = "runtime"
  /\ task' = [task EXCEPT ![t] = IF p \in Runtimes /\ Usable(Def(p))
                                 THEN Looking(@, TRUE, <<p>>) ELSE Asking(@)]
  /\ UNCHANGED <<store, state, counter, strikes, catalog, now, events, turns, streak>>

\* Runtimes and order, both read-locked until every name has been looked at:
\* no save comes between, so that usable may be asked of all at once.
Collect(t) ==
  LET names == Filtered(Order, {p \in Runtimes : Usable(Def(p))}) IN
  /\ task[t].at = "lock"
  /\ task' = [task EXCEPT ![t] = IF names = <<>> THEN Idle ELSE Looking(@, FALSE, names)]
  /\ UNCHANGED <<store, state, counter, strikes, catalog, now, events, turns, streak>>
Locked(t) == task[t].at \in {"health", "circuit"} /\ ~task[t].pinned

CheckHealth(t) ==
  LET c == task[t] IN
  /\ c.at = "health"
  /\ task' = [task EXCEPT ![t] = IF healthy[c.names[c.n]] = FALSE THEN Past(c, c.ok)
                                 ELSE [c EXCEPT !.at = "circuit"]]
  /\ UNCHANGED <<store, state, counter, strikes, catalog, now, events, turns, streak>>

CheckCircuit(t) ==
  LET c == task[t]  p == c.names[c.n] IN
  /\ c.at = "circuit"
  /\ task' = [task EXCEPT ![t] = Past(c, IF p \in open THEN c.ok ELSE c.ok \cup {p})]
  /\ UNCHANGED <<store, state, counter, strikes, catalog, now, events, turns, streak>>

\* order_hybrid reads each latency once, before it sorts.
Measure(t) ==
  LET c == task[t]  p == Rts(c)[c.n] IN
  /\ c.at = "measure"
  /\ task' = [task EXCEPT ![t] =
       [c EXCEPT !.lats[p] = latency[p], !.n = @ + 1,
                 !.at = IF c.n = Len(Rts(c)) THEN "order" ELSE "measure"]]
  /\ UNCHANGED <<store, state, counter, strikes, catalog, now, events, turns, streak>>

-----------------------------------------------------------------------------
\* Strategies: the orders each may give to a sequence of providers.

Faster(lats, p, q) == lats[p] # None /\ (lats[q] = None \/ lats[p] < lats[q])
Stronger(lats, p, q) == lats[p] = None /\ lats[q] = None /\ Elo[p] > Elo[q]

\* A stable sort by a relation: each place is taken by the member that has as
\* many others before it.
Earlier(rts, before, i, j) ==
  <<rts[i], rts[j]>> \in before \/ (<<rts[j], rts[i]>> \notin before /\ i < j)
Rank(rts, before, i) ==
  Cardinality({j \in DOMAIN rts : j # i /\ Earlier(rts, before, j, i)}) + 1
Sorted(rts, before) ==
  [n \in DOMAIN rts |-> rts[CHOOSE i \in DOMAIN rts : Rank(rts, before, i) = n]]

\* Mutant of OrderHybrid: an unknown latency counts as none.
OrderHybridZero(lats, rts) ==
  Sorted(rts, {x \in Provider \X Provider :
                 Faster(lats, x[2], x[1]) \/ Stronger(lats, x[1], x[2])})
OrderHybrid(lats, rts) ==
  Sorted(rts, {x \in Provider \X Provider :
                 Faster(lats, x[1], x[2]) \/ Stronger(lats, x[1], x[2])})

\* The comparator reads the latencies anew each time.  While they stay the
\* result is sorted; a sort whose comparisons disagree leaves any order.
OrderLatency(t, rts) ==
  IF ToSet(rts) \subseteq calm[t]
  THEN {Sorted(rts, {x \in Provider \X Provider : Faster(latency, x[1], x[2])})}
  ELSE SetToSeqs(ToSet(rts))

\* Providers without weight are drawn last, but the first may be drawn by a
\* roll of zero.
OrderElo(defs, rts) ==
  LET place(p) == CHOOSE i \in DOMAIN rts : rts[i] = p IN
  {s \in SetToSeqs(ToSet(rts)) : \A i \in DOMAIN s :
     \/ \E d \in defs[s[i]] : d.weight > 0
     \/ \A j \in i..Len(s) : place(s[i]) <= place(s[j])}

\* Mutant of OrderRoundRobin: the counter advances, the start does not.
OrderRoundRobinHalf(rts) ==
  [i \in DOMAIN rts |-> rts[((counter \div 2 + i - 1) % Len(rts)) + 1]]
OrderRoundRobin(rts) == [i \in DOMAIN rts |-> rts[((counter + i - 1) % Len(rts)) + 1]]

\* A filter on definitions lets those through that pass under every definition
\* that may be read, and any of those that pass under some.  Candidates are
\* scoped to the model; a pin and "free" are not.
Between(low, high) == {S \in SUBSET high : low \subseteq S}
Scoped(c, d) == c.pinned \/ c.model = Free \/ Serves(d, c.model)
Scopes(c) ==
  {Filtered(c.names, S) :
     S \in Between({p \in c.ok : \A d \in c.defs[p] : Scoped(c, d)},
                   {p \in c.ok : \E d \in c.defs[p] : Scoped(c, d)})}
FreeOnes(c, rts) ==
  {Filtered(rts, S) :
     S \in Between({p \in ToSet(rts) : \A d \in c.defs[p] : d.free},
                   {p \in ToSet(rts) : \E d \in c.defs[p] : d.free})}

Ordered(t, rts) ==
  LET c == task[t] IN
  IF c.pinned THEN {rts}
  ELSE CASE c.strategy \in Hybrids        -> {OrderHybrid(c.lats, rts)}
         [] c.strategy = "ast_race"      -> {rts}
         [] c.strategy = "weighted_elo"  -> OrderElo(c.defs, rts)
         [] c.strategy = "least_latency" -> OrderLatency(t, rts)
         [] c.strategy = "round_robin"   -> {OrderRoundRobin(rts)}
         [] c.strategy = "free"          -> FreeOnes(c, rts)

Candidates(c, list) ==
  LET Names(p) == {RouteModel(d, c.model) : d \in c.defs[p]}
      T == ToSet(list)
  IN  {[i \in DOMAIN list |-> [provider |-> list[i], model |-> f[list[i]]]] :
         f \in {f \in [T -> UNION {Names(p) : p \in T}] : \A p \in T : f[p] \in Names(p)}}

Led(list, leader) ==
  LET before == IF turns.list = list THEN turns.leaders ELSE <<>>
      latest == IF Len(before) < Len(list) THEN before ELSE Tail(before)
  IN  [list |-> list, leaders |-> Append(latest, leader)]

\* Scoping, the strategy's order and the upstream's names: of what may change
\* they read definitions and, for round robin, the shared counter, once.
Settled(t, cands) ==
  task' = [task EXCEPT ![t] = IF cands = <<>> THEN Idle
             ELSE [at |-> "routed", session |-> @.session, model |-> @.model,
                   strategy |-> @.strategy, cands |-> cands]]
SelectOrdered(t) ==
  /\ task[t].at = "order"
  /\ \E rts \in Scopes(task[t]) :
       IF rts = <<>> THEN Settled(t, <<>>) /\ UNCHANGED <<counter, turns>>
       ELSE \E list \in Ordered(t, rts) :
              /\ \E cands \in Candidates(task[t], list) : Settled(t, cands)
              /\ IF task[t].strategy = "round_robin"
                 THEN /\ counter' = (counter + 1) % Period
                      /\ turns' = Led(rts, list[1])
                 ELSE UNCHANGED <<counter, turns>>
  /\ UNCHANGED <<store, state, strikes, catalog, now, events, streak>>

-----------------------------------------------------------------------------
\* Outcomes.

\* record_latency: an average of 0.7 new and 0.3 old.
\* Mutant of Averaged: weights that add up to more than one.
AveragedMore(p, ms) ==
  [latency EXCEPT ![p] = IF @ = None THEN ms ELSE (7 * ms + 4 * @) \div 10]
Averaged(p, ms) ==
  [latency EXCEPT ![p] = IF @ = None THEN ms ELSE (7 * ms + 3 * @) \div 10]

Occurs(p) == events > 0 /\ events' = events - 1 /\ p \in Runtimes
Outcome(t, p) == task[t].at = "routed" /\ Occurs(p)
                 /\ \E i \in DOMAIN task[t].cands : task[t].cands[i].provider = p

\* finish_success: latency, health, and under sticky affinity the pin.
FinishSuccess(t, p, ms) ==
  /\ Outcome(t, p)
  /\ latency' = Averaged(p, ms) /\ healthy' = [healthy EXCEPT ![p] = TRUE]
  /\ pin' = IF task[t].strategy = "sticky_affinity"
            THEN [pin EXCEPT ![task[t].session] = [provider |-> p, expires |-> now + Ttl]]
            ELSE pin
  /\ task' = [task EXCEPT ![t] = Idle]
  /\ UNCHANGED <<store, open, counter, strikes, catalog, now, turns, streak>>

\* finish_failure: the circuit may open; the loop goes on.
FinishFailure(t, p) ==
  /\ Outcome(t, p)
  /\ healthy' = [healthy EXCEPT ![p] = FALSE]
  /\ open' \in {open, open \cup {p}}
  /\ UNCHANGED <<store, latency, pin, counter, strikes, catalog, task, now, turns, streak>>

\* acquire on a candidate whose circuit has opened since: its timeout over,
\* the circuit is half-open.
Trial(t, p) ==
  /\ Outcome(t, p) /\ p \in open
  /\ open' = open \ {p}
  /\ UNCHANGED <<store, healthy, latency, pin, counter, strikes, catalog, task, now, turns,
                 streak>>

\* record_empty_strike.
Since(pair) == now - strikes[pair].at
Fresh(pair) == strikes[pair] # None /\ Since(pair) < Decay
Struck(pair) == [n |-> IF strikes[pair] = None THEN 1 ELSE strikes[pair].n + 1, at |-> now]

RecordEmptyStrike(t, i) ==
  LET c == task[t].cands[i]  pair == <<c.provider, c.model>> IN
  /\ Outcome(t, c.provider)
  /\ strikes' = [strikes EXCEPT ![pair] = Struck(pair)]
  /\ streak' = [streak EXCEPT ![pair] = IF Fresh(pair) THEN @ + 1 ELSE 1]
  /\ UNCHANGED <<store, state, counter, catalog, task, now, turns>>

\* The request ends otherwise: a client error, no answer, no retry left.
GiveUp(t) ==
  /\ task[t].at = "routed"
  /\ task' = [task EXCEPT ![t] = Idle]
  /\ UNCHANGED <<store, state, counter, strikes, catalog, now, events, turns, streak>>

\* probe_once, and record_attempt of the streaming path.
Observed(p, good, ms) ==
  /\ Occurs(p)
  /\ healthy' = [healthy EXCEPT ![p] = good]
  /\ latency' = IF ms = None THEN latency ELSE Averaged(p, ms)
  /\ UNCHANGED <<store, pin, counter, strikes, catalog, task, now, turns, streak>>

Probe(p, good, ms) ==
  Usable(Def(p)) /\ Observed(p, good, IF good THEN ms ELSE None) /\ UNCHANGED open
RecordAttempt(good, ms) ==
  /\ Observed(Upstream, good, ms)
  /\ open' \in IF good THEN {open} ELSE {open, open \cup {Upstream}}

\* rebuild, under both write locks: health, latencies and pins stay by name, new
\* runtimes have closed circuits.  A request in select that holds a runtime
\* which is kept may read its new definition from now on; one that is removed
\* keeps its last.
Reread(c, new) ==
  IF "defs" \notin DOMAIN c THEN c
  ELSE [c EXCEPT !.defs = [p \in DOMAIN @ |->
          @[p] \cup {d \in Active(new) : d.name = p /\ p \in Runtimes}]]
Rebuild(new) ==
  LET kept == {d.name : d \in Active(new)} \cap Runtimes IN
  /\ events > 0 /\ events' = events - 1
  /\ \A t \in Task : ~Locked(t)
  /\ store' = new /\ open' = open \cap kept
  /\ task' = [t \in Task |-> Reread(task[t], new)]
  /\ UNCHANGED <<healthy, latency, pin, counter, strikes, catalog, now, turns, streak>>

-----------------------------------------------------------------------------
\* aggregate_models: the upstream's ids, then what the other providers list,
\* in the map's arbitrary order.  empty_strike_count forgets decayed strikes.

\* Mutant of Shown: decay is not looked at.
ShownRaw(pair) == IF strikes[pair] # None THEN strikes[pair].n ELSE 0
Shown(pair) == IF Fresh(pair) THEN strikes[pair].n ELSE 0
Entry(p, m) == [id |-> m, owner |-> p, strikes |-> Shown(<<p, m>>)]
\* Without a runtime of the upstream its ids stay bare, and no strike is asked.
Relayed(m) == IF Upstream \in Runtimes THEN Entry(Upstream, m)
              ELSE [id |-> m, owner |-> Upstream, strikes |-> None]

\* Mutant of Seen: an id is looked for only among its provider's own.
SeenOwn(list, p, m) == \E i \in DOMAIN list : list[i].id = m /\ list[i].owner = p
Seen(list, p, m) == \E i \in DOMAIN list : list[i].id = m

Offered(p) == Filtered(Def(p).models, ToSet(Def(p).models) \ {Wild})
AddModel(list, p, m) == IF Seen(list, p, m) THEN list ELSE Append(list, Entry(p, m))
Merge(list, p) ==
  LET models == Offered(p)
      After[n \in 0..Len(models)] ==
        IF n = 0 THEN list ELSE AddModel(After[n - 1], p, models[n])
  IN  After[Len(models)]
MergeAll(list, others) ==
  LET After[n \in 0..Len(others)] ==
        IF n = 0 THEN list ELSE Merge(After[n - 1], others[n])
  IN  After[Len(others)]

AggregateModels(ids) ==
  /\ events > 0 /\ events' = events - 1
  /\ \E others \in SetToSeqs(Runtimes \ {Upstream}) :
       catalog' = MergeAll([i \in DOMAIN ids |-> Relayed(ids[i])], others)
  /\ LET asked == {<<e.owner, e.id>> : e \in {e \in ToSet(catalog') : e.strikes # None}} IN
       strikes' = [pair \in DOMAIN strikes |->
                     IF pair \in asked /\ ~Fresh(pair) THEN None ELSE strikes[pair]]
  /\ UNCHANGED <<store, state, counter, task, now, turns, streak>>

\* Time passes, and the persistence tick drops expired pins.  A listing is not
\* remembered beyond the moment it is built.
Elapse ==
  /\ now < MaxNow /\ now' = now + 1
  /\ pin' = [s \in Session |-> IF pin[s] # None /\ pin[s].expires <= now' THEN None ELSE pin[s]]
  /\ catalog' = <<>>
  /\ UNCHANGED <<store, healthy, latency, open, counter, strikes, task, events, turns, streak>>

Pairs == Provider \X (Model \cup {Free, Wild})

\* build: the stored configuration, and what the state database gives back.
SelectionInit ==
  /\ store \in Stores
  /\ \E r \in Restored :
       /\ healthy = r.healthy /\ latency = r.latency /\ pin = r.pin
       /\ open = r.open \cap Runtimes
  /\ counter = 0 /\ strikes = [x \in Pairs |-> None] /\ catalog = <<>>
  /\ task = [t \in Task |-> Idle] /\ now = 0 /\ events = MaxEvents
  /\ calm = [t \in Task |-> Provider]
  /\ turns = [list |-> <<>>, leaders |-> <<>>] /\ streak = [x \in Pairs |-> 0]

SelectionActs ==
  \/ \E t \in Task :
       \/ \E s \in Session, m \in Model \cup {Free} : Arrive(t, s, m)
       \/ SelectPinned(t) \/ FindPinned(t) \/ Collect(t)
       \/ CheckHealth(t) \/ CheckCircuit(t) \/ Measure(t) \/ SelectOrdered(t) \/ GiveUp(t)
       \/ \E p \in Provider :
            \/ \E ms \in Samples : FinishSuccess(t, p, ms)
            \/ FinishFailure(t, p) \/ Trial(t, p)
       \/ task[t].at = "routed" /\ \E i \in DOMAIN task[t].cands : RecordEmptyStrike(t, i)
  \/ \E good \in BOOLEAN, ms \in Samples :
       RecordAttempt(good, ms) \/ \E p \in Runtimes : Probe(p, good, ms)
  \/ \E new \in Stores : Rebuild(new)
  \/ \E ids \in {<<>>} \cup {<<m>> : m \in Model} : AggregateModels(ids)
  \/ Elapse

\* What disturbs a select: a change of a provider's health, latency, circuit or
\* definition while it looks at the candidates.
InSelect(c) == "names" \in DOMAIN c
Undisturbed(p) ==
  /\ healthy'[p] = healthy[p] /\ latency'[p] = latency[p] /\ (p \in open') = (p \in open)
  /\ {d \in Active(store)' : d.name = p} = {d \in Active(store) : d.name = p}
SelectionNext ==
  /\ SelectionActs
  /\ calm' = [t \in Task |-> IF InSelect(task[t]) /\ InSelect(task'[t])
                             THEN {p \in calm[t] : Undisturbed(p)} ELSE Provider]

SelectionSpec == SelectionInit /\ [][SelectionNext]_selection

-----------------------------------------------------------------------------
\* Properties.

\* Type invariant; an averaged latency stays between the samples.
SelectionTypeOK ==
  /\ store \in Stores /\ healthy \in [Provider -> BOOLEAN \cup {None}]
  /\ \A p \in Provider : latency[p] # None => latency[p] \in Min(Samples)..Max(Samples)
  /\ open \subseteq Provider /\ counter \in 0..(Period - 1)
  /\ \A s \in Session : pin[s] # None => pin[s].provider \in Provider
  /\ \A x \in Pairs : strikes[x] # None => strikes[x].n \in Nat /\ strikes[x].at \in 0..now
  /\ \A t \in Task : task[t].at \in {"idle", "pin", "runtime", "lock", "health", "circuit",
                                  "measure", "order", "routed"}

\* Every key material has exactly one lane, also when a literal key and an
\* environment variable name the same one: no key is paced by two windows.
LanesCoverKeys ==
  \A d \in Active(store) :
    LET lanes == LaneSpecs(d)  keys == ToSet(d.keys) IN
      /\ IsInjective([n \in DOMAIN lanes |-> lanes[n].key])
      /\ {lanes[n].key : n \in DOMAIN lanes} = {Material(k) : k \in keys} \ {None}

\* What a strategy promises although every read of select comes at another
\* moment: for the providers that nothing happens to meanwhile, the outcome is
\* the one of a select without interruption.  Each of them that may serve is
\* offered and no other is, none before one the strategy prefers, whatever is
\* read of the others; a pin is followed only to a provider that may serve.  The
\* order of least_latency is only promised when none is disturbed.
CandidateOk(p) == p \in Runtimes /\ Usable(Def(p)) /\ healthy[p] # FALSE /\ p \notin open
May(c, p) ==
  /\ CandidateOk(p)
  /\ c.pinned \/ c.model = Free \/ Serves(Def(p), c.model)
  /\ c.strategy = "free" => Def(p).free
Prefers(strategy, p, q) ==
  \/ strategy \in Hybrids \cup {"least_latency"} /\ Faster(latency, p, q)
  \/ strategy \in Hybrids /\ Stronger(latency, p, q)
BestFirst ==
  \A t \in Task : InSelect(task[t]) /\ task'[t].at \in {"routed", "idle"} =>
    LET c == task[t]
        list == IF task'[t] = Idle THEN <<>>
                ELSE [i \in DOMAIN task'[t].cands |-> task'[t].cands[i].provider]
        calmly == {i \in DOMAIN list : list[i] \in calm[t]}
    IN  /\ IsInjective(list)
        /\ \A i \in calmly : May(c, list[i])
        /\ ~c.pinned => \A p \in calm[t] : May(c, p) => p \in ToSet(list)
        /\ c.strategy # "least_latency" \/ calmly = DOMAIN list =>
             \A i, j \in calmly : i < j => ~Prefers(c.strategy, list[j], list[i])

\* Concurrent requests share one round-robin counter: while the candidates
\* stay the same, each of them leads once before any leads again.
LeadsInTurn == IsInjective(turns.leaders)

\* A strike that has not decayed is never lost from the listing, although
\* looking at strikes also removes them; decayed ones are shown as none.  Only
\* ids relayed for an upstream that is switched off show nothing.
StrikesShown ==
  catalog' # catalog /\ now' = now => \A i \in DOMAIN catalog' :
    LET pair == <<catalog'[i].owner, catalog'[i].id>>  shown == catalog'[i].strikes IN
      IF catalog'[i].owner \notin Runtimes THEN shown = None
      ELSE IF Fresh(pair) THEN shown >= streak[pair] ELSE shown = 0

\* "already-listed ids are not duplicated", and every model that a provider
\* lists can be found.
ListedOnce ==
  catalog' # catalog /\ now' = now =>
    /\ IsInjective([i \in DOMAIN catalog' |-> catalog'[i].id])
    /\ \A p \in Runtimes \ {Upstream} : \A m \in ToSet(Offered(p)) :
         \E i \in DOMAIN catalog' : catalog'[i].id = m

\* router.rs: "a provider serves the request only when it lists the model (or
\* a wildcard)".
ModelScoped ==
  [][\A t \in Task : task[t].at # "routed" /\ task'[t].at = "routed" /\ task[t].model # Free =>
       \A i \in DOMAIN task'[t].cands :
         \E d \in task[t].defs[task'[t].cands[i].provider] : Serves(d, task[t].model)]_selection

\* usable: "can serve traffic right now".  A provider that is offered to
\* requests has a lane that a slot can be granted on.
UsableHasLane ==
  \A d \in Active(store) : Usable(d) =>
    LET lanes == LaneSpecs(d) IN \E n \in DOMAIN lanes : lanes[n].enabled

\* "Empty-completion strikes decay after this long without a new strike."
StrikesDecay ==
  [][catalog' # catalog /\ now' = now => \A i \in DOMAIN catalog' :
       LET pair == <<catalog'[i].owner, catalog'[i].id>> IN
         Fresh(pair) => catalog'[i].strikes \in {None, streak[pair]}]_selection

\* A request is offered the right providers in the right order although outcomes,
\* probes, settings saves and other requests come between the reads of select.
OffersSound == [][BestFirst]_selection

\* What /v1/models lists is right when it is built: each id once, with the
\* strikes that have not decayed.
ListingSound == [][StrikesShown /\ ListedOnce]_selection

\* What a client is offered is right: the providers of its request, and the
\* models to choose from.
ChoicesSound == [][BestFirst /\ StrikesShown /\ ListedOnce]_selection

\* Shared pacing is fair: one lane and one window per key, one lead per candidate
\* and turn.
LanesAndTurns == SelectionTypeOK /\ LanesCoverKeys /\ LeadsInTurn
=============================================================================
