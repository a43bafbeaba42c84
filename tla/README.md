# Flock proxy: TLA+ verification project

Flock is a proxy that pools API keys of one or more LLM providers behind one
OpenAI-compatible endpoint. Its core (`src/proxy/src/*.rs`) decides, under
concurrency, *which* key and provider a request may use and *when*. This
project models that core, checks it with TLC on small instances and proves the
central guarantees with TLAPS for every instance.

## 1. Inventory

| Part | State | Operations | Interacts with |
|---|---|---|---|
| Key pool (`pool.rs`) | per key: deque of send stamps (61 s window), cooldown, rpm; enabled lanes first, disabled ones kept as carriers | `reserve`, `release`, `penalize`, `rebuild`, persistence hooks | dispatcher (only caller of `reserve`), settings commits, state store |
| Dispatcher (`dispatch.rs`) | FIFO queue of waiters, one task | `acquire`, the task `run` | pool (through a lock that commits swap), both request paths |
| Governor (`governor.rs`) | per model: cap, in-flight count, drain gap, last exhaustion/adjustment | `admit`, permit drop, `note_exhausted`, `snapshots`, `restore` | request paths poll it; settings pin it; state store |
| Coalescer (`coalescer.rs`) | map from request digest to a watch channel and its age | `register`, `Lead::complete`, `Lead::drop`, `wait` | `execute_buffered` |
| Circuit breaker (`circuit.rs`) | closed / half-open / open, failure and success counters, opening time | `allow`, `record_success`, `record_failure` | router; streaming path records without asking |
| Token bucket (`ratelimit.rs`) | tokens per provider | `allow`, `build` | router; rebuilt by every settings save |
| Router (`router.rs`) | provider runtimes by name, order, routing knobs | `select`, `acquire`, `execute_buffered`, `finish_*`, `record_attempt`, `probe_once`, `persist_once`, `rebuild` | all of the above |
| Health map and state store (`health.rs`) | health, latency, ELO, sticky sessions; SQLite rows behind an asynchronous writer | `record_*`, `set_sticky`, writer loop, `restore` | router |
| Serving path (`proxy.rs`) | in-flight count, label sets, models cache | `handle`, `buffered`, `streaming`, `models` | router, nvidia runtime's pool, dispatcher and governor |
| Settings, setup (`settings.rs`), config store (`config.rs`) | the stored configuration, its file, a revision | `commit`, one handler per settings group, `load`, `save`, `validate` | rebuilds router and pool |
| Authentication (`auth.rs`) | login throttle, memo of header credentials; sessions are signed cookies | login, logout, `identify`, guards | settings and API handlers |
| History (`history.rs`, `history/`) | canonical file of records, index of points and gaps, retention flags and generation | open and recover, append, checkpoint, compaction, `reconfigure_retention`, rollup | sampler task, settings commits, compaction workers, dashboard |
| Observation (`observation.rs`) | per-response parser state | feed, finalise | streaming path |
| API, routes, pages (`api.rs`, `routes.rs`, `presentation.rs`) | none of their own | handlers | settings, history |
| Client key pools (`client/`) | per key cooldown and counters | pick, penalise | independent of the proxy |

What is hard here:

* **Interleaving.** Every request is a task. A settings commit can swap the pool
  or drop a provider between any two steps of a request; a slot, a breaker
  outcome or a cooldown may refer to a generation that is gone.
* **Abandonment.** Clients hang up while queued, between a grant and its receipt,
  and while an upstream call runs.
* **Timing.** Rolling windows counted at the sender and judged at the receiver;
  deadlines of waiters that are not at the head of the queue; timers that race
  with results.
* **Feedback.** Exhaustion, failures and rate limits arrive in bursts and late.
* **Crashes.** Router state is saved every 30 s through an asynchronous writer and
  restored as wall-clock seconds; the history file may be torn at any byte; the
  configuration is replaced by rename.
* **Stale authority.** Passwords are hashed and verified outside the store lock
  that a change is applied under.

What makes each part correct: a key is never granted or seen upstream beyond its
budget; grants follow arrival order and every waiter is answered; permits are
neither lost nor invented and the cap tightens, recovers and dissolves at the
documented pace; identical requests share a call and no follower is stranded;
breakers act on consecutive outcomes and let providers back; failover reaches
every candidate and ends; a request is offered the providers that may serve it,
best first; whatever way it ends, what it held is given back and what it did is
measured once; what is reported of an answer is what the answer says; restarts
neither hand a budget back nor prolong a penalty; the configuration is one value
that survives crashes and changes only on live authority; a recorded sample is
never lost silently, and expired ones are eventually removed. `PROJECT.json` lists
the hazards line by line.

## 2. Modules

| Module | Models | Proofs | Instance for TLC |
|---|---|---|---|
| `Dispatch` | `pool.rs`, `dispatch.rs`, the key settings, slot use | `DispatchProofs` | `MCDispatch` |
| `Governor` | `governor.rs`, its poll loops, its rows in the state store | `AdmissionProofs` | `MCGovernor` |
| `Coalescer` | `coalescer.rs` and its use in `execute_buffered` | `RoutingProofs` | `MCCoalescer` |
| `Routing` | `execute_buffered`'s loop, `circuit.rs`, `ratelimit.rs`, health map, probes, `rebuild` | `RoutingProofs` | `MCRouting` |
| `Selection` | `providers.rs`; `select`, strategies, pins, strikes of `router.rs`; the merged listing of `proxy.rs` | `AdmissionProofs` | `MCSelection` |
| `Serving` | `handle`, `streaming`, `buffered`, `models` of `proxy.rs` | `ServingProofs` | `MCServing` |
| `Observer` | `observation.rs` | `ObserverProofs` | `MCObserver` |
| `StateStore` | `health.rs`; bookkeeping, tick and boot of `router.rs`; persistence hooks of `pool.rs`, `circuit.rs` | `StateStoreProofs` | `MCStateStore` |
| `Settings` | `settings.rs`, `config.rs`, the throttle of `auth.rs`, boot | `SettingsProofs` | `MCSettings` |
| `ConfigRegister` | the promise of the config store; `Settings` implements it | `SettingsProofs` | (a property of `MCSettings`) |
| `HistoryLog` | `history/store.rs` and the index of `history.rs` | `HistoryProofs` | `MCHistoryLog` |
| `Retention` | the compaction flags, generation and control lock of `history.rs` | `HistoryProofs` | `MCRetention` |

Definitions marked `\* mutant` are deliberately wrong variants of the definition
that follows them. No specification uses them; substituting one for its original
must make the property it is paired with in `PROJECT.json` fail. A property that
conjoins named parts is paired with one mutant for each part.

How they fit together: `Serving` is the outermost layer and takes from the others
only whether and when a slot (`Dispatch`), a permit (`Governor`) or a routed answer
(`Routing`) comes. `Routing` takes any order of the candidates; `Selection` says
which orders there are. `StateStore` treats windows, cooldowns, pins and circuits as
data that must survive; what they mean is in the modules above. The governor's rows
are in `Governor`, with what it does when it finds them. `Retention`
says when compactions run and `HistoryLog` what they do to the file; a settings
commit in `Settings` is what triggers `Retention`'s settings thread.

### Dispatch
The queue is a sequence of jobs; the task's place in its loop is `phase`
(`idle` = `queue.recv`, `poll` = before `reserve`, `send` = slot in hand,
`sleep`, `gap`). `reserve` runs under the read lock, hence it is one step; the
reply is sent after the lock is released, hence it is another, and a commit or a
hang-up fits between. A lane's deque is the set of waiters it was granted to,
with their stamps in `slotAt`: one waiter takes at most one slot. `gen` numbers
pool generations; `release` and `penalize` act on the live pool only when the
slot's generation is the live one. `arrived` is when the upstream saw a request,
at most `Jitter` after its grant: that is the assumption the one second of
padding in `WINDOW` states. `charged` and `told` are history variables.

### Governor
One model; models share nothing. A look (`admit_at`) may adapt the cap and then
admits or refuses, in one step under the lock. The override is read once before
the poll loop, while `note_exhausted` reads the live one, so both are kept apart.
`Persist` and `Restart` model the row written by `persist_once` (skipped for an
ungoverned model) and `restore`. Time has `Second` ticks to a second, and a row has
whole seconds: elapsed and remaining times are cut, and so is the clock they are set
against (`Ago`, `Until`, `At`), so that a restored instant differs from the real one as
the code's arithmetic makes it. `heard` (when the model was last exhausted) and
`awake` (this process saw it) are history.

### Coalescer
`entry` maps a key to the lead whose channel is joined; `Reaped` is the `retain`
of each `register`. A lead publishes and is dropped in two steps, since followers
run between them. `late` is history: keys one of whose leads outlived the TTL. Its
names differ from `Routing`'s, and `Selection`'s from `Governor`'s, so that one proof
module extends both.

### Routing
`cands[r]` is the cycle of candidates, rotated so that the next one is first.
`Begin` takes any subset of the providers as the ones serving the model (or the
sticky one) and any order of those that pass `candidate_ok`: strategies only
order. The gates of `acquire` before its first `await` are one step (`Skip`,
`RateLimited`, `Admitted`); waiting for permit and slot, and the upstream call,
are the points where other tasks run and where the client may vanish. Deadlines
and breaker ages are countdowns, so that requests may arrive for ever in a finite
state space. `tried`, `dry`, `fails` and `oks` are history variables.

### Selection
A configuration is a strategy and a sequence of provider definitions; `Stores` are the
ones settings may save. `select` has one step for each lock it takes: the strategy
(`Arrive`), the pin (`SelectPinned`), the pinned runtime (`FindPinned`) or all runtimes
in order (`Collect`), then for each name its health (`CheckHealth`) and its circuit
(`CheckCircuit`), the latencies one by one for the strategies that copy them
(`Measure`), and scoping, order, upstream names and the shared counter
(`SelectOrdered`). Outcomes, probes, saves (`Rebuild`) and other requests come between,
except that a save waits while a request holds the runtimes and the order read-locked
(`Locked`). A save rewrites the definitions of kept runtimes one by one and in place,
so a request carries the definitions each provider has had since it took the runtimes
(`defs`), and each later read of one finds any of them: more mixtures than the code can
show, never fewer. The comparator of `order_latency` reads live latencies, so that a
sort disturbed by an outcome may leave any order. `calm` keeps, for each request, the
providers nothing has happened to since. An outcome writes circuit, latency and health
one after the other in the code and in one step here. A request reads them in the order
health, circuit, latency; as health comes last in `finish_success`, and a failure read as
such ends the look at a provider, all it can find it also finds with the writes in one
step between two of its reads. The exception is a success of `record_attempt`, which
writes health before latency: a state with the new health and the old average is not
in the model. No property and no proof relates the two.

Names are unique in a configuration (`Valid`, from `validate_providers`), and only the
enabled definitions have runtimes (`Active`). Sorting is stable, as in the code: a
candidate's place is the number of candidates before it (`Rank`), by speed or rating
and then by the order of the store. The latency average is integer arithmetic. The
round-robin counter is one for the process and kept modulo a common multiple of the
candidate counts. A behaviour starts from what a state database may have given back
(`Restored`). `AggregateModels` merges the upstream's catalogue with the models each
provider offers, and shows the strikes; the ids of an upstream without runtime stay
bare (`Relayed`, `proxy.rs:1094`). It is one step, since each row's count is judged
by itself. `turns` and `streak` are history.

### Serving
A `pc` value is an await point of the handler or of the spawned streaming task.
Dropping a future there drops what it owns (in-flight guard, permit, catalogue
lock), which is how deadline, hang-up and refusal are one step each. The client of a
stream hangs up (`HangUp`) and its spawned task goes on until it notices; the client
of a buffered call or a listing takes the handler with it (`Abandon`), and what comes
after the await, `record_request` included, never runs. Reading the body of a refusal
is an await of its own (`DetailRead` before a retry, `ReasonRead` before giving up)
that neither the hang-up nor a timeout interrupts. The `select!` of the relay is a
choice between its arms. The channel between task and client has
`Cap` slots; the heartbeat is sent with `try_send`, so a full channel counts as a
client that has gone, as in the code. `tally` (what was counted for a request) and
`refreshes` are history.

### Observer
Bytes are tokens (LF, CR, the two of the `data:` prefix, a document, other text) and a
document is what it says about usage, choices and tool calls. The prefix is two tokens
because it is longer than the LF that joins data lines: that is why joined data never
outgrow what was read. `Push` feeds a chunk that may end anywhere, `Finish` ends the
stream in one of four ways, `Body` reads a buffered answer. `Reference` is the
definition over the whole input that the incremental parser is compared with: it finds
line ends, blank lines and events as sets of positions of the bytes, and keeps no
state. `UsageMetrics` is the mapping to the published quality labels.

### StateStore
Memory changes first; the operation is queued afterwards, outside the lock (a task
between the two is in `task`), and one writer applies the queue. The tick builds its
operations in one step (`Snapshot`) and queues them in another (`PersistOnce`).
`Kill` loses memory and queue; `WriteFails` loses one operation, which the code logs.
Time has `Second` ticks in a second, and persisted stamps are whole seconds, so that
a restored instant differs from the real one exactly as the code's arithmetic makes
it. `Filtered` keeps the rows of a window that satisfy a condition, in their order.
`FirstBoot` imports the predecessor's rows one by one and may fail in the middle.
`kills`, `sends`, `kept`, `ends` (when each cooldown, open circuit and pin is really
over) and `saved` are history.

### Settings and ConfigRegister
A handler reads what it needs in one critical section, hashes or verifies a password
outside, and commits in another: `save` writes the temporary file, `rename` replaces
`config.json`, `sync` makes the rename durable, then the runtime copies follow. A write
or the rename may fail and end the commit (`MaxFaults` bounds those); the sync of the
directory may fail any number of times (`SyncFails`), which the code ignores
(`config.rs:503`-`505`): the commit goes on, the rename may or may not have reached the
disk, and `unsynced` says so. A kill leaves `file` (`Killed`); a power loss leaves
`synced`, or `file` if it got there (`PowerLost`). The router's copy has no lanes when
the nvidia provider is disabled (`Routed`). A hash is a fresh number, since every hash
has its own salt. Setup tests whether it is open (`SetupArrives`), reads its body, and
then asks the throttle (`SetupAdmitted`, `SetupRejected`). `ApiConfig` clones the store
(`copy`) and `ApiConfigAnswers` reads the lanes afterwards without the lock; what the
page shows is computed in its own way, as in the code. `ConfigRegister` is the abstract
store: a value on disk, the one a power loss leaves durable, and the one served; the
disk is at most one commit ahead of the served value, and the durable value is the
disk's unless the register is `lax`. `RegisterSpec` says that `Settings` implements it
under `disk <- file, durable <- synced, lax <- unsynced, served <- store, IsValue <-
Valid`: an acknowledged commit is lost only to a power loss while lax.

### HistoryLog
`file` is the sequence of lines the path shows. A line is whole, torn, without its
newline (`bare`), terminated later (`late`, if it was bare) or junk. `safe` is what a
crash leaves of an unsynced tail, `old` what the path may show if a rename was not
synced. `Open` scans, reports gaps and appends a boot record; an append is indexed first
(`AppendIndexed`) and written later, since the store mutex is another one; compaction
replaces the file (`CompactReplaced`) and installs the replayed index later (`Install`).
`append` reads the store's last timestamp under an earlier lock (`history.rs:964`-`967`)
and `AppendIndexed` in the same step: only a compaction comes between, and it never
raises that timestamp. One counter stands for the registry. `floor`, `taken` and `owed`
are history.

### Retention
Three kinds of threads over `compaction_pending`, `compaction_running`, the
generation and the control lock. Starting a worker is the load of the flag, the swap
of `running`, and then by the winner the generation and after it the cutoff and the
dropped points, each a step; so are the rename and the later decrement of the dropped
points (`Settle`). Two loads in a row are one step where only the later one decides
(the conditions of `Asks`, `Look`, and cutoff with dropped points). Any attempt may be
left unsynced, be superseded or be deferred, any number of times: an open gap in the
file defers every compaction of the process (`store.rs:361`). The generation matters
only through its comparison with a worker's own, hence `fresh[w]`. `due` is history:
a finite cutoff has been requested and not yet been compacted to.

## 3. Runs

| Run | Instance | What it shows |
|---|---|---|
| `dispatch_swap` | 2 keys (rpm 1 and 2), 2 requests, 2 commits of any kind, window 2+1 ticks | commits, hang-ups and releases never let a grant exceed the budget (`GrantWithinBudget`), orphan a stamp (`SlotsAccounted`), shorten a rest (`CooldownKept`) or falsify the reported wait (`WaitIsExact`) |
| `dispatch_queue` | 2 keys, 3 requests with deadlines 1 or 3, no commits, fair | arrival order (`InArrivalOrder`), the upstream's rolling quota under jitter (`UpstreamQuota`), every waiter is answered (`Resolved`) |
| `governor` | 4 requests, one pin change, one restart, seconds of 2 ticks, horizon 9, back-off 3, grow 2, dissolve 3 | permits counted (`PermitsCounted`), over-commitment bounded (`OverCommitBounded`), cap paced (`CapRisesPaced`), dissolution final although rows come back up to a second late (`StaysDissolved`); a process keeps the drain gap it opened, and no restart resurrects or prolongs one (`DrainHonoured`) |
| `coalescer` | 3 identical requests, TTL 2, horizon 5, fair | no dead entry is joined, one prompt leader, published means shared, followers released |
| `routing` | 1 request slot used again and again, 2 providers, breaker 2/1/2, bucket of 1, 3 attempts, 2 ticks, fair | breakers trip and are backed by consecutive outcomes, failover leaves nobody out, every request ends |
| `selection` | 2 tasks, 1 session, 3 providers (wildcard with a key listed twice; free without keys; one that renames a model), 6 configurations, 2 boot states, 3 events | for the providers that nothing happens to between the reads of a select, the outcome is that of an uninterrupted one: offered exactly if they may serve, none before a preferred one; the listing names each model once with the strikes that have not decayed (`ChoicesSound`); one lane per key, round robin in turn (`LanesAndTurns`) |
| `serving` | 3 requests, 2 in flight, 1 permit, channel of 1, 1 retry, fair | in-flight count, permits and refreshes exact on every exit, dropped handlers included (`ResourcesReturned`); each request measured as often as its end calls for (`MeasuredOnEveryExit`); a hang-up frees the stream once the upstream has sent headers and, for a refusal, ended its body (`FreedOnHangUp`) |
| `observer` | 6 documents, 5 chunks out of 11, events of at most 4 tokens | what is reported equals a definition over the whole input (`ReportedExactly`), within the byte cap (`MemoryBounded`) |
| `state_store` | 1 provider, key, session and task, seconds of 2 ticks, window 6, 3 events, 2 kills or failed writes, import | restarts forget no stored send, count none twice and prolong nothing, up to a second each (`WindowsRestored`); a complete tick loses nothing (`RestartLosesNothing`); no pin outlasts the TTL of its session's last use, and no live pin's row is removed (`PinsHonoured`) |
| `settings` | 2 users, 2 keys, 1 client key, 2 concurrent requests of any kind, 2 URLs, 1 write failure, kill or power loss, any number of failed directory syncs, from fresh, claimed and recovering stores | `RegisterSpec`; file, store and runtime agree whenever the mutex is free, the disk too unless a sync failed, and all can be booted from (`StoreSound`); owner, resets and roles hold at commit time (`AuthorityHeld`); the page is true of the store it cloned and, unless a commit came between, of the lanes (`PageIsTrue`) |
| `history` | 2 processes, 3 samples of a counter up to 2, clock of 3 days that may step back, retention 0 or 1 day, 2 faults | no durable sample disappears silently (`NothingLost`), differences, tail and rollups are exact (`CountsExact`), compaction validates and, until a write fails, appends are never rejected as old (`FileSound`) |
| `retention` | 2 workers, sampler and settings, any number of setbacks, fair | one worker, no request forgotten (`RequestsKept`); attempts go on while there is debt, and it is paid unless they are thwarted for ever (`DebtPaid`) |

The bounds are the smallest at which every interesting case occurs: a budget of
one (exhausted by one grant) beside one of two (lowered below what was sent); two
commits (disable and re-enable, or lower and raise); a horizon beyond twice the
TTL; four permits (so that halving twice differs from halving once); as many
attempts as a full round over the candidates and one more. In `routing` one
request meets the interference of all others through the streaming path (which
records any outcome on its provider at any time), probes and rebuilds; that the
safety properties hold for any number of requests is proved. In `serving` two
streams compete for one permit while a third request sheds or lists; a channel of
one slot is full after one frame. Two ticks to a second are the least at which
truncation to whole seconds loses something. Two processes and two faults let one
process tear a line and the next append to it, crash, and compact. A second worker
in `retention` is one that has cleared `running` and still looks at the flags.
`MCListing.cfg` checks the listing further than `selection` does, with one task, two
configurations, four events and a clock of three: strikes in a row, lost to decay
and struck again, while the upstream is switched off and on.
Clocks, samples, events, faults and requests are bounded by the constants named
`Max...` or `Horizon`, so those instances may run out of work; only `routing` and
`retention` run for ever, and there deadlock is checked.

Fairness. `Dispatch`: the dispatcher task runs and timers fire (tokio); nothing
is assumed of callers, operators or upstreams. `Coalescer`: timers fire and
followers are woken; leaders may hang. `Routing`: a request's task runs, the wait
for permit and slot is answered (`Resolved`, and the deadline test of the poll
loop), `request_timeout` bounds upstream calls, time passes. `BusySpec` adds, for
`MCRoutingLocked.cfg` only, that requests which every provider serves keep arriving:
strongly fair, as an arrival is not enabled while the slot is busy. `Serving`:
tasks are polled and timers fire, weakly fair (`Polled`); `SpecAnswered` adds that
the upstream sends response headers and ends the body of a refusal, or breaks the
connection; nothing about the bodies of successes. `Retention`: scheduling only. The
sampler ticks for ever and a settings commit that has begun goes on; strong fairness
says that a thread which can take the control lock again and again gets it and that a
worker on the blocking pool runs. How an attempt ends is nobody's promise: `DebtPaid`
says that attempts are made for as long as there is debt, and that it is paid if at
some point they stop being deferred, superseded or left unsynced.

### Known disagreements

Where a sentence in the repository promises more than the code does, the sentence is
a definition of its module with a configuration that refutes it. The runs above do
not check these; `tlc -config <cfg> <module>` shows the counterexample.

| Configuration, property | Claim | What TLC finds |
|---|---|---|
| `MCDispatchDeadline.cfg`, `GrantedInTime` | `acquire` "errors if no slot can open before `deadline`" (`dispatch.rs:57`) | a waiter behind a sleeping head is granted after its own deadline, although the task always runs promptly (`PromptSpec`) |
| `MCDispatchLeak.cfg`, `AbandonedSlotReturned` | "a slot granted to an abandoned waiter is returned to the pool" (`dispatch.rs:58`) | a receiver dropped after delivery keeps the key charged for a window |
| `MCDispatchPenalty.cfg`, `PenaltyHonoured` | "a late op on a retired pool is benign" (`dispatch.rs:9`) | the back-off is lost and the key is granted during the rest the upstream asked for |
| `MCCoalescerStale.cfg`, `OneFreshLeader` | "identical in-flight POSTs share one upstream call" (`coalescer.rs:5`) | a late leader's drop removes its successor's entry; a third request leads again |
| `MCRoutingLocked.cfg`, `OpenCircuitRetried` | failures "open the circuit for `timeout`" (`circuit.rs:3`) | `candidate_ok` excludes open circuits for ever; `allow` is never reached; a healthy provider stays locked out |
| `MCRoutingDry.cfg`, `SaturationWaits` | "when every candidate is dry the cycle repeats until the deadline" (`router.rs:1299`) | with several candidates the request ends with 502 after `max_retries` short pauses |
| `MCSelectionPinned.cfg`, `ModelScoped` | "a provider serves the request only when it lists the model (or a wildcard)" (`router.rs:463`) | a session pinned by one model takes another model's request to the same provider (`router.rs:437`-`453`) |
| `MCSelectionLanes.cfg`, `UsableHasLane` | `usable`: the provider "can serve traffic right now" (`providers.rs:300`) | a no-auth provider without keys is usable and has no lane (`lane_specs`), so no slot can be granted |
| `MCSelectionStrikes.cfg`, `StrikesDecay` | strikes "decay after this long without a new strike" (`router.rs:880`) | a strike after the decay time adds to the old count unless somebody looked in between |
| `MCServingHung.cfg`, `FreedOnHangUp` under `SpecHung` | "a client hang-up frees its `max_inflight` slot immediately ... hung upstreams can't pin slots" (`knowledge/log.md:1225`) | true in the relay, not while the upstream has not yet sent headers (`proxy.rs:831`-`842`) or has not ended the body of a refusal (`proxy.rs:886`, `913`), which nothing bounds |
| `MCStateStoreRace.cfg`, `WriteThrough` | health and pins are "write-through on record" (`router.rs:1032`) | two recorders change memory in one order and queue their rows in the other (`health.rs:68`-`79`); the database keeps the older |
| `MCHistoryHidden.cfg`, `DamageShown` | recovery works "without presenting the resulting gaps as complete" (`metrics-history.md:20`) | a process dies between a record and its newline; the next one terminates the line and reports a gap; a compaction then keeps the sample in the file and drops the gap, while the index it installs still lacks the sample, so that the window is served as complete without it |
| `MCHistoryBaseline.cfg`, `DeltasPreserved` | boot, baseline and everything from the cutoff on are "the minimum context that preserves counter deltas ... after a restart" (`metrics-history.md:190`) | retention is lengthened after a compaction; the next start indexes the baseline as a point of its own, with all its process had counted by then as its difference (`history.rs:345`-`375`) |
| `MCRetentionSpin.cfg`, `ForeverSettles` | days = 0 "clears pending work" (`metrics-history.md:173`) | a sampler that read the finite days sets the flag after the change has cleared it; nothing clears it again |

Smaller observations made while modelling, for which there is no configuration:
`record_latency` persists the sample, not the average it updates in memory; after a
failed import the router logs that it starts clean although the rows imported so far
stay; `src/proxy/README.md:382` says rate windows reset on restart, while they are
restored; a deadline that strikes after a request was recorded counts it a second
time (`CountedOnEveryExit` says exactly when); `empty_count` (`router.rs:1395`)
counts empty answers, not candidates; the throttle tests and counts in two steps for
logins, so concurrent logins may exceed it, while setup does both at once. "Every
request" (`src/proxy/README.md:298`) leaves out buffered calls and listings whose client left
before the answer: their handlers are dropped and never recorded. The end of a drain gap
is stored in whole seconds, rounded down twice, so that with the real gap of 2 s a restart
may lose nearly all of it, and the stamps of a row may come back a second later for each
restart. A directory sync that fails after the rename is reported by nobody
(`config.rs:503`-`505`); a power loss may then undo an acknowledged commit, and so may one
after a kill between rename and sync, whose successor serves a file that is not durable. A
Settings page may mix the rows of one configuration with the lanes of the next. The
sampler asks for compaction again on every tick while one is pending
(`history.rs:1046`-`1051`) and thereby supersedes a worker slower than a tick; an open gap
defers compaction until the process restarts (`store.rs:361`, as `metrics-history.md:194`
says).

## 4. Proofs

All theorems hold for every value of the constants that meets the module's named
assumption (`ConstantsAssumption`, `CoalescerAssumption`, `SelectionAssumption`,
`RetentionAssumption`): any keys, requests, handlers, workers, providers, budgets,
documents, chunks and windows. `Serving` counts its requests, `StateStore` its lanes and
`Selection` its candidates, so that those sets are assumed finite.

What a recursive definition computes is proved in four places (`ObserverProofs`,
`StateStoreProofs`, `AdmissionProofs`, `HistoryProofs`) in the same way: the positions
up to which the claim holds are a set, and the least number missing from it would
contradict the step (`Induct`, from the well-foundedness of the naturals); that the
recursive function exists at all is shown by the same induction (`Recursion`).

* **Dispatch.** `TypeCorrect`; then, from one inductive invariant `IInv`,
  `QuotaTheorem`, `AccountedTheorem`, `BudgetTheorem`; `CooldownTheorem`. The
  quota is not inductive: arrivals are delayed, and a window is judged at its end.
  `IInv` therefore says that the live pool *remembers* every charged slot inside
  the padded window (`Remembered`, the fact commits must preserve), and that no
  padded window ending at *any* time, future ones too, holds more grants than the
  largest budget (`GrantQuota`). `ArrivesInTime` then carries the bound from
  grants to arrivals: a rolling upstream window of arrivals lies inside one padded
  window of grants.
  `ArrivalTheorem` needs an invariant of its own (`FifoInv`): callers call in the
  order of their numbers, the queue is sorted and behind the waiter in the task's
  hand, and a queued waiter is in one of the two places. `WaitTheorem` follows from
  `IInv` alone by counting: the n-th oldest stamp exists (`StampIs`, from a least
  time up to which n stamps fall), so that a closed lane opens when that stamp
  leaves the window and its cooldown is over, not before, and stays open
  (`LaneOpens`); the least of these times over the lanes is the wait.
* **Governor** (in `AdmissionProofs`). `PermitsTheorem`, `OverCommitTheorem`,
  `DissolvedTheorem`, `PacingTheorem`, `DrainTheorem`. `IInv` adds that stamps are in
  the past, an engaged cap has an exhaustion, and no stamp, live or stored, lies in a later
  second than the last exhaustion by more than one for each restart (`Stamps`): that is why
  a row that outlives its model does no harm. The gap that this process opened is the one in
  force, and one taken over or stored ends in the second in which it ended (`Gap`).
* **Coalescer** (in `RoutingProofs`). `NoDeadEntryTheorem`, `OneLeaderTheorem`,
  `SharedTheorem`. The strengthening is that a running lead of a key without late leads
  *is* the entry and is younger than the TTL (`LeadsAreEntries`).
* **Routing.** `TripsTheorem` and `BackedTheorem`: a closed breaker has counted
  exactly the latest failures and a half-open one only latest successes
  (`BreakerInv`), shown per provider from the six ways a step can touch a breaker.
  `TriedTheorem`: the candidates visited include the last `attempts` members of
  the rotated cycle (`CycleInv`); a full round is then all of them.
* **Selection** (in `AdmissionProofs`). `LanesTheorem`: one lane per key material
  (`LanesCover`, by induction over the keys), latencies between the samples (an average
  lies between its parts), and turns. That leaders differ is not inductive; the invariant
  says where they stand: one behind the other in the list, the last one just before the
  counter (`InTurn`), which survives the wrap because `Period` is a multiple of every
  list's length. `OffersTheorem`, an action property, rests on the invariant `Calm`:
  whatever a request has read of a provider so far, at different moments (whether it is
  among the names and with which definition, whether it passed, which latency it was
  copied with), is still true of it (`Read`, `View`) if nothing has happened to it. At the
  last step, then, those providers are judged by their present state. A rank in a weak
  order is a bijection of the positions (`RankIs`), so the sorted list has every candidate
  once and none before a preferred one (`SortedIs`), for each of the strategies
  (`OrderedIs`). `ListingTheorem`: the merge keeps ids distinct and adds every offered
  model (`AllMerged`), and a streak is never longer than the strikes remembered
  (`Strikes`), so that a fresh one is shown. `ChoicesTheorem` is the two together.
* **Observer.** `ReportedTheorem`, `MemoryTheorem`. The inductive invariant `Traced` says
  that what the observer holds is a function of all the bytes it has read: the open event's
  data and line are those the reference finds at the end of the bytes, and the merged state
  is what the closed events say (`Sound`). It is kept byte by byte, hence for any cut into
  chunks. The memory bound needs that data grow by less than the lines they came from; the
  attempt to prove it with a prefix of one token failed, which is why it has two.
* **HistoryLog** (in `HistoryProofs`). `FileTheorem`, `CountsTheorem`. What the scanner
  returns is a sequence of whole epochs of the file's own lines in the order of time,
  each a boot, a full sample and what the same process wrote after it (`Chain`,
  `Closed`: `ScanGood`, by induction over the lines); compaction keeps whole epochs
  again, because the baseline is a full sample (`RetainedIs`); and the scan of such a
  sequence is the sequence itself (`Rescan`). That no append is rejected as old needs
  that no line is later than the store's last timestamp (`DiskLines`). The attempt to
  prove it without a condition failed and TLC found the reason with two faults more than
  the run has: after a failed write the store rejects everything without comparing
  times, and a change of retention and a clock step may leave its last timestamp ahead
  of the stamp. `CountsTheorem` rests on what a file says of the samples taken
  (`Stream`): each line has its sample's process and count, and two neighbours of one
  process differ, from the highest cutoff so far on, by exactly what the later sample
  gained. A write extends such a stream because the live file ends where the process
  stands (`LiveEnd`: the next line is a checkpoint only of the value shown last); a scan
  cuts it to epochs; compaction leaves out lines between neighbours that still show the
  same, since it keeps the last full sample before the cutoff; and a replay turns
  neighbours into points (`ReplayTrue`). So a process starts from true gains (`Shown`)
  and from the counter it must subtract from (`Known`). The buckets add up because
  bucket sums and the window sum are the same sum of points (`RollupCounts`). The
  invariant was model-checked first. It says nothing of points older than the highest
  cutoff: with a counter above 1 TLC finds a baseline that is shown with the whole
  counter once a longer retention includes it again.
* **Retention** (in `HistoryProofs`). `RequestsKeptTheorem`. The flag alone does not
  show a debt, because a worker clears it and looks at the generation afterwards. The
  strengthening is that nothing is owed after the commit of a worker whose generation is
  still the latest, and that no such worker exists between a new generation and its flag
  (`PaidUp`); and that only finite cutoffs are owed (`DebtFinite`).
* **Serving.** `ResourcesReturnedTheorem`, `MeasuredOnEveryExitTheorem`. The exits agree
  because what a request owns and has been counted for is a function of the await
  point it is at (`Local`): only that makes a deadline or a hang-up *anywhere* safe.
  The in-flight count is a cardinality over all requests, the permits a set; the
  catalogue lock is held exactly by the request that fetches (`Catalogue`). That a stream
  is always counted needs that only buffered calls and listings reach the handlers that
  are dropped with their client (`Handlers`).
* **Settings.** `StoreSoundTheorem`; `RegisterTheorem`, the refinement of
  `ConfigRegister`; the action property `AuthorityTheorem`; `PageTheorem`. `IInv`
  follows the commit of the handler holding the mutex: which of file, synced file,
  configuration, router and retention already have its candidate (`Phases`), what the
  candidate may differ in from the store (`Candidate`: owner, administrative changes,
  password hashes), that handlers other than setup run in an owned store (`Owned`), that
  a password hash in flight has been read by nobody (`Hashes`), which is why a change of
  password overtaken by a reset notices it, and that what a power loss would bring back
  keeps the rules too, however old it is (`Durable`). The refinement maps the rename to
  `Install`, the directory sync to `Sync` or `SyncFails`, the end of the commit to
  `Publish`, and a start to `Kill` or `PowerLoss`. The page's padlock needs that a store
  with users has an owner (`Populated`).
* **StateStore.** `WindowsTheorem`: a stored, queued, batched or remembered stamp lies
  within a second for each restart so far of the send it stands for, and one second more
  while the process that built it is up; a kill pays that second (`Stored`, `Process`). The
  same holds for the ends of cooldowns; an open circuit's whole second is not
  after its opening. No send is in a window twice, and none that the process made or found
  is missing (`KeptCounted`). `RestartTheorem`: once a tick is complete, the last operation
  queued for a row is what memory holds, or the row already fits (`Complete`).
  `PinsTheorem`: no pin in memory, in the file, in the queue or in a recorder's hands ends
  later than the TTL after the last use of its session, and every sweep on its way carries
  a time that has passed (`PinInv`): so a late write restores no longer pin than a renewal
  gave, and no sweep removes a row that is still good.

The type invariants of `Governor`, `Coalescer`, `Selection`, `Retention`, `Serving` and
`Settings` are part of, or follow from, their inductive invariants; the other proofs carry
the facts about types they need. Each inductive invariant of `Dispatch`, `Governor`,
`Coalescer`, `Routing`, `Retention`, `Serving` and `Settings` was model-checked as well.

Model-checked only:

* liveness (`Resolved`, `FollowersReleased`, `RequestEnds`, `DebtPaid`,
  `FreedOnHangUp`): beyond the prover used;
* `HistoryLog`'s `NothingLost`: the invariant has to say, for each durable sample and for
  four views of the file (shown, safe, old, indexed), that a scan finds it or which gap it
  reports over its time, one induction over the lines for each.

## 5. Not modelled

* **Legacy history code**: reading and writing `history.jsonl`, which production no
  longer reaches. Of the codec, only that a line decodes or does not. Metrics other
  than one counter: each is treated like it.
* **State store**: the import's `model_state` and archive tables, which are written
  and never read; ratings, which nothing in production changes; `Pool::release`, whose
  effect on stamps is in `Dispatch`.
* **Serving**: the capped set of known metric labels, request-shape metrics, body
  rewriting, header filtering.
* **Config and authentication**: migration of version 1 files, checks of single fields
  (ranges, URL and name syntax), cookies with their signature and expiry, the memo of
  header credentials (for the scraper too, `auth.rs:244`-`254`). Password hashing
  itself: a hash is a fresh value.
* **Operator API, pages, asset routes, HTTP, TLS, SQLite**: schemas, rendering and
  libraries; the data of the Settings page is modelled.
* `force_open`, `set_elo`, `ProviderSet` and `models_snapshot` have no caller in
  production. No handler toggles a whole provider, so that the handles `lib.rs:477`
  takes at boot never outlive their runtime.
* Formatting, wording, logging and localisation.
* Client key pools (independent of the proxy), the dashboard, tools and research
  directories.

## 6. Plan

Done: all modules above; every safety property that a run checks is a theorem,
`NothingLost` of `HistoryLog` excepted, and so is the refinement of `ConfigRegister`.

1. **`HistoryLog`.** `NothingLost`, from the facts about scanning, compacting and
   replaying that `FileTheorem` and `CountsTheorem` need.
2. An abstract rolling-window limiter that `Dispatch` refines per key.
