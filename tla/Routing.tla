------------------------------ MODULE Routing ------------------------------
(***************************************************************************)
(* The failover loop of execute_buffered (proxy/src/router.rs) over the     *)
(* provider runtimes it shares with every other request: their circuit      *)
(* breakers (circuit.rs), token buckets (ratelimit.rs) and the health map   *)
(* (health.rs), with the prober, streaming attempts and settings saves.     *)
(* The wait for a governor permit and a dispatcher slot is one step here:   *)
(* Governor and Dispatch say what happens in it.  Coalescing is off:        *)
(* Coalescer says what happens before the loop.                             *)
(***************************************************************************)
EXTENDS Naturals, Sequences, FiniteSets, SequencesExt

CONSTANTS
  Request, Provider,
  Streamed,       \* the provider streaming requests go to ("nvidia")
  MaxFailures, OpenTimeout, HalfOpenMax,   \* CircuitBreaker::new
  Burst,          \* capacity of a provider's token bucket
  MaxRetries,     \* routing.max_retries
  MaxWait         \* ticks from a request's arrival to its deadline

ASSUME ConstantsAssumption ==
  /\ Streamed \in Provider /\ IsFiniteSet(Provider)
  /\ {MaxFailures, HalfOpenMax, Burst, MaxRetries, MaxWait} \subseteq Nat \ {0}
  /\ OpenTimeout \in Nat

VARIABLES
  runtimes,             \* providers that are configured and enabled
  circuit, tokens,      \* their breakers and buckets
  healthy,              \* health map; outlives the runtimes
  pc, cands, attempts,  \* requests; cands is the cycle, next candidate first
  empties, left,        \* empty completions met, ticks to the deadline
  result,
  tried, dry,           \* history: candidates visited; only dry buckets met
  fails, oks            \* history: latest failures, successes in a row

shared == <<runtimes, circuit, tokens, healthy, fails, oks>>
request == <<pc, cands, attempts, empties, left, result, tried, dry>>
vars == <<shared, request>>

Fresh == [state |-> "closed", failures |-> 0, successes |-> 0, age |-> 0]

Init ==
  /\ runtimes = Provider /\ circuit = [p \in Provider |-> Fresh]
  /\ tokens = [p \in Provider |-> Burst] /\ healthy = [p \in Provider |-> TRUE]
  /\ pc = [r \in Request |-> "idle"] /\ cands = [r \in Request |-> << >>]
  /\ attempts = [r \in Request |-> 0] /\ empties = [r \in Request |-> 0]
  /\ left = [r \in Request |-> 0] /\ result = [r \in Request |-> "none"]
  /\ tried = [r \in Request |-> {}] /\ dry = [r \in Request |-> TRUE]
  /\ fails = [p \in Provider |-> 0] /\ oks = [p \in Provider |-> 0]

-----------------------------------------------------------------------------
(* CircuitBreaker.  age counts the ticks since the circuit opened.          *)

Allow(c) == c.state # "open" \/ c.age >= OpenTimeout

Allowed(c) ==
  IF c.state = "open"
  THEN [state |-> "half_open", failures |-> c.failures, successes |-> 0, age |-> 0]
  ELSE c

Opened(failures) ==
  [state |-> "open", failures |-> failures, successes |-> 0, age |-> 0]

SucceededEarly(c) ==                                               \* mutant
  IF c.state = "open" THEN c ELSE Fresh
Succeeded(c) ==
  CASE c.state = "closed" -> [c EXCEPT !.failures = 0]
    [] c.state = "half_open" ->
         IF c.successes + 1 >= HalfOpenMax THEN Fresh
         ELSE [c EXCEPT !.successes = @ + 1]
    [] c.state = "open" -> c

FailedLate(c) ==                                                   \* mutant
  IF c.state = "closed" /\ c.failures < MaxFailures
  THEN [c EXCEPT !.failures = @ + 1] ELSE Opened(c.failures)
FailedStays(c) ==                                                  \* mutant
  IF c.state = "closed" THEN [c EXCEPT !.failures = @ + 1] ELSE c
Failed(c) ==
  CASE c.state = "closed" ->
         IF c.failures + 1 >= MaxFailures
         THEN Opened(c.failures + 1)
         ELSE [c EXCEPT !.failures = @ + 1]
    [] c.state = "half_open" -> Opened(c.failures)
    [] c.state = "open" -> c

Capped(n, cap) == IF n < cap THEN n + 1 ELSE n

\* finish_success, finish_failure and record_attempt: a provider that is no
\* longer configured is not recorded at all.
RecordSuccess(p) ==
  /\ IF p \in runtimes
     THEN /\ circuit' = [circuit EXCEPT ![p] = Succeeded(@)]
          /\ healthy' = [healthy EXCEPT ![p] = TRUE]
          /\ fails' = [fails EXCEPT ![p] = 0]
          /\ oks' = [oks EXCEPT ![p] = Capped(@, HalfOpenMax)]
     ELSE UNCHANGED <<circuit, healthy, fails, oks>>
  /\ UNCHANGED <<runtimes, tokens>>

RecordFailure(p) ==
  /\ IF p \in runtimes
     THEN /\ circuit' = [circuit EXCEPT ![p] = Failed(@)]
          /\ healthy' = [healthy EXCEPT ![p] = FALSE]
          /\ fails' = [fails EXCEPT ![p] = Capped(@, MaxFailures)]
          /\ oks' = [oks EXCEPT ![p] = 0]
     ELSE UNCHANGED <<circuit, healthy, fails, oks>>
  /\ UNCHANGED <<runtimes, tokens>>

-----------------------------------------------------------------------------
(* One buffered request.                                                    *)

\* The circuit counts as closed to select only when it is not open, whatever
\* its age.
CandidateOk(p) == p \in runtimes /\ healthy[p] /\ circuit[p].state # "open"

Finish(r, outcome) ==
  /\ pc' = [pc EXCEPT ![r] = "done"]
  /\ result' = [result EXCEPT ![r] = outcome]
  /\ cands' = [cands EXCEPT ![r] = << >>] /\ attempts' = [attempts EXCEPT ![r] = 0]
  /\ empties' = [empties EXCEPT ![r] = 0] /\ left' = [left EXCEPT ![r] = 0]
  /\ UNCHANGED <<tried, dry>>

\* select: the providers that serve the model, or the sticky one, as far as
\* they are candidates, in the order the strategy gives them.
Begin(r, serving) ==
  LET ok == {p \in serving : CandidateOk(p)} IN
  /\ pc[r] = "idle"
  /\ IF ok = {}
     THEN Finish(r, "none_serves")
     ELSE /\ \E order \in SetToSeqs(ok) : cands' = [cands EXCEPT ![r] = order]
          /\ pc' = [pc EXCEPT ![r] = "loop"]
          /\ left' = [left EXCEPT ![r] = MaxWait]
          /\ UNCHANGED <<attempts, empties, result, tried, dry>>
  /\ UNCHANGED shared

DeadlineIgnored(r) == FALSE                                        \* mutant
Overdue(r) == left[r] = 0

\* Several candidates share max_retries attempts, a lone one has no limit.
Spent(r) == Len(cands[r]) > 1 /\ attempts[r] >= MaxRetries

AtDeadline(r) ==
  /\ pc[r] = "loop" /\ Overdue(r)
  /\ Finish(r, "504") /\ UNCHANGED shared

GiveUp(r) ==
  /\ pc[r] = "loop" /\ ~Overdue(r) /\ Spent(r)
  /\ Finish(r, "502") /\ UNCHANGED shared

StuckCycle(s) == s                                                 \* mutant
Cycled(s) == Append(Tail(s), Head(s))

Candidate(r) == Head(cands[r])
Current(r) == Last(cands[r])

\* The next round of the cycle: the candidate visited becomes the last one.
Visit(r, next) ==
  /\ pc[r] = "loop" /\ ~Overdue(r) /\ ~Spent(r)
  /\ cands' = [cands EXCEPT ![r] = Cycled(@)]
  /\ attempts' = [attempts EXCEPT ![r] = IF Len(cands[r]) > 1 THEN @ + 1 ELSE @]
  /\ tried' = [tried EXCEPT ![r] = @ \cup {Candidate(r)}]
  /\ pc' = [pc EXCEPT ![r] = next]
  /\ UNCHANGED <<empties, left, result>>

\* acquire finds no runtime, or its circuit open: straight to the next.
Skip(r) ==
  /\ Visit(r, "loop")
  /\ Candidate(r) \notin runtimes \/ ~Allow(circuit[Candidate(r)])
  /\ dry' = [dry EXCEPT ![r] = FALSE]
  /\ UNCHANGED shared

\* The circuit lets the attempt through, the bucket has no token: 50 ms pause.
RateLimited(r) ==
  LET p == Candidate(r) IN
  /\ Visit(r, "backoff")
  /\ p \in runtimes /\ Allow(circuit[p]) /\ tokens[p] = 0
  /\ circuit' = [circuit EXCEPT ![p] = Allowed(@)]
  /\ UNCHANGED <<runtimes, tokens, healthy, dry, fails, oks>>

\* Through both gates: wait for the model permit and the lane slot.
Admitted(r) ==
  LET p == Candidate(r) IN
  /\ Visit(r, "waiting")
  /\ p \in runtimes /\ Allow(circuit[p]) /\ tokens[p] > 0
  /\ circuit' = [circuit EXCEPT ![p] = Allowed(@)]
  /\ tokens' = [tokens EXCEPT ![p] = @ - 1]
  /\ dry' = [dry EXCEPT ![r] = FALSE]
  /\ UNCHANGED <<runtimes, healthy, fails, oks>>

Goto(r, next) ==
  /\ pc' = [pc EXCEPT ![r] = next]
  /\ UNCHANGED <<cands, attempts, empties, left, result, tried, dry>>

Resume(r) == pc[r] = "backoff" /\ Goto(r, "loop") /\ UNCHANGED shared

Granted(r) == pc[r] = "waiting" /\ Goto(r, "sent") /\ UNCHANGED shared

\* The governor or the dispatcher cannot serve it before its deadline.
WaitFails(r) == pc[r] = "waiting" /\ Finish(r, "504") /\ UNCHANGED shared

\* A connection error or a retryable status: on to the next candidate.
UpstreamFails(r) ==
  /\ pc[r] = "sent" /\ RecordFailure(Current(r)) /\ Goto(r, "loop")

\* Any other status, a client error included, ends the request.
UpstreamAnswers(r) ==
  /\ pc[r] = "sent" /\ RecordSuccess(Current(r)) /\ Finish(r, "relayed")

\* A chat completion without substance feeds neither circuit nor health.
UpstreamEmpty(r) ==
  /\ pc[r] = "sent"
  /\ IF empties[r] + 1 >= Len(cands[r])
     THEN Finish(r, "all_empty")
     ELSE /\ empties' = [empties EXCEPT ![r] = @ + 1]
          /\ pc' = [pc EXCEPT ![r] = "loop"]
          /\ UNCHANGED <<cands, attempts, left, result, tried, dry>>
  /\ UNCHANGED shared

\* The body of a chat completion stalls: nothing is recorded.
UpstreamStalls(r) == pc[r] = "sent" /\ Finish(r, "stalled") /\ UNCHANGED shared

\* The client disconnects: the handler is dropped where it awaits.
Gone(r) ==
  /\ pc[r] \in {"waiting", "sent", "backoff"}
  /\ Finish(r, "gone") /\ UNCHANGED shared

\* The slot of a finished request stands for the next arrival.
Reuse(r) ==
  /\ pc[r] = "done"
  /\ pc' = [pc EXCEPT ![r] = "idle"] /\ result' = [result EXCEPT ![r] = "none"]
  /\ tried' = [tried EXCEPT ![r] = {}] /\ dry' = [dry EXCEPT ![r] = TRUE]
  /\ UNCHANGED <<cands, attempts, empties, left>> /\ UNCHANGED shared

-----------------------------------------------------------------------------
(* The rest of the process.                                                 *)

\* probe_once: GET /v1/models; it has no say in the circuit.
Probe(p, ok) ==
  /\ p \in runtimes
  /\ healthy' = [healthy EXCEPT ![p] = ok]
  /\ UNCHANGED <<runtimes, circuit, tokens, fails, oks>> /\ UNCHANGED request

\* record_attempt from the streaming path, which no circuit gates.
Stream(ok) ==
  /\ IF ok THEN RecordSuccess(Streamed) ELSE RecordFailure(Streamed)
  /\ UNCHANGED request

\* rebuild: survivors keep their circuits, newcomers start afresh, and the
\* buckets are built anew, full, for all.
Rebuild(enabled) ==
  /\ runtimes' = enabled
  /\ circuit' = [p \in Provider |-> IF p \in runtimes \cap enabled
                                    THEN circuit[p] ELSE Fresh]
  /\ fails' = [p \in Provider |-> IF p \in runtimes \cap enabled THEN fails[p] ELSE 0]
  /\ oks' = [p \in Provider |-> IF p \in runtimes \cap enabled THEN oks[p] ELSE 0]
  /\ tokens' = [p \in Provider |-> Burst]
  /\ UNCHANGED healthy /\ UNCHANGED request

\* A tick: open circuits age, buckets gain a token, deadlines come closer.
Tick ==
  /\ circuit' = [p \in Provider |->
       IF circuit[p].state = "open"
       THEN [circuit[p] EXCEPT !.age = Capped(@, OpenTimeout)] ELSE circuit[p]]
  /\ tokens' = [p \in Provider |-> Capped(tokens[p], Burst)]
  /\ left' = [r \in Request |-> IF left[r] > 0 THEN left[r] - 1 ELSE 0]
  /\ UNCHANGED <<runtimes, healthy, fails, oks>>
  /\ UNCHANGED <<pc, cands, attempts, empties, result, tried, dry>>

\* What the task of a request does on its own, and what it waits for.
Round(r) ==
  \/ AtDeadline(r) \/ GiveUp(r) \/ Skip(r) \/ RateLimited(r) \/ Admitted(r)
  \/ Resume(r)
Wait(r) == Granted(r) \/ WaitFails(r)
Answer(r) ==
  UpstreamFails(r) \/ UpstreamAnswers(r) \/ UpstreamEmpty(r) \/ UpstreamStalls(r)

Next ==
  \/ \E r \in Request :
       \/ \E serving \in SUBSET Provider : Begin(r, serving)
       \/ Round(r) \/ Wait(r) \/ Answer(r) \/ Gone(r) \/ Reuse(r)
  \/ \E p \in Provider, ok \in BOOLEAN : Probe(p, ok)
  \/ \E ok \in BOOLEAN : Stream(ok)
  \/ \E enabled \in SUBSET Provider : Rebuild(enabled)
  \/ Tick

Spec == Init /\ [][Next]_vars

\* Tasks run, time passes, the dispatcher answers its waiters and
\* request_timeout bounds every upstream call.
FairSpec ==
  /\ Spec /\ WF_vars(Tick)
  /\ \A r \in Request : WF_vars(Round(r)) /\ WF_vars(Wait(r)) /\ WF_vars(Answer(r))

\* The same with requests that all providers serve arriving for ever.
BusySpec ==
  FairSpec /\ \A r \in Request : WF_vars(Reuse(r)) /\ SF_vars(Begin(r, Provider))

-----------------------------------------------------------------------------
(* Properties.                                                             *)

PCs == {"idle", "loop", "backoff", "waiting", "sent", "done"}
Results == {"none", "none_serves", "502", "504", "relayed", "all_empty",
            "stalled", "gone"}
Circuit == [state : {"closed", "half_open", "open"}, failures : 0..MaxFailures,
            successes : 0..(HalfOpenMax - 1), age : 0..OpenTimeout]

\* Every variable has the shape the code gives it: the breaker's counters stay
\* below the thresholds at which it acts on them, also when failures of
\* requests sent before it opened arrive late.
TypeOK ==
  /\ runtimes \subseteq Provider /\ circuit \in [Provider -> Circuit]
  /\ tokens \in [Provider -> 0..Burst] /\ healthy \in [Provider -> BOOLEAN]
  /\ pc \in [Request -> PCs] /\ \A r \in Request : cands[r] \in Seq(Provider)
  /\ attempts \in [Request -> 0..MaxRetries] /\ empties \in [Request -> Nat]
  /\ left \in [Request -> 0..MaxWait] /\ result \in [Request -> Results]
  /\ tried \in [Request -> SUBSET Provider] /\ dry \in [Request -> BOOLEAN]
  /\ fails \in [Provider -> 0..MaxFailures] /\ oks \in [Provider -> 0..HalfOpenMax]

\* "max_failures consecutive failures open the circuit": no circuit stays
\* closed over that many failures in a row, whoever recorded them.
BreakerTrips ==
  \A p \in Provider : circuit[p].state = "closed" => fails[p] < MaxFailures

\* The breaker of a kept runtime opens from closed only on MaxFailures
\* failures in a row and closes only on HalfOpenMax successes in a row.
BreakerBacked ==
  [][\A p \in runtimes \cap runtimes' :
       /\ circuit[p].state = "closed" /\ circuit'[p].state = "open"
            => fails'[p] = MaxFailures
       /\ circuit[p].state # "closed" /\ circuit'[p].state = "closed"
            => oks'[p] = HalfOpenMax]_vars

\* Failover leaves nobody out: when max_retries allows a full round, a request
\* that gives up with 502 has visited every candidate select gave it.
EveryCandidateTried ==
  [][\A r \in Request :
       GiveUp(r) /\ MaxRetries >= Len(cands[r])
         => tried[r] = ToSet(cands[r])]_vars

\* Every request ends, although it may cycle over open circuits and dry
\* buckets: "never a deadline spin".
RequestEnds == \A r \in Request : pc[r] = "loop" ~> pc[r] \in {"done", "idle"}

\* circuit.rs: failures "open the circuit for `timeout`".  A provider that stays
\* configured and answers its probes is not locked out for ever while requests
\* for it keep arriving.
OpenCircuitRetried ==
  \A p \in Provider :
    <>[](p \in runtimes /\ healthy[p]) => []<>(circuit[p].state # "open")

\* execute_buffered: "when every candidate is dry the cycle repeats until the
\* deadline": no request that met only dry buckets gives up before it.
SaturationWaits == [][\A r \in Request : GiveUp(r) => ~dry[r]]_vars
=============================================================================
