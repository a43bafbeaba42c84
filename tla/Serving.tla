------------------------------- MODULE Serving -------------------------------
(***************************************************************************)
(* The /v1 entry point of proxy.rs: the in-flight cap, the streaming task     *)
(* with its heartbeats, retries and relay loop, the buffered handler and the  *)
(* cached /v1/models listing.                                                *)
(*                                                                         *)
(* A pc value is an await point: a request deadline, a hang-up or another     *)
(* request can come in at each of them.  Dropping a future at an await point  *)
(* drops what it owns: the in-flight guard, the permit, the catalogue lock.   *)
(* Lane slots are granted by Dispatch, permits by Governor, buffered routing  *)
(* is Routing's; here only whether and when they come matters.               *)
(***************************************************************************)
EXTENDS Integers, FiniteSets

CONSTANTS
  Request, None,
  Streams, Buffereds, Listings,   \* bound: the handlers a request may reach
  MaxInflight,     \* max_inflight
  Workers,         \* permits the governor grants for the model
  Cap,             \* slots of a stream's channel (16 in the code)
  MaxTries         \* bound on upstream attempts that end in a retry

ASSUME ConstantsAssumption ==
  /\ IsFiniteSet(Request) /\ None \notin Request
  /\ Streams \cup Buffereds \cup Listings = Request
  /\ \A n \in {MaxInflight, Workers, Cap} : n \in Nat \ {0}
  /\ MaxTries \in Nat

VARIABLES
  ready,           \* ~setup_required
  inflight,        \* AppState::inflight
  pc,              \* where each request waits
  job,             \* what its handler or task owns
  permits,         \* requests holding a model permit
  noInject,        \* the model is in AppState::no_inject
  cache, lock,     \* models_cache holds a listing in its TTL; who holds its mutex
  tally,           \* history: what was counted for each request
  refreshes        \* history: listings fetched since the cache was emptied

shared == <<ready, noInject, cache, lock, refreshes>>
vars == <<inflight, pc, job, permits, tally, shared>>

\* A request's own state.  deadline: it carries one; waited: max_wait is over;
\* chan, gone: frames in its channel, its client hung up; fallback: it can
\* still drop the injected stream_options; observer: the SseObserver cell.
Fresh == [deadline |-> FALSE, waited |-> FALSE, chan |-> 0, gone |-> FALSE,
          fallback |-> FALSE, observer |-> FALSE, tries |-> 0]

Awaiting == {"connect", "permit", "slot", "send", "detail", "reason", "retry", "relay", "push",
             "last"}
Streaming(r) == pc[r] \in Awaiting
Open(r) == pc[r] \notin {"idle", "done"}
Gone(r) == job[r].gone

Goto(r, l) == pc' = [pc EXCEPT ![r] = l]

\* record_request.
Counted(t) == [t EXCEPT !.recorded = @ + 1]
Record(r) == tally' = [tally EXCEPT ![r] = Counted(@)]

\* finalize_sse_observer takes the observer, if there is one, and accounts it.
Finalized(r, t) == IF job[r].observer THEN [t EXCEPT !.accounted = @ + 1] ELSE t
Finalize(r) == tally' = [tally EXCEPT ![r] = Counted(Finalized(r, @))]

\* Every exit drops the in-flight guard, the permit and the rest of the job.
Release == inflight' = inflight - 1
Exit(r) ==
  /\ Goto(r, "done") /\ Release
  /\ permits' = permits \ {r}
  /\ job' = [job EXCEPT ![r] = Fresh]
Stay == UNCHANGED <<inflight, permits>>

-----------------------------------------------------------------------------
\* handle: setup gate, in-flight cap, client key and deadline header.

Refuse(r) ==
  /\ pc[r] = "idle" /\ ~ready
  /\ Goto(r, "done")
  /\ UNCHANGED <<inflight, job, permits, tally, shared>>

\* Mutant of Sheds: one request too many.
ShedsLate(n) == n > MaxInflight + 1
Sheds(n) == n > MaxInflight

Arrive(r) ==
  /\ pc[r] = "idle" /\ ready
  /\ inflight' = inflight + 1
  /\ Goto(r, IF Sheds(inflight + 1) THEN "shed" ELSE "auth")
  /\ UNCHANGED <<job, permits, tally, shared>>

\* 503; or an unknown client key (after a pause) or a malformed deadline.
TurnAway(r) ==
  /\ pc[r] \in {"shed", "auth"}
  /\ Exit(r)
  /\ UNCHANGED <<tally, shared>>

\* A stream on the generation endpoint, whose body gets stream_options (the
\* untouched body stays as a fallback); a buffered call; or GET /v1/models.
Serve(r) ==
  /\ pc[r] = "auth"
  /\ \E d \in BOOLEAN :
       \/ /\ r \in Streams /\ Goto(r, "connect")
          /\ job' = [job EXCEPT ![r].deadline = d, ![r].fallback = ~noInject]
       \/ /\ \/ r \in Buffereds /\ Goto(r, "buffer")
             \/ r \in Listings /\ Goto(r, "lock")
          /\ job' = [job EXCEPT ![r].deadline = d]
  /\ tally' = [tally EXCEPT ![r].served = TRUE]
  /\ UNCHANGED <<inflight, permits, shared>>

-----------------------------------------------------------------------------
\* streaming: the spawned task, which owns the in-flight guard.

CanSend(r) == Gone(r) \/ job[r].chan < Cap      \* send().await returns
Framed(j) == [j EXCEPT !.chan = IF j.gone THEN @ ELSE @ + 1]
Frame(r) == job' = [job EXCEPT ![r] = Framed(@)]

\* ": connected" goes out, or the client is found gone.
Connected(r) ==
  /\ pc[r] = "connect" /\ CanSend(r)
  /\ IF Gone(r) THEN Exit(r) /\ Record(r)
     ELSE Frame(r) /\ Goto(r, "permit") /\ Stay /\ UNCHANGED tally
  /\ UNCHANGED shared

TakePermit(r) ==
  /\ pc[r] = "permit" /\ Cardinality(permits) < Workers
  /\ permits' = permits \cup {r}
  /\ Goto(r, "slot")
  /\ UNCHANGED <<inflight, job, tally, shared>>

TakeSlot(r) ==
  /\ pc[r] = "slot"
  /\ Goto(r, "send")
  /\ UNCHANGED <<inflight, job, permits, tally, shared>>

\* Past the retries nothing reads what they keep; the error event is sent last.
Settled(j) == [j EXCEPT !.waited = FALSE, !.fallback = FALSE, !.tries = 0]
GiveUp(r) ==
  /\ Goto(r, "last") /\ Record(r)
  /\ job' = [job EXCEPT ![r] = Settled(@)]

\* on_wait is a try_send: a full channel counts as a client that left.
\* Mutant of Heard: frames beyond the channel's capacity.
HeardAlways(r) == ~Gone(r)
Heard(r) == ~Gone(r) /\ job[r].chan < Cap

Heartbeat(r) ==
  /\ pc[r] \in {"permit", "slot"}
  /\ IF Heard(r) THEN Frame(r) /\ UNCHANGED <<pc, tally>>
     ELSE GiveUp(r)
  /\ Stay /\ UNCHANGED shared

\* max_wait ends the wait for a permit or a slot.
WaitOver(r) ==
  /\ pc[r] \in {"permit", "slot"} /\ job[r].waited
  /\ GiveUp(r)
  /\ Stay /\ UNCHANGED shared

\* The error event, and the task returns.
LastSend(r) ==
  /\ pc[r] = "last" /\ CanSend(r)
  /\ Exit(r)
  /\ UNCHANGED <<tally, shared>>

\* What the upstream answers.  `continue` drops the permit; a connection error
\* and a 400 to an injected body do so without a look at max_wait.  The body of
\* any other refusal is read to its end: neither a hang-up nor max_wait ends
\* that read, only the request's own deadline.
\* Mutant of Continue: the permit outlives its iteration.
ContinueHolding(r, j) ==
  /\ Goto(r, "permit")
  /\ job' = [job EXCEPT ![r] = j]
  /\ UNCHANGED <<inflight, permits>>
Continue(r, j) ==
  /\ Goto(r, "permit") /\ permits' = permits \ {r}
  /\ job' = [job EXCEPT ![r] = j]
  /\ UNCHANGED inflight
Tried(j) == [j EXCEPT !.tries = @ + 1]

ConnectError(r) ==
  /\ pc[r] = "send" /\ job[r].tries < MaxTries
  /\ Continue(r, Tried(job[r]))
  /\ UNCHANGED <<tally, shared>>

DropInjection(r) ==
  /\ pc[r] = "send" /\ job[r].fallback
  /\ noInject' = TRUE
  /\ Continue(r, [job[r] EXCEPT !.fallback = FALSE])
  /\ UNCHANGED <<tally, ready, cache, lock, refreshes>>

Retryable(r) ==
  /\ pc[r] = "send" /\ job[r].tries < MaxTries
  /\ IF job[r].waited THEN GiveUp(r) ELSE Goto(r, "detail") /\ UNCHANGED <<job, tally>>
  /\ Stay /\ UNCHANGED shared

DetailRead(r) ==
  /\ pc[r] = "detail"
  /\ Goto(r, "retry")
  /\ Stay /\ UNCHANGED <<job, tally, shared>>

Retrying(r) ==
  /\ pc[r] = "retry" /\ CanSend(r)
  /\ IF Gone(r) THEN Exit(r) /\ Record(r)
     ELSE Continue(r, Framed(Tried(job[r]))) /\ UNCHANGED tally
  /\ UNCHANGED shared

Fatal(r) ==
  /\ pc[r] = "send"
  /\ Goto(r, "reason")
  /\ job' = [job EXCEPT ![r] = Settled(@)]
  /\ Stay /\ UNCHANGED <<tally, shared>>

ReasonRead(r) ==
  /\ pc[r] = "reason"
  /\ GiveUp(r)
  /\ Stay /\ UNCHANGED shared

\* A success: the observer cell is filled.
Begins(r) ==
  /\ pc[r] = "send"
  /\ job' = [job EXCEPT ![r] = [Settled(@) EXCEPT !.observer = TRUE]]
  /\ tally' = [tally EXCEPT ![r].began = TRUE]
  /\ Goto(r, "relay")
  /\ Stay /\ UNCHANGED shared

Chunk(r) ==
  /\ pc[r] = "relay"
  /\ Goto(r, "push")
  /\ Stay /\ UNCHANGED <<job, tally, shared>>

Pushed(r) ==
  /\ pc[r] = "push" /\ Heard(r)
  /\ Frame(r) /\ Goto(r, "relay")
  /\ Stay /\ UNCHANGED <<tally, shared>>

\* tx.closed() during a read, or a send that fails.
\* Mutant of Disconnect: a hang-up shows only when a frame is sent.
DisconnectOnSend(r) ==
  /\ pc[r] = "push" /\ Gone(r)
  /\ Finalize(r) /\ Exit(r)
  /\ UNCHANGED shared
Disconnect(r) ==
  /\ pc[r] \in {"relay", "push"} /\ Gone(r)
  /\ Finalize(r) /\ Exit(r)
  /\ UNCHANGED shared

Complete(r) ==
  /\ pc[r] = "relay"
  /\ Finalize(r) /\ Exit(r)
  /\ UNCHANGED shared

\* A stall or a broken upstream: account, record, then send the error event.
\* Mutant of Truncated: the observer is read and not taken.
TruncatedKeeps(r) ==
  /\ pc[r] = "relay"
  /\ Finalize(r) /\ Goto(r, "last")
  /\ Stay /\ UNCHANGED <<job, shared>>
Truncated(r) ==
  /\ pc[r] = "relay"
  /\ Finalize(r) /\ Goto(r, "last")
  /\ job' = [job EXCEPT ![r].observer = FALSE]
  /\ Stay /\ UNCHANGED shared

\* The deadline arm of the select, or of timeout_at around a buffered call:
\* the work future is dropped where it waits.
\* Mutant of Struck: a deadline that is not counted.
StruckUncounted(r, t) == [Finalized(r, t) EXCEPT !.late = t.recorded > 0]
Struck(r, t) == [Counted(Finalized(r, t)) EXCEPT !.late = t.recorded > 0]

DeadlineStrikes(r) ==
  /\ job[r].deadline /\ (Streaming(r) \/ pc[r] \in {"buffer", "body"})
  /\ tally' = [tally EXCEPT ![r] = Struck(r, @)]
  /\ Exit(r)
  /\ UNCHANGED shared

-----------------------------------------------------------------------------
\* buffered: Routing's execute_buffered, then the relay of the body.

Answered(r) ==
  /\ pc[r] = "buffer"
  /\ Record(r)
  /\ \/ Exit(r)                                            \* read already, or an error
     \/ Goto(r, "body") /\ Stay /\ UNCHANGED job           \* a response to relay
  /\ UNCHANGED shared

Relayed(r) ==
  /\ pc[r] = "body"
  /\ Exit(r)
  /\ UNCHANGED <<tally, shared>>

-----------------------------------------------------------------------------
\* models: the mutex is held across the refresh.

\* Mutant of Listing: the mutex is released before the refresh.
ListingUnlocked(r) ==
  /\ pc[r] = "lock" /\ lock = None
  /\ IF cache THEN Exit(r) /\ Record(r)
     ELSE Goto(r, "fetch") /\ Stay /\ UNCHANGED <<job, tally>>
  /\ UNCHANGED <<ready, noInject, lock, cache, refreshes>>
Listing(r) ==
  /\ pc[r] = "lock" /\ lock = None
  /\ IF cache THEN Exit(r) /\ Record(r) /\ UNCHANGED lock
     ELSE lock' = r /\ Goto(r, "fetch") /\ Stay /\ UNCHANGED <<job, tally>>
  /\ UNCHANGED <<ready, noInject, cache, refreshes>>

\* The listing; or no slot in 30 s, an upstream error or a failed fetch.
Fetched(r) ==
  /\ pc[r] = "fetch"
  /\ \/ cache' = TRUE /\ refreshes' = refreshes + 1
     \/ UNCHANGED <<cache, refreshes>>
  /\ lock' = None
  /\ Record(r) /\ Exit(r)
  /\ UNCHANGED <<ready, noInject>>

ModelsDeadline(r) ==
  /\ pc[r] \in {"lock", "fetch"} /\ job[r].deadline
  /\ lock' = IF lock = r THEN None ELSE lock
  /\ Record(r) /\ Exit(r)
  /\ UNCHANGED <<ready, noInject, cache, refreshes>>

\* models_ttl passes, or settings::upstream flushes under the mutex.
Emptied == cache' = FALSE /\ refreshes' = 0

Expire ==
  /\ cache /\ Emptied
  /\ UNCHANGED <<inflight, pc, job, permits, tally, ready, noInject, lock>>

Flush ==
  /\ ready /\ lock = None
  /\ Emptied /\ noInject' = FALSE
  /\ UNCHANGED <<inflight, pc, job, permits, tally, ready, lock>>

-----------------------------------------------------------------------------
\* Setup, clients and time.

SetupDone ==
  /\ ~ready /\ ready' = TRUE
  /\ UNCHANGED <<inflight, pc, job, permits, tally, noInject, cache, lock, refreshes>>

Read(r) ==
  /\ job[r].chan > 0 /\ ~Gone(r)
  /\ job' = [job EXCEPT ![r].chan = @ - 1]
  /\ UNCHANGED <<inflight, pc, permits, tally, shared>>

\* A stream's task outlives its client and sees the hang-up at its channel.
HangUp(r) ==
  /\ Streaming(r) /\ ~Gone(r)
  /\ job' = [job EXCEPT ![r].gone = TRUE, ![r].chan = 0]
  /\ UNCHANGED <<inflight, pc, permits, tally, shared>>

\* Any other handler is dropped with its connection where it waits: what it
\* owns is released, and the record_request after the await never runs.
\* Mutant of Abandon: the refresh is abandoned and its mutex kept.
AbandonLocked(r) ==
  /\ pc[r] \in {"buffer", "body", "lock", "fetch"}
  /\ tally' = [tally EXCEPT ![r].dropped = pc[r] # "body"]
  /\ Exit(r)
  /\ UNCHANGED shared
Abandon(r) ==
  /\ pc[r] \in {"buffer", "body", "lock", "fetch"}
  /\ lock' = IF lock = r THEN None ELSE lock
  /\ tally' = [tally EXCEPT ![r].dropped = pc[r] # "body"]
  /\ Exit(r)
  /\ UNCHANGED <<ready, noInject, cache, refreshes>>

MaxWait(r) ==
  /\ pc[r] \in {"permit", "slot", "send", "detail", "retry"} /\ ~job[r].waited
  /\ job' = [job EXCEPT ![r].waited = TRUE]
  /\ UNCHANGED <<inflight, pc, permits, tally, shared>>

Init ==
  /\ ready = FALSE /\ inflight = 0 /\ permits = {} /\ noInject = FALSE
  /\ pc = [r \in Request |-> "idle"] /\ job = [r \in Request |-> Fresh]
  /\ cache = FALSE /\ lock = None /\ refreshes = 0
  /\ tally = [r \in Request |-> [served |-> FALSE, began |-> FALSE, accounted |-> 0,
                                 recorded |-> 0, late |-> FALSE, dropped |-> FALSE]]

Answer(r) == ConnectError(r) \/ DropInjection(r) \/ Retryable(r) \/ Fatal(r) \/ Begins(r)

\* The rest of a refusal arrives, or its connection breaks.
Refused(r) == DetailRead(r) \/ ReasonRead(r)

\* What the task does by itself: nothing here waits for the upstream.
Work(r) ==
  \/ Connected(r) \/ TakePermit(r) \/ TakeSlot(r) \/ Heartbeat(r) \/ WaitOver(r)
  \/ LastSend(r) \/ Retrying(r) \/ Pushed(r) \/ Disconnect(r)

Step(r) ==
  \/ Refuse(r) \/ Arrive(r) \/ TurnAway(r) \/ Serve(r) \/ Work(r) \/ Answer(r) \/ Refused(r)
  \/ Chunk(r) \/ Complete(r) \/ Truncated(r) \/ DeadlineStrikes(r)
  \/ Answered(r) \/ Relayed(r) \/ Listing(r) \/ Fetched(r) \/ ModelsDeadline(r)
  \/ Read(r) \/ HangUp(r) \/ Abandon(r) \/ MaxWait(r)

Next == (\E r \in Request : Step(r)) \/ Expire \/ Flush \/ SetupDone

Spec == Init /\ [][Next]_vars

\* Tasks are polled, timers fire, and max_wait passes; the upstream need not
\* send another byte.  SpecAnswered adds that it sends response headers and,
\* if it refuses, ends the body of its refusal or breaks the connection.
Polled == \A r \in Streams : WF_vars(Work(r)) /\ WF_vars(MaxWait(r))
SpecHung == Spec /\ Polled
SpecAnswered == SpecHung /\ \A r \in Streams : WF_vars(Answer(r)) /\ WF_vars(Refused(r))

-----------------------------------------------------------------------------
\* Properties.

\* Type invariant.
TypeOK ==
  /\ inflight \in 0..Cardinality(Request)
  /\ \A r \in Request :
       /\ pc[r] \in Awaiting \cup {"idle", "shed", "auth", "buffer", "body", "lock", "fetch",
                                   "done"}
       /\ job[r].chan \in 0..Cap /\ job[r].tries \in 0..MaxTries
       /\ tally[r].accounted \in Nat /\ tally[r].recorded \in Nat
  /\ permits \subseteq Request /\ lock \in Request \cup {None}

\* max_inflight bounds live requests: the counter is the number of requests
\* inside handle or its task, on every exit path, and no more than
\* max_inflight of them are past the gate.
InflightExact ==
  /\ inflight = Cardinality({r \in Request : Open(r)})
  /\ Cardinality({r \in Request : Open(r) /\ pc[r] # "shed"}) <= MaxInflight

\* Relay exits and the deadline arm race for the observer: a stream that began
\* is accounted once by the time its task has ended, any other never.
AccountedOnce ==
  \A r \in Request :
    /\ tally[r].accounted <= 1
    /\ pc[r] = "done" => (tally[r].accounted = 1 <=> tally[r].began)

\* Every request that reached a handler is in flock_requests_total once when it
\* ends; twice only if its deadline struck after it had been counted, and not
\* at all only if its client left a buffered call or a listing unanswered.  A
\* stream is counted whatever its client does.
CountedOnEveryExit ==
  \A r \in Request : pc[r] = "done" /\ tally[r].served =>
    /\ tally[r].recorded = IF tally[r].late THEN 2 ELSE IF tally[r].dropped THEN 0 ELSE 1
    /\ tally[r].dropped => r \notin Streams \ (Buffereds \cup Listings)

\* A permit is held across an exchange with the upstream and by nobody else:
\* no exit, retry, deadline or hang-up keeps one.
PermitsReturned ==
  /\ Cardinality(permits) <= Workers
  /\ \A r \in Request :
       /\ pc[r] \in {"slot", "send", "detail", "reason", "retry", "relay", "push"} => r \in permits
       /\ pc[r] \notin Awaiting \ {"connect", "permit"} => r \notin permits

\* Concurrent misses share one refresh: until the cache is emptied, the
\* listing is fetched once, and its mutex is held by a handler that fetches.
OneRefresh == refreshes <= 1 /\ (lock # None => pc[lock] = "fetch")

\* A hang-up frees the stream's slot, provided the upstream answers: it sends
\* headers and ends the body of a refusal.  No further byte of a stream that
\* began is needed, and no deadline.
FreedOnHangUp == \A r \in Streams : Streaming(r) /\ Gone(r) ~> pc[r] = "done"

\* What requests share is given back on every exit: the in-flight count, the
\* permits and the refresh of the models cache.
ResourcesReturned == TypeOK /\ InflightExact /\ PermitsReturned /\ OneRefresh

\* However a request ends (success, truncation, deadline, hang-up, a dropped
\* handler, a refusal upstream), its stream is accounted and its request counted as often as the
\* way it ended calls for.
MeasuredOnEveryExit == AccountedOnce /\ CountedOnEveryExit
=============================================================================
