------------------------------ MODULE Governor ------------------------------
(***************************************************************************)
(* The model-pressure governor (proxy/src/governor.rs) for one model, and   *)
(* the callers that poll it for a permit, hold it over one upstream         *)
(* exchange and report worker exhaustion (router.rs admit_model,            *)
(* finish_failure, record_attempt; proxy.rs acquire_model_permit).          *)
(*                                                                         *)
(* The governor's table has one entry per model under one mutex and no      *)
(* operation reads another model's entry, so one entry is modelled.         *)
(*                                                                         *)
(* Time has ticks, Second of which make one second.  Instants are ticks;    *)
(* what is persisted is in whole unix seconds.                              *)
(***************************************************************************)
EXTENDS Integers, FiniteSets

CONSTANTS
  Request,         \* one poll loop each: an attempt of a request
  NoPin,           \* no operator override
  Pins,            \* overrides an operator may set
  Deadlines,       \* instants a request may have as its deadline
  Second,          \* ticks in a second
  Poll,            \* a refused waiter looks again after this long
  ExhaustBackoff,  \* drain gap after an exhaustion
  GrowInterval,    \* the cap grows by one per this much stability
  DissolveAfter,   \* a model clean for this long is ungoverned again
  MaxPinChanges,   \* bound: settings commits that touch the override
  MaxRestarts,     \* bound: process restarts
  Horizon          \* bound: time passes beyond it only for an armed timer

ASSUME ConstantsAssumption ==
  /\ IsFiniteSet(Request) /\ Pins \subseteq Nat \ {0} /\ NoPin \notin Nat
  /\ Deadlines \subseteq Nat /\ Second \in Nat \ {0}
  /\ Poll \in Nat \ {0} /\ ExhaustBackoff \in Nat \ {0}
  /\ GrowInterval \in Nat \ {0} /\ DissolveAfter \in Nat
  /\ MaxPinChanges \in Nat /\ MaxRestarts \in Nat /\ Horizon \in Nat

Never == -1        \* an Option<Instant> that is None

VARIABLES
  clock,
  limit, inflight, blockedUntil, lastExhausted, lastAdjusted,  \* ModelState
  override, pinChanges,                \* governor.overrides of the live config
  pc, deadline, pinned, wakeAt,        \* the callers
  saved, restarts,                     \* the last persisted snapshot
  heard,   \* history: when the model was last exhausted
  awake    \* history: this process has seen that exhaustion

model  == <<limit, inflight, blockedUntil, lastExhausted, lastAdjusted>>
caller == <<pc, deadline, pinned, wakeAt>>
vars   == <<clock, model, override, pinChanges, caller, saved, restarts, heard, awake>>

\* The permits held, and those of them admitted under the adaptive cap.
Holding  == {r \in Request : pc[r] \in {"held", "exhausted"}}
UnderCap == {r \in Holding : pinned[r] = NoPin}
-----------------------------------------------------------------------------
Blank == [limit |-> 0, exhausted |-> 0, adjusted |-> 0, blocked |-> 0]

Init ==
  /\ clock = Second
  /\ limit = 0 /\ inflight = 0
  /\ blockedUntil = Never /\ lastExhausted = Never /\ lastAdjusted = Never
  /\ override = NoPin /\ pinChanges = 0
  /\ pc = [r \in Request |-> "new"] /\ deadline = [r \in Request |-> 0]
  /\ pinned = [r \in Request |-> NoPin] /\ wakeAt = [r \in Request |-> 0]
  /\ saved = Blank /\ restarts = 0 /\ heard = Never /\ awake = FALSE

\* The override is read once, before the poll loop.
Enter(r, d) ==
  /\ pc[r] = "new" /\ clock <= d
  /\ pc' = [pc EXCEPT ![r] = "poll"]
  /\ deadline' = [deadline EXCEPT ![r] = d]
  /\ pinned' = [pinned EXCEPT ![r] = override]
  /\ UNCHANGED <<clock, model, override, pinChanges, wakeAt, saved, restarts, heard, awake>>

Dissolves(pin) ==
  pin = NoPin /\ limit > 0 /\ lastExhausted # Never
    /\ clock - lastExhausted >= DissolveAfter

GrowsSinceExhausted(pin) ==                                        \* mutant
  pin = NoPin /\ limit > 0 /\ ~Dissolves(pin) /\ lastExhausted # Never
    /\ clock - lastExhausted >= GrowInterval

Grows(pin) ==
  pin = NoPin /\ limit > 0 /\ ~Dissolves(pin) /\ lastAdjusted # Never
    /\ clock - lastAdjusted >= GrowInterval

\* The adaptive part of admit_at: what the cap is once this look is taken.
Adapted(pin) ==
  IF Dissolves(pin) THEN 0 ELSE IF Grows(pin) THEN limit + 1 ELSE limit

Adapt(pin) ==
  /\ limit' = Adapted(pin)
  /\ lastAdjusted' = IF Dissolves(pin) \/ Grows(pin) THEN clock ELSE lastAdjusted

Cap(pin) == IF pin = NoPin THEN Adapted(pin) ELSE pin

\* Mutant of Admissible: a pinned model has no drain gap.
AdmissibleUnpinned(pin) ==
  /\ pin = NoPin => blockedUntil <= clock
  /\ Cap(pin) > 0 => inflight < Cap(pin)

Admissible(pin) ==
  /\ blockedUntil <= clock
  /\ Cap(pin) > 0 => inflight < Cap(pin)

Admit(r) ==
  /\ pc[r] = "poll" /\ Admissible(pinned[r])
  /\ Adapt(pinned[r])
  /\ inflight' = inflight + 1
  /\ pc' = [pc EXCEPT ![r] = "held"]
  /\ UNCHANGED <<clock, blockedUntil, lastExhausted, override, pinChanges,
                 deadline, pinned, wakeAt, saved, restarts, heard, awake>>

\* Refused: the look may still have adapted the cap.  Then sleep, or give up
\* when the next look would be past the deadline.
Refuse(r) ==
  /\ pc[r] = "poll" /\ ~Admissible(pinned[r])
  /\ Adapt(pinned[r])
  /\ IF clock + Poll > deadline[r]
     THEN pc' = [pc EXCEPT ![r] = "failed"] /\ UNCHANGED wakeAt
     ELSE /\ pc' = [pc EXCEPT ![r] = "sleep"]
          /\ wakeAt' = [wakeAt EXCEPT ![r] = clock + Poll]
  /\ UNCHANGED <<clock, inflight, blockedUntil, lastExhausted, override,
                 pinChanges, deadline, pinned, saved, restarts, heard, awake>>

\* The sleep ends; a heartbeat may find the client gone.
Wake(r) ==
  /\ pc[r] = "sleep" /\ wakeAt[r] <= clock
  /\ \E next \in {"poll", "failed"} : pc' = [pc EXCEPT ![r] = next]
  /\ wakeAt' = [wakeAt EXCEPT ![r] = 0]
  /\ UNCHANGED <<clock, model, override, pinChanges, deadline, pinned, saved,
                 restarts, heard, awake>>

\* Governor::release: saturating_sub.
ReleaseSkipped == inflight                                        \* mutant
Released == IF inflight > 0 THEN inflight - 1 ELSE 0

\* The exchange ends, or the caller leaves before or during it: the permit
\* is dropped.
Finish(r) ==
  /\ pc[r] = "held"
  /\ pc' = [pc EXCEPT ![r] = "done"]
  /\ inflight' = Released
  /\ UNCHANGED <<clock, limit, blockedUntil, lastExhausted, lastAdjusted,
                 override, pinChanges, deadline, pinned, wakeAt, saved, restarts, heard, awake>>

\* (inflight / 2).max(1)
Quartered == IF inflight \div 4 > 1 THEN inflight \div 4 ELSE 1     \* mutant
Halved == IF inflight \div 2 > 1 THEN inflight \div 2 ELSE 1

\* note_exhausted, called while the failing request's permit is held; the
\* override it reads is the live one, not the one the request entered with.
Exhausted(r) ==
  /\ pc[r] = "held"
  /\ pc' = [pc EXCEPT ![r] = "exhausted"]
  /\ blockedUntil' = clock + ExhaustBackoff /\ lastExhausted' = clock
  /\ heard' = clock /\ awake' = TRUE
  /\ IF override = NoPin
     THEN /\ limit' = Halved
          /\ lastAdjusted' = clock
     ELSE UNCHANGED <<limit, lastAdjusted>>
  /\ UNCHANGED <<clock, inflight, override, pinChanges, deadline, pinned,
                 wakeAt, saved, restarts>>

\* Then the attempt ends; the retry is another attempt.
DropExhausted(r) ==
  /\ pc[r] = "exhausted"
  /\ pc' = [pc EXCEPT ![r] = "done"]
  /\ inflight' = Released
  /\ UNCHANGED <<clock, limit, blockedUntil, lastExhausted, lastAdjusted,
                 override, pinChanges, deadline, pinned, wakeAt, saved, restarts, heard, awake>>

SetOverride(p) ==
  /\ p # override /\ pinChanges < MaxPinChanges
  /\ override' = p /\ pinChanges' = pinChanges + 1
  /\ UNCHANGED <<clock, model, caller, saved, restarts, heard, awake>>

-----------------------------------------------------------------------------
Unix == clock \div Second                                       \* unix_now

\* The stamps of a snapshot: elapsed and remaining time are cut to whole
\* seconds and set against the whole second of the clock.  0 stands for None.
Ago(t) == IF t = Never THEN 0 ELSE Unix - ((clock - t) \div Second)
Until(t) == IF t > clock THEN Unix + ((t - clock) \div Second) ELSE 0

\* persist_once writes a governed model; an ungoverned one is skipped, so the
\* row of a dissolved model stays as it was.
Persist ==
  /\ limit > 0
  /\ saved' = [limit |-> limit, exhausted |-> Ago(lastExhausted),
               adjusted |-> Ago(lastAdjusted), blocked |-> Until(blockedUntil)]
  /\ saved' # saved
  /\ UNCHANGED <<clock, model, override, pinChanges, caller, restarts, heard, awake>>

\* restore: instants from whole seconds, counted back from the clock.
AtBoot(t) == IF t = 0 THEN Never ELSE clock                        \* mutant
At(t) == IF t = 0 THEN Never ELSE clock - Second * (Unix - t)

GapAnew == IF saved.blocked > 0 THEN clock + ExhaustBackoff ELSE Never  \* mutant
RestoredGap == IF saved.blocked > Unix
               THEN clock + Second * (saved.blocked - Unix) ELSE Never

\* The process dies with its callers; the next one restores the snapshot.
Restart ==
  /\ restarts < MaxRestarts /\ restarts' = restarts + 1
  /\ pc' = [r \in Request |-> IF pc[r] = "new" THEN "new" ELSE "done"]
  /\ inflight' = 0 /\ limit' = saved.limit
  /\ lastExhausted' = IF saved.limit = 0 THEN Never ELSE At(saved.exhausted)
  /\ lastAdjusted' = IF saved.limit = 0 THEN Never ELSE At(saved.adjusted)
  /\ blockedUntil' = IF saved.limit = 0 THEN Never ELSE RestoredGap
  /\ awake' = FALSE
  /\ UNCHANGED <<clock, override, pinChanges, deadline, pinned, wakeAt, saved, heard>>

Tick ==
  /\ clock < Horizon \/ \E r \in Request : pc[r] = "sleep" /\ clock < wakeAt[r]
  /\ clock' = clock + 1
  /\ UNCHANGED <<model, override, pinChanges, caller, saved, restarts, heard, awake>>

-----------------------------------------------------------------------------
Next ==
  \/ \E r \in Request : \/ Admit(r) \/ Refuse(r) \/ Wake(r)
                        \/ Finish(r) \/ Exhausted(r) \/ DropExhausted(r)
                        \/ \E d \in Deadlines : Enter(r, d)
  \/ \E p \in Pins \cup {NoPin} : SetOverride(p)
  \/ Persist \/ Restart \/ Tick

Spec == Init /\ [][Next]_vars

-----------------------------------------------------------------------------
PCs == {"new", "poll", "sleep", "held", "exhausted", "failed", "done"}

\* Every variable has the shape the code gives it.
TypeOK ==
  /\ clock \in Nat /\ limit \in Nat /\ inflight \in Nat
  /\ blockedUntil \in Nat \cup {Never} /\ lastExhausted \in Nat \cup {Never}
  /\ lastAdjusted \in Nat \cup {Never}
  /\ override \in Pins \cup {NoPin} /\ pinChanges \in Nat
  /\ pc \in [Request -> PCs] /\ deadline \in [Request -> Nat]
  /\ pinned \in [Request -> Pins \cup {NoPin}] /\ wakeAt \in [Request -> Nat]
  /\ saved \in [limit : Nat, exhausted : Nat, adjusted : Nat, blocked : Nat]
  /\ restarts \in Nat /\ heard \in Nat \cup {Never} /\ awake \in BOOLEAN

\* The in-flight count is the number of permits held, on every exit path and
\* across a restart: a permit lost would wedge a governed model at its cap.
PermitsCounted == inflight = Cardinality(Holding)

\* Tightening never leaves the cap behind what is running: at most twice the
\* cap and one more of the permits it admitted are still held.
OverCommitBounded == limit > 0 => Cardinality(UnderCap) <= 2 * limit + 1

\* note_exhausted "engages (or tightens) the cap": while every permit was
\* admitted under the cap, a cap in force only rises by one, and only after a
\* stable GrowInterval, however many requests report exhaustion at once.
CapRisesPaced ==
  [][limit > 0 /\ limit' > limit /\ restarts' = restarts /\ UnderCap = Holding
       => limit' = limit + 1 /\ clock >= lastAdjusted + GrowInterval]_vars

\* The process that saw an exhaustion admits nobody before its drain gap is
\* over, pinned or not and however many more are reported meanwhile.
GapKept == inflight' > inflight /\ awake => clock >= heard + ExhaustBackoff

\* A restart may cut the gap short, since its end is kept in whole seconds, but
\* "elapsed drain gaps are not resurrected": a gap that a new process takes
\* over is still running, and no number of restarts makes it a second longer.
GapNotResurrected ==
  /\ restarts' > restarts /\ blockedUntil' # Never => clock < heard + ExhaustBackoff
  /\ blockedUntil' < heard' + ExhaustBackoff + Second

\* The drain gap is kept in the process that opened it and ends in the others.
DrainHonoured == [][GapKept /\ GapNotResurrected]_vars

\* A cap is gone once the model has been clean for DissolveAfter, although its
\* row outlives it and every restart restores the row: the stamps of the row
\* may come back a second late for each restart, and no more.
StaysDissolved ==
  heard = Never \/ clock >= heard + DissolveAfter + Second * (restarts + 1)
    => Adapted(NoPin) = 0
=============================================================================
