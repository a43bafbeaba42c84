----------------------------- MODULE Retention -----------------------------
(***************************************************************************)
(* Who compacts the history, and when: the flags, the generation and the    *)
(* control lock of history.rs, shared by the sampler (append), by settings  *)
(* commits (reconfigure_retention, one at a time under the save mutex) and  *)
(* by compaction workers on the blocking pool.  What a worker does to the   *)
(* file is modelled in HistoryLog; here it is one step with an outcome.      *)
(* Any attempt may fail, be deferred or not be synced, and none is the last  *)
(* to: an open gap in the file defers every attempt of the process.         *)
(*                                                                         *)
(* The generation only matters through the comparison with the one a worker *)
(* started with: fresh[w] says they are equal.                              *)
(***************************************************************************)
EXTENDS Naturals, FiniteSets

CONSTANTS
  Worker,          \* compaction tasks: a finished one may still be looking around
  NoWorker,
  CompactAfter,    \* COMPACT_AFTER_EXPIRED_SAMPLES
  MaxDropped       \* bound on the points dropped and not yet compacted

ASSUME RetentionAssumption ==
  /\ IsFiniteSet(Worker) /\ Worker # {} /\ NoWorker \notin Worker
  /\ CompactAfter \in Nat /\ MaxDropped \in Nat /\ CompactAfter < MaxDropped

VARIABLES
  finite,          \* days > 0
  pending, running, dropped,    \* compaction_pending, _running, dropped_since_compact
  fresh,           \* no generation since the worker's
  pc, claimed, outcome,         \* of each worker
  sampler, sawFinite,           \* the sampler's place in append, its copy of days
  settings,                     \* the settings commit's place
  lock,                         \* who holds compaction_control
  due              \* history: a finite cutoff was requested and no compaction to
                   \* the latest one has been committed

shared == <<finite, pending, running, dropped, fresh, lock>>
workers == <<pc, claimed, outcome>>
retention == <<shared, workers, sampler, sawFinite, settings, due>>

RetentionInit ==
  /\ finite \in BOOLEAN
  /\ pending \in {FALSE, finite} /\ due = pending      \* compaction_needed, at open
  /\ running = FALSE /\ dropped = 0
  /\ fresh = [w \in Worker |-> FALSE]
  /\ pc = [w \in Worker |-> "idle"] /\ claimed = [w \in Worker |-> 0]
  /\ outcome = [w \in Worker |-> "none"]
  /\ sampler = "idle" /\ sawFinite = FALSE /\ settings = "idle"
  /\ lock = "free"

-----------------------------------------------------------------------------
NewGeneration == fresh' = [w \in Worker |-> FALSE]

\* request_compaction, while the control lock is held by who: the cutoff and a
\* new generation, then the flag.
Request(who) ==
  /\ lock = "free" /\ lock' = who
  /\ NewGeneration
  /\ UNCHANGED <<finite, pending, running, dropped>>

FlaggedHolding(who) ==                                             \* mutant
  /\ lock = who /\ pending' = TRUE /\ due' = (due \/ finite)
  /\ UNCHANGED <<finite, running, dropped, fresh, lock>>

Flagged(who) ==
  /\ lock = who /\ lock' = "free"
  /\ pending' = TRUE /\ due' = (due \/ finite)
  /\ UNCHANGED <<finite, running, dropped, fresh>>

\* start_pending_compaction, by whoever asked or by a worker that finished: the
\* flag is loaded, then running is swapped, and whoever swapped it reads the
\* generation, the cutoff and the points dropped, and starts a worker with them.
StartsTwice == TRUE                                                \* mutant
Starts == ~running

Free == {w \in Worker : pc[w] = "idle"}
Claiming == {w \in Worker : pc[w] \in {"claim", "cutoff"}}

\* by's own task ends; w's begins.
Retire(f, by, v) == [u \in Worker |-> IF u = by THEN v ELSE f[u]]

TaskEnds(by) ==
  /\ pc' = Retire(pc, by, "idle") /\ claimed' = Retire(claimed, by, 0)
  /\ outcome' = Retire(outcome, by, "none") /\ fresh' = Retire(fresh, by, FALSE)
  /\ UNCHANGED <<finite, pending, running, dropped, lock>>

Swap(by) ==
  IF ~Starts THEN TaskEnds(by)
  ELSE \E w \in Free \cup ({by} \ {NoWorker}) :
       /\ running' = TRUE
       /\ pc' = [Retire(pc, by, "idle") EXCEPT ![w] = "claim"]
       /\ claimed' = Retire(claimed, by, 0) /\ outcome' = Retire(outcome, by, "none")
       /\ fresh' = Retire(fresh, by, FALSE)
       /\ UNCHANGED <<finite, pending, dropped, lock>>

-----------------------------------------------------------------------------
\* append, under the index lock: days is read once, expired points are dropped.
Sample(k) ==
  /\ sampler = "idle" /\ dropped + k <= MaxDropped /\ (k > 0 => finite)
  /\ sampler' = "append" /\ sawFinite' = finite
  /\ dropped' = dropped + k
  /\ UNCHANGED <<finite, pending, running, fresh, lock, workers, settings,
                 due>>

AsksWhenDropped == sawFinite /\ dropped > CompactAfter              \* mutant
Asks == sawFinite /\ (pending \/ dropped > CompactAfter)

\* ... and after the sample is on disk: with debt, ask for compaction.
SampleAsks ==
  /\ sampler = "append" /\ Asks
  /\ Request("sampler")
  /\ sampler' = "request"
  /\ UNCHANGED <<workers, sawFinite, settings, due>>

SampleDone ==
  /\ sampler = "append" /\ ~Asks
  /\ sampler' = "idle" /\ sawFinite' = FALSE
  /\ UNCHANGED <<shared, workers, settings, due>>

SampleFlags ==
  /\ sampler = "request" /\ Flagged("sampler")
  /\ sampler' = "start" /\ sawFinite' = FALSE
  /\ UNCHANGED <<workers, settings>>

\* start_pending_compaction by the sampler, which goes on when the worker has
\* been handed what it needs.
SampleLoads ==
  /\ sampler = "start" /\ sampler' = IF pending THEN "swap" ELSE "idle"
  /\ UNCHANGED <<shared, workers, sawFinite, settings, due>>

SampleSwaps ==
  /\ sampler = "swap" /\ Swap(NoWorker)
  /\ sampler' = "spawn"
  /\ UNCHANGED <<sawFinite, settings, due>>

SampleStarts ==
  /\ sampler = "spawn" /\ Claiming = {}
  /\ sampler' = "idle"
  /\ UNCHANGED <<shared, workers, sawFinite, settings, due>>

-----------------------------------------------------------------------------
\* reconfigure_retention(0): under the control lock the retention, a new
\* generation, and then the flag.
Forever ==
  /\ settings = "idle" /\ finite /\ lock = "free" /\ lock' = "settings"
  /\ finite' = FALSE /\ NewGeneration /\ due' = FALSE
  /\ settings' = "forever"
  /\ UNCHANGED <<pending, running, dropped, workers, sampler, sawFinite>>

ForeverClears ==
  /\ settings = "forever" /\ lock' = "free"
  /\ pending' = FALSE /\ settings' = "idle"
  /\ UNCHANGED <<finite, running, dropped, fresh, workers, sampler, sawFinite, due>>

\* reconfigure_retention(days): the retention, pruning, then a request.
Finite(k) ==
  /\ settings = "idle" /\ dropped + k <= MaxDropped
  /\ finite' = TRUE /\ dropped' = dropped + k
  /\ settings' = "prune"
  /\ UNCHANGED <<pending, running, fresh, lock, workers, sampler, sawFinite, due>>

FiniteAsks ==
  /\ settings = "prune" /\ Request("settings")
  /\ settings' = "request"
  /\ UNCHANGED <<workers, sampler, sawFinite, due>>

FiniteFlags ==
  /\ settings = "request" /\ Flagged("settings")
  /\ settings' = "start"
  /\ UNCHANGED <<workers, sampler, sawFinite>>

FiniteLoads ==
  /\ settings = "start" /\ settings' = IF pending THEN "swap" ELSE "idle"
  /\ UNCHANGED <<shared, workers, sampler, sawFinite, due>>

FiniteSwaps ==
  /\ settings = "swap" /\ Swap(NoWorker)
  /\ settings' = "spawn"
  /\ UNCHANGED <<sampler, sawFinite, due>>

FiniteStarts ==
  /\ settings = "spawn" /\ Claiming = {}
  /\ settings' = "idle"
  /\ UNCHANGED <<shared, workers, sampler, sawFinite, due>>

-----------------------------------------------------------------------------
Step(w, from, to) == pc[w] = from /\ pc' = [pc EXCEPT ![w] = to]

\* The generation, and then the cutoff and the points the worker answers for.
Claim(w) ==
  /\ Step(w, "claim", "cutoff")
  /\ fresh' = [fresh EXCEPT ![w] = TRUE]
  /\ UNCHANGED <<finite, pending, running, dropped, lock, claimed, outcome, sampler,
                 sawFinite, settings, due>>

Spawn(w) ==
  /\ Step(w, "cutoff", "compact")
  /\ claimed' = [claimed EXCEPT ![w] = dropped]
  /\ UNCHANGED <<shared, outcome, sampler, sawFinite, settings, due>>

\* The worker's authorization, taken under the control lock and held over the
\* rename: nobody has asked for anything else since it started.
Authorized(w) == lock = "free" /\ fresh[w] /\ pending /\ finite

\* The file is replaced and the directory synced.
CommitSynced(w) ==
  /\ Step(w, "compact", "settle") /\ Authorized(w)
  /\ outcome' = [outcome EXCEPT ![w] = "durable"]
  /\ due' = (due /\ ~fresh[w])
  /\ UNCHANGED <<shared, claimed, sampler, sawFinite, settings>>

Settle(w) ==
  /\ Step(w, "settle", "clear")
  /\ dropped' = IF dropped > claimed[w] THEN dropped - claimed[w] ELSE 0
  /\ UNCHANGED <<finite, pending, running, fresh, lock, claimed, outcome, sampler,
                 sawFinite, settings, due>>

\* The file is replaced but the directory could not be synced.
CommitUnsynced(w) ==
  /\ Step(w, "compact", "finish") /\ Authorized(w)
  /\ outcome' = [outcome EXCEPT ![w] = "unsynced"]
  /\ UNCHANGED <<shared, claimed, sampler, sawFinite, settings, due>>

Superseded(w) ==
  /\ Step(w, "compact", "finish") /\ lock = "free" /\ ~Authorized(w)
  /\ outcome' = [outcome EXCEPT ![w] = "superseded"]
  /\ UNCHANGED <<shared, claimed, sampler, sawFinite, settings, due>>

\* Deferred by a gap that reaches past the cutoff or for want of a sample of this
\* process, or an I/O error.
CommitDeferred(w) ==
  /\ Step(w, "compact", "finish")
  /\ outcome' = [outcome EXCEPT ![w] = "deferred"]
  /\ UNCHANGED <<shared, claimed, sampler, sawFinite, settings, due>>

\* The debt is paid unless someone asked again: look, clear, and look again.
Clear(w) ==
  /\ IF fresh[w] THEN Step(w, "clear", "unflag") ELSE Step(w, "clear", "finish")
  /\ UNCHANGED <<shared, claimed, outcome, sampler, sawFinite, settings,
                 due>>

Unflag(w) ==
  /\ Step(w, "unflag", "recheck")
  /\ pending' = FALSE
  /\ UNCHANGED <<finite, running, dropped, fresh, lock, claimed, outcome, sampler,
                 sawFinite, settings, due>>

RecheckedNever(w) == FALSE                                         \* mutant
Rechecked(w) == ~fresh[w] /\ finite

Recheck(w) ==
  /\ Step(w, "recheck", "finish")
  /\ pending' = (pending \/ Rechecked(w))
  /\ UNCHANGED <<finite, running, dropped, fresh, lock, claimed, outcome, sampler,
                 sawFinite, settings, due>>

Finish(w) ==
  /\ Step(w, "finish", "look")
  /\ running' = FALSE
  /\ UNCHANGED <<finite, pending, dropped, fresh, lock, claimed, outcome, sampler,
                 sawFinite, settings, due>>

Again(w) ==
  \/ outcome[w] \in {"durable", "superseded"}
  \/ outcome[w] = "unsynced" /\ ~fresh[w] /\ finite

\* A worker that committed or was superseded starts the next one if need be.
Look(w) ==
  /\ pc[w] = "look"
  /\ IF Again(w) /\ pending THEN Step(w, "look", "start") /\ UNCHANGED <<shared, claimed, outcome>>
     ELSE TaskEnds(w)
  /\ UNCHANGED <<sampler, sawFinite, settings, due>>

Load(w) ==
  /\ pc[w] = "start"
  /\ IF pending THEN Step(w, "start", "swap") /\ UNCHANGED <<shared, claimed, outcome>>
     ELSE TaskEnds(w)
  /\ UNCHANGED <<sampler, sawFinite, settings, due>>

Swaps(w) ==
  /\ pc[w] = "swap" /\ Swap(w)
  /\ UNCHANGED <<sampler, sawFinite, settings, due>>

-----------------------------------------------------------------------------
SamplerStep ==
  \/ \E k \in 0..1 : Sample(k)
  \/ SampleAsks \/ SampleDone \/ SampleFlags \/ SampleLoads \/ SampleSwaps \/ SampleStarts

SettingsStep ==
  \/ Forever \/ ForeverClears \/ \E k \in 0..1 : Finite(k)
  \/ FiniteAsks \/ FiniteFlags \/ FiniteLoads \/ FiniteSwaps \/ FiniteStarts

WorkerStep(w) ==
  \/ Claim(w) \/ Spawn(w)
  \/ CommitSynced(w) \/ CommitUnsynced(w) \/ Superseded(w) \/ CommitDeferred(w)
  \/ Settle(w) \/ Clear(w) \/ Unflag(w) \/ Recheck(w) \/ Finish(w)
  \/ Look(w) \/ Load(w) \/ Swaps(w)

RetentionNext == SamplerStep \/ SettingsStep \/ \E w \in Worker : WorkerStep(w)

RetentionSpec == RetentionInit /\ [][RetentionNext]_retention

\* Scheduling only: the sampler samples for ever, a settings commit that has begun
\* is carried through, and a thread that could take the control lock again and
\* again gets it.  How an attempt ends is nobody's promise.
FairSpec ==
  /\ RetentionSpec
  /\ WF_retention(SamplerStep)
  /\ WF_retention(ForeverClears \/ FiniteAsks \/ FiniteFlags \/ FiniteLoads \/ FiniteSwaps
                  \/ FiniteStarts)
  /\ SF_retention(FiniteAsks) /\ SF_retention(SampleAsks)
  /\ \A w \in Worker : SF_retention(WorkerStep(w))

-----------------------------------------------------------------------------
\* Every variable has its type; the control lock is held by the thread that is
\* inside its critical section.
RetentionTypeOK ==
  /\ {finite, pending, running, sawFinite, due} \subseteq BOOLEAN
  /\ dropped \in 0..MaxDropped
  /\ fresh \in [Worker -> BOOLEAN] /\ claimed \in [Worker -> 0..MaxDropped]
  /\ pc \in [Worker -> {"idle", "claim", "cutoff", "compact", "settle", "clear",
                        "unflag", "recheck", "finish", "look", "start", "swap"}]
  /\ outcome \in [Worker -> {"none", "durable", "unsynced", "superseded", "deferred"}]
  /\ sampler \in {"idle", "append", "request", "start", "swap", "spawn"}
  /\ settings \in {"idle", "forever", "prune", "request", "start", "swap", "spawn"}
  /\ lock \in {"free", "sampler", "settings"}
  /\ lock = "sampler" <=> sampler = "request"
  /\ lock = "settings" <=> settings \in {"forever", "request"}

\* One worker at a time works on the file and on the flags, although the running
\* flag is cleared before a worker's last look at them.
Busy(p) == p \notin {"idle", "look", "start", "swap"}
OneWorker ==
  /\ \A v, w \in Worker : Busy(pc[v]) /\ Busy(pc[w]) => v = w
  /\ running <=> \E w \in Worker : Busy(pc[w])

\* A request is never forgotten: while the latest finite cutoff has not been
\* compacted to, compaction_pending says so, except for the moment between a
\* worker's clearing the flag and its second look at the generation.
DebtShown ==
  due => \/ pending
         \/ \E w \in Worker : pc[w] = "recheck" /\ ~fresh[w]

\* An attempt to compact to the latest cutoff is under way; an attempt ended
\* without a durable file.
Attempted == \E w \in Worker : pc[w] \in {"cutoff", "compact"} /\ fresh[w]
Thwarted == \E w \in Worker : outcome[w] \in {"unsynced", "superseded", "deferred"}

\* Debt is not left alone: while there is some, a new attempt to compact to the
\* latest cutoff is made again and again, however the attempts before it ended;
\* and unless they are thwarted for ever it is paid, or forgiven by unlimited
\* retention.
DebtPaid ==
  /\ []<>(due => Attempted)
  /\ <>[]~Thwarted => (due ~> ~due)

\* "Setting history.days to 0 ... clears pending work": with unlimited retention
\* nothing stays pending.
ForeverSettles == ~finite ~> (finite \/ ~pending)

\* A request for compaction stays in the flags until a worker has paid it or is
\* about to look again, and there is one worker at a time to do so.
RequestsKept == RetentionTypeOK /\ OneWorker /\ DebtShown
=============================================================================
