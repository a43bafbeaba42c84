----------------------------- MODULE HistoryLog -----------------------------
(***************************************************************************)
(* The metrics history: the append-only canonical file (history/store.rs)   *)
(* and the index in memory that is rebuilt from it (history.rs).  A process *)
(* opens the file, appends a boot record, then one sample or checkpoint per *)
(* tick; compaction rewrites the file behind a rename.  Writes may fail or  *)
(* tear, the process may crash, the wall clock may step back.               *)
(*                                                                         *)
(* One counter stands for the metric registry: it grows within a process    *)
(* and is zero again in the next one.                                       *)
(***************************************************************************)
EXTENDS Integers, Sequences, SequencesExt

CONSTANTS
  Retentions,      \* the values history.days may be given (0 keeps everything)
  MaxTime, MaxBoots, MaxSamples, MaxCount, MaxFaults   \* bounds

ASSUME ConstantsAssumption ==
  /\ Retentions \subseteq Nat /\ Retentions # {}
  /\ {MaxTime, MaxBoots, MaxSamples, MaxCount, MaxFaults} \subseteq Nat

VARIABLES
  now, faults,
  file,            \* what the path shows: a sequence of lines, <<>> if absent
  safe,            \* what the inode holds on disk: file, less an unsynced tail
  old,             \* what the path may show after a crash instead: the contents
                   \* replaced by a rename whose directory is not yet synced
  mode,            \* "down", "canonical" or, when open failed, "memory"
  boot,            \* the process
  last_state, last_timestamp, poisoned,             \* HistoryStore
  points, gaps, last_parsed, last_sample_boot,      \* HistoryInner
  days, floor,     \* retention; history: the latest cutoff ever computed
  job,             \* a sample indexed and not yet written
  worker,          \* the compaction task
  taken,           \* history: the samples taken, whatever became of them
  owed             \* history: those reported durable

disk == <<file, safe, old>>
store == <<last_state, last_timestamp, poisoned>>
index == <<points, gaps, last_parsed, last_sample_boot>>
ghost == <<taken, owed>>
vars == <<now, faults, disk, mode, boot, store, index, days, floor, job, worker,
          ghost>>

None == -1
Never == MaxTime + 1          \* u64::MAX, the end of an open gap
NoJob == [n |-> 0, t |-> 0, v |-> 0]
Idle == [pc |-> "idle", stale |-> FALSE]

-----------------------------------------------------------------------------
(* Lines.  A record is written with its newline ("ok"); an interrupted write *)
(* leaves a part of it ("torn") or all but the newline ("bare").  A torn     *)
(* line that was terminated later is "junk", a bare one decodes from then on  *)
(* ("late", like "ok").  n, the number of the sample, is for the properties.  *)

Line(kind, t, v, n) ==
  [kind |-> kind, t |-> t, boot |-> boot, v |-> v, n |-> n, form |-> "ok"]

Decodes == {"ok", "late"}

Unterminated(f) == f # <<>> /\ Last(f).form \in {"torn", "bare"}

\* Bytes written after an unterminated line continue it: neither decodes.
Write(f, line) ==
  IF Unterminated(f) THEN Append(Front(f), [Last(f) EXCEPT !.form = "junk"])
                     ELSE Append(f, line)

\* What a write that fails, or that a crash interrupts, can leave.
Tails(f, line) ==
  {f, Write(f, line), Write(f, [line EXCEPT !.form = "torn"]),
   Write(f, [line EXCEPT !.form = "bare"])}

SeparatedNever(f) == f                                             \* mutant
Separated(f) ==
  IF ~Unterminated(f) THEN f
  ELSE Append(Front(f), [Last(f) EXCEPT
                !.form = IF @ = "bare" THEN "late" ELSE "junk"])

-----------------------------------------------------------------------------
(* The scanner: one pass over the lines in file order.                       *)

Fresh == [st |-> "AwaitBoot", epoch |-> <<>>, records |-> <<>>, gaps |-> <<>>,
          bound |-> None]

OpenGap(gs, from) ==
  IF gs # <<>> /\ Last(gs).to = Never
  THEN [gs EXCEPT ![Len(gs)].from = Min({@, from})]
  ELSE Append(gs, [from |-> from, to |-> Never])

CloseGap(gs, t) ==
  [i \in DOMAIN gs |-> IF gs[i].to = Never THEN [gs[i] EXCEPT !.to = t] ELSE gs[i]]

Advance(s, t) == [s EXCEPT !.bound = Max({@, t})]

Commit(s) == [s EXCEPT !.records = @ \o s.epoch, !.epoch = <<>>, !.st = "AwaitBoot"]

ExcludeQuietly(s) == [s EXCEPT !.epoch = <<>>]                     \* mutant
Exclude(s) ==
  [s EXCEPT !.gaps = OpenGap(@, s.epoch[1].t), !.epoch = <<>>]

Pending(s) == s.st \in {"AwaitSample", "Usable"}

\* A damaged line invalidates the epoch it stands in, or is a gap of its own.
Invalidate(s, at) ==
  [(IF Pending(s) THEN Exclude(s) ELSE [s EXCEPT !.gaps = OpenGap(@, at)])
     EXCEPT !.st = "InvalidEpoch"]

\* An epoch ends: with a sample it is kept, without one it is excluded.
Finished(s) ==
  CASE s.st = "Usable" -> Commit(s)
    [] s.st = "AwaitSample" -> Exclude(s)
    [] OTHER -> s

StartBoot(s, line) ==
  LET done == Finished(s)
  IN  [done EXCEPT !.gaps = CloseGap(@, line.t), !.st = "AwaitSample",
                   !.epoch = <<line>>]

Ingest(s, line) ==
  IF Pending(s) /\ s.epoch[1].boot = line.boot
     /\ (s.st = "Usable" \/ line.kind = "sample")
  THEN [s EXCEPT !.epoch = Append(@, line), !.st = "Usable"]
  ELSE Invalidate(s, line.t)

Damaged(s) == Invalidate(s, Max({s.bound, 0}))

Scanned(s, line) ==
  CASE line.form \in {"torn", "junk"} -> Damaged(s)
    [] line.form = "bare" -> Invalidate(Advance(s, line.t), line.t)
    [] line.form \in Decodes /\ line.t < s.bound -> Invalidate(s, line.t)
    [] line.form \in Decodes /\ line.t >= s.bound /\ line.kind = "boot" ->
         StartBoot(Advance(s, line.t), line)
    [] OTHER -> Ingest(Advance(s, line.t), line)

\* validate_canonical
Pass(f) ==
  LET After[i \in 0..Len(f)] == IF i = 0 THEN Fresh ELSE Scanned(After[i - 1], f[i])
  IN  After[Len(f)]

Scan(f) == Finished(Pass(f))

-----------------------------------------------------------------------------
(* What compaction keeps: per epoch its boot, the last full sample before    *)
(* the cutoff and everything from the cutoff on.                             *)

KeptNoBaseline(rs, cutoff) ==                                      \* mutant
  {i \in DOMAIN rs : rs[i].kind = "boot" \/ rs[i].t >= cutoff}

EpochOf(rs, i) == Max({j \in 1..i : rs[j].kind = "boot"})
Epoch(rs, i) == {j \in DOMAIN rs : EpochOf(rs, j) = EpochOf(rs, i)}
Wanted(rs, cutoff, i) ==
  rs[i].boot = boot \/ \E j \in Epoch(rs, i) : rs[j].t >= cutoff
Before(rs, cutoff, i) ==
  {j \in Epoch(rs, i) : rs[j].kind = "sample" /\ rs[j].t < cutoff}
Baseline(rs, cutoff, i) ==
  i \in Before(rs, cutoff, i) /\ i = Max(Before(rs, cutoff, i))

Kept(rs, cutoff) ==
  {i \in DOMAIN rs : /\ Wanted(rs, cutoff, i)
                     /\ \/ rs[i].kind = "boot" \/ Baseline(rs, cutoff, i)
                        \/ rs[i].t >= cutoff}

\* The members of a sequence at the positions in keep.
Only(rs, keep) ==
  LET Out[i \in 0..Len(rs)] ==
        IF i = 0 THEN <<>>
        ELSE IF i \in keep THEN Append(Out[i - 1], rs[i]) ELSE Out[i - 1]
  IN  Out[Len(rs)]

Retained(rs, cutoff) == Only(rs, Kept(rs, cutoff))

-----------------------------------------------------------------------------
(* The index.                                                                *)

\* normalize, for one counter: a reset, declared or inferred from a decrease,
\* starts counting from zero.
Normalize(previous, current, reset) ==
  IF reset \/ previous = None \/ current < previous THEN current
                                                    ELSE current - previous

Cutoff(d, t) == IF d = 0 THEN 0 ELSE Max({t - d, 0})

ResetNever(last, lastBoot, b) == FALSE                             \* mutant
Reset(last, lastBoot, b) == last # None /\ lastBoot # b

Indexed(x, t, b, v, n, cutoff) ==
  [x EXCEPT
     !.points = IF t < cutoff THEN @
                ELSE Append(@, [n |-> n, t |-> t,
                     d |-> Normalize(x.last, v, Reset(x.last, x.lastBoot, b))]),
     !.last = v, !.lastBoot = b]

NoIndex == [points |-> <<>>, last |-> None, lastBoot |-> 0, state |-> None]

\* enrich_canonical_replay: a checkpoint repeats the state of the sample
\* before it in the same epoch.
Enriched(x, line, cutoff) ==
  CASE line.kind = "boot" -> [x EXCEPT !.state = None]
    [] line.kind = "sample" ->
         [Indexed(x, line.t, line.boot, line.v, line.n, cutoff) EXCEPT !.state = line.v]
    [] OTHER -> Indexed(x, line.t, line.boot, x.state, line.n, cutoff)

Replayed(rs, cutoff) ==
  LET After[i \in 0..Len(rs)] ==
        IF i = 0 THEN NoIndex ELSE Enriched(After[i - 1], rs[i], cutoff)
  IN  After[Len(rs)]

PrunedBy(cutoff) == Only(points, {i \in DOMAIN points : points[i].t >= cutoff})

StampAsGiven(t) == t                                               \* mutant
StampStrict(t) == Max({t, last_timestamp + 1})                     \* mutant
Stamp(t) ==
  Max({t} \cup (IF points = <<>> THEN {} ELSE {Last(points).t})
          \cup (IF mode = "canonical" THEN {last_timestamp} ELSE {}))

-----------------------------------------------------------------------------
Init ==
  /\ now = 0 /\ faults = 0 /\ file = <<>> /\ safe = <<>> /\ old = {}
  /\ mode = "down" /\ boot = 0
  /\ last_state = None /\ last_timestamp = None /\ poisoned = FALSE
  /\ points = <<>> /\ gaps = <<>> /\ last_parsed = None /\ last_sample_boot = 0
  /\ days \in Retentions /\ floor = 0 /\ job = NoJob /\ worker = Idle
  /\ taken = <<>> /\ owed = {}

Fault == faults < MaxFaults /\ faults' = faults + 1

BootLine == [Line("boot", now, 0, 0) EXCEPT !.boot = boot + 1]

Starting(m) ==
  /\ mode = "down" /\ boot < MaxBoots
  /\ mode' = m /\ boot' = boot + 1
  /\ last_state' = None /\ poisoned' = FALSE
  /\ floor' = Max({floor, Cutoff(days, now)})
  /\ job' = NoJob /\ worker' = Idle
  /\ UNCHANGED <<now, days, ghost>>

\* History::open: scan, append the boot record, index what was recovered.  The
\* first boot record is published by hard link and directory sync.
Open ==
  LET found == Scan(file)
      x     == Replayed(found.records, Cutoff(days, now))
  IN  /\ now >= found.bound
      /\ Starting("canonical")
      /\ file' = Write(Separated(file), BootLine)
      /\ safe' = file' /\ old' = IF file = <<>> THEN {} ELSE old
      /\ last_timestamp' = now
      /\ points' = x.points /\ gaps' = CloseGap(found.gaps, now)
      /\ last_parsed' = x.last /\ last_sample_boot' = x.lastBoot
      /\ UNCHANGED faults

\* History::load(None): nothing is read and nothing will be written.
InMemory ==
  /\ Starting("memory")
  /\ last_timestamp' = None /\ points' = <<>> /\ gaps' = <<>>
  /\ last_parsed' = None /\ last_sample_boot' = 0

\* The clock is behind the file: open refuses and leaves the file alone.
OpenRefused ==
  /\ now < Scan(file).bound
  /\ InMemory
  /\ UNCHANGED <<faults, disk>>

\* The boot record could not be written, synced or published.
OpenFails ==
  /\ now >= Scan(file).bound
  /\ Fault /\ InMemory
  /\ IF file = <<>>
     THEN /\ file' \in {<<>>, <<BootLine>>}
          /\ safe' = file' /\ old' = {<<>>}
     ELSE /\ file' \in {file} \cup Tails(Separated(file), BootLine)
          /\ UNCHANGED <<safe, old>>

Crash ==
  /\ mode # "down" /\ Fault
  /\ file' \in {file, safe} \cup old
  /\ safe' = file' /\ old' = {}
  /\ mode' = "down"
  /\ last_state' = None /\ last_timestamp' = None /\ poisoned' = FALSE
  /\ points' = <<>> /\ gaps' = <<>> /\ last_parsed' = None
  /\ last_sample_boot' = 0 /\ job' = NoJob /\ worker' = Idle
  /\ UNCHANGED <<now, boot, days, floor, ghost>>

-----------------------------------------------------------------------------
\* The counter at the last sample of the running process.
Counted ==
  LET mine == {m \in DOMAIN taken : taken[m].boot = boot}
  IN  IF mine = {} THEN 0 ELSE taken[Max(mine)].v

\* append, under the lock of the index.  A change of the index's revision makes
\* a running compaction's replay stale.
AppendIndexed(v) ==
  LET t == Stamp(now)
      n == Len(taken) + 1
      cutoff == Cutoff(days, t)
      d == Normalize(last_parsed, v, Reset(last_parsed, last_sample_boot, boot))
  IN  /\ mode # "down" /\ job = NoJob /\ n <= MaxSamples /\ v >= Counted
      /\ points' = Append(PrunedBy(cutoff), [n |-> n, t |-> t, d |-> d])
      /\ last_parsed' = v /\ last_sample_boot' = boot
      /\ floor' = Max({floor, cutoff})
      /\ job' = IF mode = "canonical" THEN [n |-> n, t |-> t, v |-> v] ELSE NoJob
      /\ worker' = [worker EXCEPT !.stale = worker.pc # "idle"]
      /\ taken' = Append(taken, [boot |-> boot, t |-> t, v |-> v])
      /\ UNCHANGED <<now, faults, disk, mode, boot, store, gaps, days, owed>>

\* An unchanged state is written as a checkpoint, which carries none.
NextLine ==
  IF last_state = job.v THEN Line("check", job.t, None, job.n)
                        ELSE Line("sample", job.t, job.v, job.n)

\* append_sample, under the lock of the store: written, flushed and synced.
AppendWritten ==
  /\ job # NoJob /\ ~poisoned /\ job.t >= last_timestamp
  /\ file' = Write(file, NextLine) /\ safe' = file'
  /\ last_state' = job.v /\ last_timestamp' = job.t
  /\ owed' = IF old = {} THEN owed \cup {job.n} ELSE owed
  /\ job' = NoJob
  /\ UNCHANGED <<now, faults, old, mode, boot, poisoned, index, days, floor,
                 worker, taken>>

\* An error of the write or of the sync: the store accepts nothing any more.
AppendFails ==
  /\ job # NoJob /\ ~poisoned /\ job.t >= last_timestamp /\ Fault
  /\ file' \in Tails(file, NextLine)
  /\ poisoned' = TRUE /\ job' = NoJob
  /\ UNCHANGED <<now, safe, old, mode, boot, last_state, last_timestamp,
                 index, days, floor, worker, ghost>>

AppendRejected ==
  /\ job # NoJob /\ (poisoned \/ job.t < last_timestamp)
  /\ job' = NoJob
  /\ UNCHANGED <<now, faults, disk, mode, boot, store, index, days, floor,
                 worker, ghost>>

-----------------------------------------------------------------------------
DeferredWhileOpen(found, cutoff) ==                                \* mutant
  last_state = None \/ \E i \in DOMAIN found.gaps : found.gaps[i].to = Never
Deferred(found, cutoff) ==
  \/ \E i \in DOMAIN found.gaps : found.gaps[i].to > cutoff
  \/ last_state = None

\* The replacement is exactly the retained stream, with no recovery evidence.
Validates(rs) == LET again == Scan(rs) IN again.records = rs /\ again.gaps = <<>>

LiveState(rs) ==
  LET mine == {i \in DOMAIN rs : rs[i].kind = "sample" /\ rs[i].boot = boot}
  IN  IF mine = {} THEN None ELSE rs[Max(mine)].v

\* The worker, under the lock of the store and with a cutoff some request
\* computed.  It gives up while a rewrite would erase evidence of a gap that
\* still matters.  The temporary is written and synced, renamed over the path
\* and becomes the live writer; then the directory is synced, or that fails.
\* The index may have changed since the worker noted its revision.
CompactReplaced(cutoff) ==
  LET found == Scan(file)
      new   == Retained(found.records, cutoff)
  IN  /\ mode = "canonical" /\ worker.pc = "idle"
      /\ ~Deferred(found, cutoff) /\ Validates(new)
      /\ file' = new /\ safe' = new
      /\ \/ /\ old' = {} /\ UNCHANGED faults
            /\ owed' = (owed \cup {new[i].n : i \in DOMAIN new}) \ {0}
         \/ old' = old \cup {safe} /\ Fault /\ UNCHANGED owed
      /\ last_timestamp' = IF new = <<>> THEN None ELSE Last(new).t
      /\ last_state' = LiveState(new)
      /\ worker' \in [pc : {"replaced"}, stale : BOOLEAN]
      /\ UNCHANGED <<now, mode, boot, poisoned, index, days, floor, job,
                     taken>>

\* install_canonical_replay_if_unchanged
Install ==
  /\ worker.pc = "replaced"
  /\ gaps' = IF worker.stale THEN gaps ELSE <<>>
  /\ worker' = Idle
  /\ UNCHANGED <<now, faults, disk, mode, boot, store, points, last_parsed,
                 last_sample_boot, days, floor, job, ghost>>

\* reconfigure_retention
Reconfigure(d) ==
  LET cutoff == Cutoff(d, now)
      kept == IF d = 0 THEN points ELSE PrunedBy(cutoff)
  IN  /\ mode # "down" /\ d # days
      /\ days' = d /\ points' = kept
      /\ floor' = Max({floor, cutoff})
      /\ worker' = [worker EXCEPT !.stale = @ \/ (worker.pc # "idle" /\ kept # points)]
      /\ UNCHANGED <<now, faults, disk, mode, boot, store, gaps, last_parsed,
                     last_sample_boot, job, ghost>>

\* The wall clock: read by open, append and reconfigure_retention only, so it
\* need not move while a sample is being written or a replay installed.
Clock(t) ==
  /\ job = NoJob /\ worker = Idle
  /\ IF t > now THEN UNCHANGED faults ELSE Fault
  /\ now' = t
  /\ UNCHANGED <<disk, mode, boot, store, index, days, floor, job, worker,
                 ghost>>

Next ==
  \/ Open \/ OpenRefused \/ OpenFails \/ Crash
  \/ \E v \in 0..MaxCount : AppendIndexed(v)
  \/ AppendWritten \/ AppendFails \/ AppendRejected
  \/ \E c \in 1..floor : CompactReplaced(c)
  \/ Install
  \/ \E d \in Retentions : Reconfigure(d)
  \/ \E t \in {now - 1, now + 1} \cap 0..MaxTime : Clock(t)

Spec == Init /\ [][Next]_vars
-----------------------------------------------------------------------------
(* Queries.                                                                  *)

\* rollup: the points a window (from, to] selects, and the time each accounts
\* for; the first point of the history accounts for none before it.
Within(from, to) == {i \in DOMAIN points : from < points[i].t /\ points[i].t <= to}

Since(i, from) ==
  IF i = 1 THEN points[i].t ELSE Max({points[i - 1].t, from})

BucketUnclamped(i, from, to, budget) ==                            \* mutant
  ((points[i].t - from) * budget) \div (to - from)

Bucket(i, from, to, budget) ==
  Min({((points[i].t - from) * budget) \div (to - from), budget - 1})

\* The time each bucket accounts for, point by point.
Durations(from, to, budget) ==
  LET After[i \in 0..Len(points)] ==
        IF i = 0 THEN [b \in 0..(budget - 1) |-> 0]
        ELSE IF i \notin Within(from, to) THEN After[i - 1]
        ELSE [After[i - 1] EXCEPT
                ![Bucket(i, from, to, budget)] = @ + (points[i].t - Since(i, from))]
  IN  After[Len(points)]

EffectiveFrom(from, to) ==
  LET first == Min(Within(from, to)) IN Since(first, from)

EffectiveTo(from, to) == points[Max(Within(from, to))].t

Complete(from, to) ==
  /\ Within(from, to) # {}
  /\ ~ \E i \in DOMAIN gaps : gaps[i].from < to /\ from < gaps[i].to

\* current: what the counter gained since the last sample.
LiveTailNoReset(count) == Normalize(last_parsed, count, FALSE)     \* mutant
LiveTail(count) == Normalize(last_parsed, count,
                      Reset(last_parsed, last_sample_boot, boot))

-----------------------------------------------------------------------------
Records == [kind : {"boot", "sample", "check"}, t : 0..MaxTime, boot : 1..MaxBoots,
            v : None..MaxCount, n : 0..MaxSamples,
            form : {"ok", "late", "bare", "torn", "junk"}]

\* Every variable has its type, and a process without the canonical store
\* writes nothing.
TypeOK ==
  /\ now \in 0..MaxTime /\ faults \in 0..MaxFaults
  /\ ToSet(file) \subseteq Records /\ ToSet(safe) \subseteq Records
  /\ \A f \in old : ToSet(f) \subseteq Records
  /\ mode \in {"down", "canonical", "memory"} /\ boot \in 0..MaxBoots
  /\ last_state \in None..MaxCount
  /\ last_timestamp \in None..MaxTime /\ poisoned \in BOOLEAN
  /\ ToSet(points) \subseteq [n : 1..MaxSamples, t : 0..MaxTime, d : 0..MaxCount]
  /\ ToSet(gaps) \subseteq [from : 0..MaxTime, to : 0..Never]
  /\ last_parsed \in None..MaxCount /\ last_sample_boot \in 0..MaxBoots
  /\ days \in Retentions /\ floor \in 0..MaxTime
  /\ job \in [n : 0..MaxSamples, t : 0..MaxTime, v : 0..MaxCount]
  /\ worker \in [pc : {"idle", "replaced"}, stale : BOOLEAN]
  /\ Len(taken) <= MaxSamples /\ owed \subseteq 1..Len(taken)
  /\ mode # "canonical" => job = NoJob /\ worker = Idle

\* The increase of sample n over the one its process took before it.
Gained(n) ==
  LET earlier == {m \in 1..(n - 1) : taken[m].boot = taken[n].boot}
  IN  taken[n].v - (IF earlier = {} THEN 0 ELSE taken[Max(earlier)].v)

\* Every point younger than every cutoff shows exactly what was counted since the
\* sample before it: also after a restart, from checkpoints, and when compaction
\* has removed all but a baseline of what came before.
DeltasExact ==
  \A i \in DOMAIN points : points[i].t >= floor => points[i].d = Gained(points[i].n)

\* What compaction keeps preserves the counter deltas after a restart, those of
\* the baseline too.
DeltasPreserved == \A i \in DOMAIN points : points[i].d = Gained(points[i].n)

\* The tail the dashboard adds to the history is what the live process counted
\* since its last sample, all of it if it has taken none.
TailExact ==
  mode # "down" =>
    \A count \in Counted..MaxCount : LiveTail(count) = count - Counted

\* A sample reported durable and younger than every cutoff is found again when
\* the file is scanned, or the scan reports a gap over its time: no crash, torn
\* write, restart or compaction makes it disappear silently.
Recoverable ==
  LET found == Scan(file)
  IN  \A n \in owed : taken[n].t > floor =>
        \/ \E i \in DOMAIN found.records : found.records[i].n = n
        \/ \E i \in DOMAIN found.gaps : /\ found.gaps[i].from <= taken[n].t
                                        /\ taken[n].t <= found.gaps[i].to

\* What a process has written since it opened the file is readable, whatever
\* damage it found there, until a write of its own fails.
LiveReadable ==
  mode = "canonical" /\ ~poisoned =>
    LET found == {r.n : r \in ToSet(Scan(file).records)}
    IN  \A n \in owed : taken[n].boot = boot /\ taken[n].t > floor => n \in found

\* The durable samples a window served as complete lacks although retention
\* keeps them.  In the window's last second rollup sees a sample but not a gap
\* beginning there: it takes points up to `to` and gaps from before it.
Missing(from, to) ==
  {n \in owed : /\ from < taken[n].t /\ taken[n].t < to /\ taken[n].t > floor
                /\ \A i \in DOMAIN points : points[i].n # n}

Served == {w \in (0..MaxTime) \X (0..MaxTime) :
             mode = "canonical" /\ w[1] < w[2] /\ Complete(w[1], w[2])}

\* Recovery never presents a gap as complete: a complete window lacks no durable
\* sample.
DamageShown == \A w \in Served : Missing(w[1], w[2]) = {}

\* The same for the samples of every process whose last record has its newline.
NothingHidden ==
  LET revived == {file[i].boot : i \in {j \in DOMAIN file : file[j].form = "late"}}
  IN  \A w \in Served : \A n \in Missing(w[1], w[2]) : taken[n].boot \in revived

\* What compaction would write always validates as itself: the rewrite can only
\* be deferred, never be found wrong.
ReplacementValidates ==
  mode = "canonical" /\ last_state # None =>
    LET found == Scan(file)
    IN  \A c \in 1..floor :
          (\A i \in DOMAIN found.gaps : found.gaps[i].to <= c) =>
            Validates(Retained(found.records, c))

\* Until a write of its own fails a process never rejects a sample as older than
\* the file, whatever the clock does and whatever compaction did to the file since
\* it was stamped.
NeverBehind == job # NoJob /\ ~poisoned => job.t >= last_timestamp

\* The buckets of a rollup account for every moment between its effective
\* bounds exactly once, wherever the window cuts the history.
RollupCovers ==
  \A from, to \in 0..MaxTime : from < to /\ Within(from, to) # {} =>
    LET halves == Durations(from, to, 2)
    IN  halves[0] + halves[1] = EffectiveTo(from, to) - EffectiveFrom(from, to)

\* No crash, torn or failed write, restart or compaction makes a durable sample
\* disappear silently: not from the file, not from what the process that wrote
\* it can read back, not from a window the dashboard shows as complete.
NothingLost == Recoverable /\ LiveReadable /\ NothingHidden

\* What is shown adds up to what was counted: the point of each sample, the live
\* tail after the last one, and the buckets a rollup divides a window into.
CountsExact == DeltasExact /\ TailExact /\ RollupCovers

\* The process and its file stay in step: compaction's output validates, and no
\* sample is stamped behind what the file already holds.
FileSound == TypeOK /\ ReplacementValidates /\ NeverBehind
=============================================================================
