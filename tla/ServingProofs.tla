--------------------------- MODULE ServingProofs ---------------------------
(***************************************************************************)
(* Every exit of a request gives back what it shares and is measured, for    *)
(* any number of requests, permits and retries.  A request's own state is     *)
(* tied to the place it waits at (Local): that is what makes the exits agree  *)
(* although the deadline may strike at any await point.  The in-flight        *)
(* counter, the permits and the catalogue lock are counted over all of them.  *)
(***************************************************************************)
EXTENDS Serving, FiniteSetTheorems, TLAPS

USE ConstantsAssumption

Places == Awaiting \cup {"idle", "shed", "auth", "buffer", "body", "lock", "fetch", "done"}

Job == [deadline : BOOLEAN, waited : BOOLEAN, chan : 0..Cap, gone : BOOLEAN,
        fallback : BOOLEAN, observer : BOOLEAN, tries : 0..MaxTries]

Tally == [served : BOOLEAN, began : BOOLEAN, accounted : Nat, recorded : Nat,
          late : BOOLEAN, dropped : BOOLEAN]

Typed ==
  /\ pc \in [Request -> Places] /\ job \in [Request -> Job]
  /\ tally \in [Request -> Tally]

(* What a request that waits at p owns and has been counted for.            *)
Relaying == {"relay", "push"}
Local(p, j, t) ==
  /\ j.observer <=> p \in Relaying
  /\ t.began => p \in Relaying \cup {"last", "done"}
  /\ p \in Relaying => t.began
  /\ t.accounted = IF t.began /\ p \in {"last", "done"} THEN 1 ELSE 0
  /\ p \notin {"last", "body", "done"} => t.recorded = 0
  /\ p \in {"last", "body"} => t.recorded = 1
  /\ t.served => p \notin {"idle", "shed", "auth"}
  /\ p = "done" /\ t.served => t.recorded = IF t.late THEN 2 ELSE IF t.dropped THEN 0 ELSE 1
  /\ p # "done" => ~t.late /\ ~t.dropped
  /\ p \in {"detail", "retry"} => j.tries < MaxTries

Locals == \A r \in Request : Local(pc[r], job[r], tally[r])

(* One refresh at a time, and only while nothing is cached.                  *)
Catalogue ==
  /\ lock \in Request \cup {None} /\ cache \in BOOLEAN
  /\ \A r \in Request : pc[r] = "fetch" <=> lock = r
  /\ lock # None => ~cache
  /\ refreshes = IF cache THEN 1 ELSE 0

IInv ==
  /\ Typed /\ Locals /\ Catalogue
  /\ permits \subseteq Request /\ PermitsReturned /\ InflightExact

-----------------------------------------------------------------------------
(* The records the steps make are jobs and tallies, and what they change.    *)
LEMMA FreshJob == Fresh \in Job /\ Fresh.observer = FALSE
BY DEF Fresh, Job

(* A frame is queued for the client only where there is room for it.         *)
LEMMA FramedJob ==
  ASSUME NEW j \in Job, j.gone \/ j.chan < Cap
  PROVE  Framed(j) \in Job /\ Framed(j).observer = j.observer
BY DEF Framed, Job

(* An attempt that is settled is still a job, with an observer or without.   *)
LEMMA SettledJob ==
  ASSUME NEW j \in Job
  PROVE  /\ Settled(j) \in Job /\ Settled(j).observer = j.observer
         /\ [Settled(j) EXCEPT !.observer = TRUE] \in Job
         /\ [Settled(j) EXCEPT !.observer = TRUE].observer = TRUE
<1>1. Settled(j) \in Job /\ Settled(j).observer = j.observer
  <2> DEFINE a == [j EXCEPT !.waited = FALSE]
             b == [a EXCEPT !.fallback = FALSE]
             c == [b EXCEPT !.tries = 0]
  <2>1. a \in Job /\ a.observer = j.observer
    BY DEF Job
  <2>2. b \in Job /\ b.observer = j.observer
    <3> HIDE DEF a
    <3> QED BY <2>1 DEF Job
  <2>3. c \in Job /\ c.observer = j.observer
    <3> HIDE DEF b
    <3> QED BY <2>2 DEF Job
  <2>4. Settled(j) = c
    BY DEF Settled
  <2> QED BY <2>3, <2>4
<1> DEFINE s == Settled(j)
<1>2. [s EXCEPT !.observer = TRUE] \in Job /\ [s EXCEPT !.observer = TRUE].observer = TRUE
  <2> HIDE DEF s
  <2>1. s \in Job
    BY <1>1 DEF s
  <2> QED BY <2>1 DEF Job
<1> QED BY <1>1, <1>2

(* One attempt more, of the MaxTries a request has.                          *)
LEMMA TriedJob ==
  ASSUME NEW j \in Job, j.tries < MaxTries
  PROVE  Tried(j) \in Job /\ Tried(j).observer = j.observer
         /\ Tried(j).gone = j.gone /\ Tried(j).chan = j.chan
BY DEF Tried, Job

(* record counts a request once more and touches nothing else.               *)
LEMMA CountedTally ==
  ASSUME NEW t \in Tally
  PROVE  /\ Counted(t) \in Tally /\ Counted(t).recorded = t.recorded + 1
         /\ Counted(t).began = t.began /\ Counted(t).served = t.served
         /\ Counted(t).accounted = t.accounted /\ Counted(t).late = t.late
         /\ Counted(t).dropped = t.dropped
BY DEF Counted, Tally

(* An observer that is dropped accounts for its response.                    *)
LEMMA FinalizedTally ==
  ASSUME NEW r \in Request, NEW t \in Tally
  PROVE  /\ Finalized(r, t) \in Tally
         /\ Finalized(r, t).accounted = IF job[r].observer THEN t.accounted + 1 ELSE t.accounted
         /\ Finalized(r, t).began = t.began /\ Finalized(r, t).served = t.served
         /\ Finalized(r, t).recorded = t.recorded /\ Finalized(r, t).late = t.late
         /\ Finalized(r, t).dropped = t.dropped
BY DEF Finalized, Tally

-----------------------------------------------------------------------------
(* A step of r: its place, its job and its tally change, nobody else's.      *)
Changed(r, p, j, t) ==
  /\ pc' = [pc EXCEPT ![r] = p]
  /\ job' = [job EXCEPT ![r] = j]
  /\ tally' = [tally EXCEPT ![r] = t]

(* A step of one request whose new place is as it should be there.           *)
LEMMA LocalStep ==
  ASSUME IInv, NEW r \in Request, NEW p \in Places, NEW j \in Job, NEW t \in Tally,
         Changed(r, p, j, t), Local(p, j, t)
  PROVE  /\ Typed' /\ Locals' /\ pc'[r] = p
         /\ \A q \in Request \ {r} : pc'[q] = pc[q]
<1>1. Typed'
  BY DEF IInv, Typed, Changed
<1>2. /\ pc'[r] = p /\ job'[r] = j /\ tally'[r] = t
      /\ \A q \in Request \ {r} : pc'[q] = pc[q] /\ job'[q] = job[q] /\ tally'[q] = tally[q]
  BY DEF IInv, Typed, Changed
<1>3. ASSUME NEW q \in Request PROVE Local(pc'[q], job'[q], tally'[q])
  <2>1. CASE q = r
    BY <1>2, <2>1
  <2>2. CASE q # r
    BY <1>2, <2>2 DEF IInv, Locals
  <2> QED BY <2>1, <2>2
<1> QED BY <1>1, <1>2, <1>3 DEF Locals

(* Requests inside handle or its task, and those past the gate.             *)
Inside == {r \in Request : Open(r)}
PastGate == {r \in Request : Open(r) /\ pc[r] # "shed"}

(* The requests inside can be counted.                                       *)
LEMMA InsideFinite ==
  ASSUME Typed
  PROVE  /\ IsFiniteSet(Inside) /\ Cardinality(Inside) \in Nat
         /\ Cardinality(Inside) <= Cardinality(Request)
         /\ IsFiniteSet(PastGate) /\ Cardinality(PastGate) \in Nat
BY FS_Subset, FS_CardinalityType DEF Inside, PastGate

(* The counter under an exit: one request fewer is inside.                   *)
LEMMA InflightLeaves ==
  ASSUME IInv, Typed', NEW r \in Request, Open(r), pc'[r] = "done",
         \A q \in Request \ {r} : pc'[q] = pc[q], inflight' = inflight - 1
  PROVE  InflightExact'
<1>1. Inside' = Inside \ {r} /\ r \in Inside
  BY DEF Inside, Open
<1>2. Cardinality(Inside') = Cardinality(Inside) - 1
  BY <1>1, InsideFinite, FS_RemoveElement DEF IInv
<1>3. PastGate' \subseteq PastGate
  BY DEF PastGate, Open
<1>4. Cardinality(PastGate') <= Cardinality(PastGate) /\ Cardinality(PastGate') \in Nat
  BY <1>3, InsideFinite, FS_Subset, FS_CardinalityType DEF IInv
<1>5. inflight = Cardinality(Inside) /\ Cardinality(PastGate) <= MaxInflight
  BY DEF IInv, InflightExact, Inside, PastGate
<1>6. inflight' = Cardinality(Inside') /\ Cardinality(PastGate') <= MaxInflight
  BY <1>2, <1>4, <1>5, InsideFinite DEF IInv
<1> QED BY <1>6 DEF InflightExact, Inside, PastGate, Open

(* The counter while a request goes on.                                     *)
LEMMA InflightStays ==
  ASSUME IInv, NEW r \in Request, UNCHANGED inflight,
         pc[r] \notin {"idle", "done", "shed"}, pc'[r] \notin {"idle", "done", "shed"},
         \A q \in Request \ {r} : pc'[q] = pc[q]
  PROVE  InflightExact'
<1>1. \A q \in Request : /\ Open(q) <=> Open(q)'
                         /\ Open(q) /\ pc[q] # "shed" <=> Open(q)' /\ pc'[q] # "shed"
  BY DEF Open
<1>2. Inside' = Inside /\ PastGate' = PastGate
  BY <1>1 DEF Inside, PastGate
<1>3. inflight = Cardinality(Inside) /\ Cardinality(PastGate) <= MaxInflight
  BY DEF IInv, InflightExact, Inside, PastGate
<1> QED BY <1>2, <1>3 DEF InflightExact, Inside, PastGate, Open

-----------------------------------------------------------------------------
(* The places at which a permit is held; past them the error event may be    *)
(* sent with or without one.                                                *)
Hold == {"slot", "send", "detail", "reason", "retry", "relay", "push"}

(* So can the permits.                                                       *)
LEMMA PermitsFinite ==
  ASSUME permits \subseteq Request
  PROVE  IsFiniteSet(permits) /\ Cardinality(permits) \in Nat
BY FS_Subset, FS_CardinalityType

(* A step that gives or takes one request's permit as its place demands.     *)
LEMMA PermitsStep ==
  ASSUME IInv, NEW r \in Request, \A q \in Request \ {r} : pc'[q] = pc[q],
         pc'[r] \in Places,
         Cardinality(permits') <= Workers,
         \A q \in Request \ {r} : q \in permits' <=> q \in permits,
         pc'[r] \in Hold => r \in permits',
         pc'[r] \notin Hold \cup {"last"} => r \notin permits'
  PROVE  PermitsReturned'
<1>1. ASSUME NEW q \in Request
      PROVE  /\ pc'[q] \in Hold => q \in permits'
             /\ pc'[q] \notin Awaiting \ {"connect", "permit"} => q \notin permits'
  <2>1. CASE q = r
    BY <2>1 DEF Places, Awaiting, Hold
  <2>2. CASE q # r
    BY <2>2 DEF IInv, PermitsReturned, Hold
  <2> QED BY <2>1, <2>2
<1> QED BY <1>1 DEF PermitsReturned, Hold, Awaiting

(* No exit keeps a permit.                                                  *)
LEMMA PermitDropped ==
  ASSUME IInv, NEW r \in Request, permits' = permits \ {r}
  PROVE  /\ permits' \subseteq Request /\ Cardinality(permits') <= Workers
         /\ r \notin permits' /\ \A q \in Request \ {r} : q \in permits' <=> q \in permits
<1>1. permits' \subseteq permits
  OBVIOUS
<1>2. Cardinality(permits') <= Cardinality(permits) /\ Cardinality(permits') \in Nat
  BY <1>1, PermitsFinite, FS_Subset, FS_CardinalityType DEF IInv
<1> QED BY <1>2, PermitsFinite DEF IInv, PermitsReturned

-----------------------------------------------------------------------------
(* The exits.  Whatever a handler or task owned is dropped.                 *)
LEMMA ExitStep ==
  ASSUME IInv, NEW r \in Request, Open(r), NEW t \in Tally, Exit(r),
         tally' = [tally EXCEPT ![r] = t], Local("done", Fresh, t)
  PROVE  /\ Typed' /\ Locals' /\ PermitsReturned' /\ InflightExact'
         /\ permits' \subseteq Request
         /\ pc'[r] = "done" /\ \A q \in Request \ {r} : pc'[q] = pc[q]
<1>1. Changed(r, "done", Fresh, t)
  BY DEF Exit, Goto, Changed
<1>2. /\ Typed' /\ Locals' /\ pc'[r] = "done"
      /\ \A q \in Request \ {r} : pc'[q] = pc[q]
  BY <1>1, LocalStep, FreshJob DEF Places
<1>3. InflightExact'
  BY <1>2, InflightLeaves DEF Exit, Release
<1>4. /\ permits' \subseteq Request /\ Cardinality(permits') <= Workers
      /\ r \notin permits' /\ \A q \in Request \ {r} : q \in permits' <=> q \in permits
  BY PermitDropped DEF Exit
<1>5. PermitsReturned'
  BY <1>2, <1>4, PermitsStep DEF Places, Hold
<1> QED BY <1>2, <1>3, <1>4, <1>5

(* The steps after which a request goes on, with the permits as they were.    *)
LEMMA StayStep ==
  ASSUME IInv, NEW r \in Request, NEW p \in Places \ {"idle", "done", "shed"},
         NEW j \in Job, NEW t \in Tally, Changed(r, p, j, t), Local(p, j, t),
         pc[r] \notin {"idle", "done", "shed"}, UNCHANGED <<inflight, permits>>,
         \/ p = "last" \/ (pc[r] \in Hold /\ p \in Hold)
         \/ pc[r] \notin Hold \cup {"last"} /\ p \notin Hold
  PROVE  /\ Typed' /\ Locals' /\ PermitsReturned' /\ InflightExact'
         /\ permits' \subseteq Request
         /\ pc'[r] = p /\ \A q \in Request \ {r} : pc'[q] = pc[q]
<1>1. /\ Typed' /\ Locals' /\ pc'[r] = p
      /\ \A q \in Request \ {r} : pc'[q] = pc[q]
  BY LocalStep
<1>2. InflightExact'
  BY <1>1, InflightStays
<1>3. /\ Cardinality(permits') <= Workers
      /\ pc[r] \in Hold => r \in permits
      /\ pc[r] \notin Hold \cup {"last"} => r \notin permits
  BY DEF IInv, PermitsReturned, Hold, Awaiting
<1>4. /\ pc'[r] \in Hold => r \in permits'
      /\ pc'[r] \notin Hold \cup {"last"} => r \notin permits'
  BY <1>1, <1>3 DEF Hold
<1>5. PermitsReturned'
  BY <1>1, <1>3, <1>4, PermitsStep
<1> QED BY <1>1, <1>2, <1>5 DEF IInv

(* The steps that end an attempt: the permit is dropped.                     *)
LEMMA ContinueStep ==
  ASSUME IInv, NEW r \in Request, NEW j \in Job, Continue(r, j), UNCHANGED tally,
         Local("permit", j, tally[r]), pc[r] \notin {"idle", "done", "shed"}
  PROVE  /\ Typed' /\ Locals' /\ PermitsReturned' /\ InflightExact'
         /\ permits' \subseteq Request
         /\ pc'[r] = "permit" /\ \A q \in Request \ {r} : pc'[q] = pc[q]
<1>1. tally[r] \in Tally /\ tally = [tally EXCEPT ![r] = tally[r]]
  BY DEF IInv, Typed
<1>2. Changed(r, "permit", j, tally[r])
  BY <1>1 DEF Continue, Goto, Changed
<1>3. /\ Typed' /\ Locals' /\ pc'[r] = "permit"
      /\ \A q \in Request \ {r} : pc'[q] = pc[q]
  BY <1>1, <1>2, LocalStep DEF Places, Awaiting
<1>4. InflightExact'
  BY <1>3, InflightStays DEF Continue
<1>5. /\ permits' \subseteq Request /\ Cardinality(permits') <= Workers
      /\ r \notin permits' /\ \A q \in Request \ {r} : q \in permits' <=> q \in permits
  BY PermitDropped DEF Continue
<1>6. PermitsReturned'
  BY <1>3, <1>5, PermitsStep DEF Places, Awaiting, Hold
<1> QED BY <1>3, <1>4, <1>5, <1>6

(* The catalogue is left alone by a request that is not listing models.      *)
LEMMA CatalogueSame ==
  ASSUME IInv, NEW r \in Request, pc[r] # "fetch", pc'[r] # "fetch",
         \A q \in Request \ {r} : pc'[q] = pc[q], UNCHANGED <<cache, lock, refreshes>>
  PROVE  Catalogue'
<1>1. \A q \in Request : pc[q] = "fetch" <=> pc'[q] = "fetch"
  OBVIOUS
<1> QED BY <1>1 DEF IInv, Catalogue

-----------------------------------------------------------------------------
(* What is known of one request, and that leaving a part of it alone is a     *)
(* change to what it was.                                                    *)
LEMMA Known ==
  ASSUME IInv, NEW r \in Request
  PROVE  /\ pc[r] \in Places /\ job[r] \in Job /\ tally[r] \in Tally
         /\ Local(pc[r], job[r], tally[r])
         /\ pc = [pc EXCEPT ![r] = pc[r]] /\ job = [job EXCEPT ![r] = job[r]]
         /\ tally = [tally EXCEPT ![r] = tally[r]]
BY DEF IInv, Typed, Locals

(* Initially nobody is inside and nothing is held or cached.                *)
LEMMA InitIInv == Init => IInv
<1> SUFFICES ASSUME Init PROVE IInv
  OBVIOUS
<1> DEFINE t0 == [served |-> FALSE, began |-> FALSE, accounted |-> 0,
                  recorded |-> 0, late |-> FALSE, dropped |-> FALSE]
<1>1. t0 \in Tally
  BY DEF Tally
<1>2. /\ pc = [r \in Request |-> "idle"] /\ job = [r \in Request |-> Fresh]
      /\ tally = [r \in Request |-> t0]
  BY DEF Init
<1>3. Local("idle", Fresh, t0)
  BY FreshJob DEF Local, Relaying
<1> HIDE DEF t0
<1>4. Typed
  BY <1>1, <1>2, FreshJob DEF Typed, Places
<1>5. Locals
  BY <1>2, <1>3 DEF Locals
<1>6. Catalogue
  BY DEF Init, Catalogue
<1>7. InflightExact
  <2>1. Inside = {} /\ PastGate = {}
    BY <1>2 DEF Inside, PastGate, Open
  <2>2. inflight = Cardinality(Inside) /\ Cardinality(PastGate) <= MaxInflight
    BY <2>1, FS_EmptySet DEF Init
  <2> QED BY <2>2 DEF InflightExact, Inside, PastGate
<1>8. permits \subseteq Request /\ PermitsReturned
  BY <1>2, FS_EmptySet DEF Init, PermitsReturned
<1> QED BY <1>4, <1>5, <1>6, <1>7, <1>8 DEF IInv

-----------------------------------------------------------------------------
(* A request that is refused was never inside.                              *)
LEMMA RefuseIInv == ASSUME IInv, NEW r \in Request, Refuse(r) PROVE IInv'
<1> USE DEF shared
<1>1. pc[r] = "idle" /\ UNCHANGED <<inflight, job, permits, tally, cache, lock, refreshes>>
  BY DEF Refuse
<1>2. Changed(r, "done", job[r], tally[r])
  BY <1>1, Known DEF Refuse, Goto, Changed
<1>3. Local("done", job[r], tally[r])
  BY <1>1, Known DEF Local, Relaying
<1>4. /\ Typed' /\ Locals' /\ pc'[r] = "done"
      /\ \A q \in Request \ {r} : pc'[q] = pc[q]
  BY <1>2, <1>3, Known, LocalStep DEF Places
<1>5. InflightExact'
  <2>1. Inside' = Inside /\ PastGate' = PastGate
    BY <1>1, <1>4 DEF Inside, PastGate, Open
  <2>2. inflight = Cardinality(Inside) /\ Cardinality(PastGate) <= MaxInflight
    BY DEF IInv, InflightExact, Inside, PastGate
  <2> QED BY <1>1, <2>1, <2>2 DEF InflightExact, Inside, PastGate, Open
<1>6. PermitsReturned' /\ permits' \subseteq Request
  <2>1. r \notin permits /\ Cardinality(permits) <= Workers
    BY <1>1 DEF IInv, PermitsReturned, Awaiting
  <2> QED BY <1>1, <1>4, <2>1, PermitsStep DEF Places, Hold, IInv
<1>7. Catalogue'
  BY <1>1, <1>4, CatalogueSame
<1> QED BY <1>4, <1>5, <1>6, <1>7 DEF IInv

(* One request more is inside; past the gate only if all of them may be.      *)
LEMMA ArriveIInv == ASSUME IInv, NEW r \in Request, Arrive(r) PROVE IInv'
<1> USE DEF shared
<1> DEFINE p == IF Sheds(inflight + 1) THEN "shed" ELSE "auth"
<1>1. pc[r] = "idle" /\ UNCHANGED <<job, permits, tally, cache, lock, refreshes>>
  BY DEF Arrive
<1>2. Changed(r, p, job[r], tally[r])
  BY <1>1, Known DEF Arrive, Goto, Changed
<1>3. p \in {"shed", "auth"}
  OBVIOUS
<1>4. Local(p, job[r], tally[r])
  BY <1>1, <1>3, Known DEF Local, Relaying
<1>5. /\ Typed' /\ Locals' /\ pc'[r] = p
      /\ \A q \in Request \ {r} : pc'[q] = pc[q]
  <2> HIDE DEF p
  <2> QED BY <1>2, <1>3, <1>4, Known, LocalStep DEF Places
<1>6. InflightExact'
  <2>1. Inside' = Inside \cup {r} /\ r \notin Inside
    BY <1>1, <1>3, <1>5 DEF Inside, Open
  <2>2. inflight = Cardinality(Inside) /\ Cardinality(PastGate) <= MaxInflight
    BY DEF IInv, InflightExact, Inside, PastGate
  <2>3. Cardinality(Inside') = Cardinality(Inside) + 1 /\ IsFiniteSet(Inside')
    BY <2>1, InsideFinite, FS_AddElement DEF IInv
  <2>4. inflight' = Cardinality(Inside')
    BY <2>2, <2>3 DEF Arrive
  <2>5. Cardinality(PastGate') <= MaxInflight
    <3>1. CASE Sheds(inflight + 1)
      <4>1. PastGate' = PastGate
        BY <3>1, <1>1, <1>5 DEF PastGate, Open
      <4> QED BY <4>1, <2>2
    <3>2. CASE ~Sheds(inflight + 1)
      <4>1. PastGate' \subseteq Inside'
        BY DEF PastGate, Inside
      <4>2. Cardinality(PastGate') <= Cardinality(Inside')
        BY <4>1, <2>3, FS_Subset
      <4>3. Cardinality(PastGate') \in Nat /\ Cardinality(Inside') \in Nat
        BY <4>1, <2>3, FS_Subset, FS_CardinalityType
      <4>4. Cardinality(Inside') <= MaxInflight
        BY <3>2, <2>2, <2>3, <4>3, InsideFinite DEF Sheds, IInv
      <4> QED BY <4>2, <4>3, <4>4
    <3> QED BY <3>1, <3>2
  <2> QED BY <2>4, <2>5 DEF InflightExact, Inside, PastGate, Open
<1>7. PermitsReturned' /\ permits' \subseteq Request
  <2>1. r \notin permits /\ Cardinality(permits) <= Workers
    BY <1>1 DEF IInv, PermitsReturned, Awaiting
  <2> QED BY <1>1, <1>3, <1>5, <2>1, PermitsStep DEF Places, Hold, IInv
<1>8. Catalogue'
  BY <1>1, <1>3, <1>5, CatalogueSame
<1> QED BY <1>5, <1>6, <1>7, <1>8 DEF IInv

(* An exit of a request that was not fetching the catalogue.                 *)
LEMMA ExitIInv ==
  ASSUME IInv, NEW r \in Request, Open(r), pc[r] # "fetch", NEW t \in Tally, Exit(r),
         tally' = [tally EXCEPT ![r] = t], Local("done", Fresh, t),
         UNCHANGED <<cache, lock, refreshes>>
  PROVE  IInv'
BY ExitStep, CatalogueSame DEF IInv

(* A step on of a request that keeps its permit, or has none.               *)
LEMMA StayIInv ==
  ASSUME IInv, NEW r \in Request, NEW p \in Places \ {"idle", "done", "shed", "fetch"},
         NEW j \in Job, NEW t \in Tally, Changed(r, p, j, t), Local(p, j, t),
         pc[r] \notin {"idle", "done", "shed", "fetch"}, UNCHANGED <<inflight, permits>>,
         \/ p = "last" \/ (pc[r] \in Hold /\ p \in Hold)
         \/ pc[r] \notin Hold \cup {"last"} /\ p \notin Hold,
         UNCHANGED <<cache, lock, refreshes>>
  PROVE  IInv'
<1>1. /\ Typed' /\ Locals' /\ PermitsReturned' /\ InflightExact'
      /\ permits' \subseteq Request
      /\ pc'[r] = p /\ \A q \in Request \ {r} : pc'[q] = pc[q]
  BY StayStep
<1>2. Catalogue'
  BY <1>1, CatalogueSame
<1> QED BY <1>1, <1>2 DEF IInv

(* The end of an attempt.                                                   *)
LEMMA ContinueIInv ==
  ASSUME IInv, NEW r \in Request, NEW j \in Job, Continue(r, j),
         Local("permit", j, tally[r]), pc[r] \notin {"idle", "done", "shed", "fetch"},
         UNCHANGED <<tally, cache, lock, refreshes>>
  PROVE  IInv'
<1>1. /\ Typed' /\ Locals' /\ PermitsReturned' /\ InflightExact'
      /\ permits' \subseteq Request
      /\ pc'[r] = "permit" /\ \A q \in Request \ {r} : pc'[q] = pc[q]
  BY ContinueStep
<1>2. Catalogue'
  BY <1>1, CatalogueSame
<1> QED BY <1>1, <1>2 DEF IInv

-----------------------------------------------------------------------------
(* The gate: 503, an unknown key, and the dispatch to a handler.             *)
LEMMA TurnAwayIInv == ASSUME IInv, NEW r \in Request, TurnAway(r) PROVE IInv'
<1>1. pc[r] \in {"shed", "auth"} /\ Exit(r) /\ UNCHANGED <<tally, cache, lock, refreshes>>
  BY DEF TurnAway, shared
<1>2. Local("done", Fresh, tally[r])
  BY <1>1, Known, FreshJob DEF Local, Relaying
<1>3. tally' = [tally EXCEPT ![r] = tally[r]]
  BY <1>1, Known
<1> QED BY <1>1, <1>2, <1>3, Known, ExitIInv DEF Open

(* A request that was let in is marked served.                               *)
LEMMA ServedTally ==
  ASSUME NEW t \in Tally
  PROVE  /\ [t EXCEPT !.served = TRUE] \in Tally
         /\ [t EXCEPT !.served = TRUE].began = t.began
         /\ [t EXCEPT !.served = TRUE].accounted = t.accounted
         /\ [t EXCEPT !.served = TRUE].recorded = t.recorded
         /\ [t EXCEPT !.served = TRUE].late = t.late
         /\ [t EXCEPT !.served = TRUE].dropped = t.dropped
BY DEF Tally

(* The dispatch to a handler: stream, buffered, or the list of models.       *)
LEMMA ServeIInv == ASSUME IInv, NEW r \in Request, Serve(r) PROVE IInv'
<1> DEFINE t == [tally[r] EXCEPT !.served = TRUE]
<1>1. /\ pc[r] = "auth" /\ tally' = [tally EXCEPT ![r] = t]
      /\ UNCHANGED <<inflight, permits, cache, lock, refreshes>>
  BY DEF Serve, shared
<1>2. /\ t \in Tally /\ t.began = tally[r].began /\ t.accounted = tally[r].accounted
      /\ t.recorded = tally[r].recorded /\ t.late = tally[r].late
      /\ t.dropped = tally[r].dropped
  BY Known, ServedTally
<1> HIDE DEF t
<1>3. PICK d \in BOOLEAN :
        \/ /\ Goto(r, "connect")
           /\ job' = [job EXCEPT ![r].deadline = d, ![r].fallback = ~noInject]
        \/ /\ Goto(r, "buffer") \/ Goto(r, "lock")
           /\ job' = [job EXCEPT ![r].deadline = d]
  BY DEF Serve
<1> DEFINE a == [job[r] EXCEPT !.deadline = d]
           b == [a EXCEPT !.fallback = ~noInject]
<1>4. a \in Job /\ a.observer = job[r].observer
  BY Known DEF Job
<1>5. b \in Job /\ b.observer = job[r].observer
  <2> HIDE DEF a
  <2>1. (~noInject) \in BOOLEAN
    OBVIOUS
  <2> DEFINE e == ~noInject
  <2> HIDE DEF e
  <2>2. [a EXCEPT !.fallback = e] \in Job /\ [a EXCEPT !.fallback = e].observer = a.observer
    BY <1>4, <2>1 DEF Job, e
  <2> QED BY <1>4, <2>2 DEF e
<1>6. PICK p \in {"connect", "buffer", "lock"}, j \in {a, b} :
        Goto(r, p) /\ job' = [job EXCEPT ![r] = j]
  <2>1. CASE Goto(r, "connect") /\ job' = [job EXCEPT ![r] = b]
    BY <2>1
  <2>2. CASE (Goto(r, "buffer") \/ Goto(r, "lock")) /\ job' = [job EXCEPT ![r] = a]
    BY <2>2
  <2> QED BY <1>3, <2>1, <2>2, Known
<1> HIDE DEF a, b
<1>7. Changed(r, p, j, t) /\ j \in Job /\ j.observer = job[r].observer
  BY <1>1, <1>4, <1>5, <1>6 DEF Goto, Changed
<1>8. Local(p, j, t)
  BY <1>1, <1>2, <1>7, Known DEF Local, Relaying
<1>9. p \in Places \ {"idle", "done", "shed", "fetch"}
  BY DEF Places, Awaiting
<1> QED BY <1>1, <1>2, <1>7, <1>8, <1>9, StayIInv DEF Hold

-----------------------------------------------------------------------------
(* The ways out of a stream before its response began, counted once.         *)
LEMMA CountedExitIInv ==
  ASSUME IInv, NEW r \in Request,
         pc[r] \in {"connect", "permit", "slot", "send", "retry", "buffer", "lock"},
         Exit(r), Record(r), UNCHANGED <<cache, lock, refreshes>>
  PROVE  IInv'
<1> DEFINE t == Counted(tally[r])
<1>1. t \in Tally /\ tally' = [tally EXCEPT ![r] = t]
  BY Known, CountedTally DEF Record
<1>2. Local("done", Fresh, t)
  BY Known, CountedTally, FreshJob DEF Local, Relaying
<1> HIDE DEF t
<1> QED BY <1>1, <1>2, ExitIInv DEF Open

(* A stream that gives up is counted and owes its client a last frame.       *)
LEMMA GiveUpIInv ==
  ASSUME IInv, NEW r \in Request, pc[r] \in {"permit", "slot", "send", "reason"},
         GiveUp(r), UNCHANGED <<inflight, permits, cache, lock, refreshes>>
  PROVE  IInv'
<1> DEFINE t == Counted(tally[r])
           j == Settled(job[r])
<1>1. /\ t \in Tally /\ t.began = tally[r].began /\ t.accounted = tally[r].accounted
      /\ t.recorded = tally[r].recorded + 1 /\ t.served = tally[r].served
      /\ t.late = tally[r].late
      /\ t.dropped = tally[r].dropped
  BY Known, CountedTally
<1>2. j \in Job /\ j.observer = job[r].observer
  BY Known, SettledJob
<1>3. Changed(r, "last", j, t)
  BY DEF GiveUp, Goto, Record, Changed
<1> HIDE DEF t, j
<1>4. Local("last", j, t)
  BY <1>1, <1>2, Known DEF Local, Relaying
<1>5. "last" \in Places \ {"idle", "done", "shed", "fetch"}
  BY DEF Places, Awaiting
<1> QED BY <1>1, <1>2, <1>3, <1>4, <1>5, StayIInv

(* A stream's job changes and it stays where it is, or goes where the same   *)
(* things hold.                                                             *)
Before == {"connect", "permit", "slot", "send", "detail", "reason", "retry"}

(* A step between two such places, with the tally as it was.                 *)
LEMMA MovesIInv ==
  ASSUME IInv, NEW r \in Request, NEW p \in Places, NEW j \in Job,
         Goto(r, p), job' = [job EXCEPT ![r] = j], j.observer = job[r].observer,
         \/ pc[r] \in Before /\ p \in Before
         \/ pc[r] \in Relaying /\ p \in Relaying
         \/ p = pc[r] /\ p \in Awaiting,
         p \in {"detail", "retry"} => j.tries < MaxTries,
         pc[r] \in Hold <=> p \in Hold,
         UNCHANGED <<inflight, permits, tally, cache, lock, refreshes>>
  PROVE  IInv'
<1>1. tally' = [tally EXCEPT ![r] = tally[r]]
  BY Known
<1>2. Changed(r, p, j, tally[r])
  BY <1>1 DEF Goto, Changed
<1>3. Local(p, j, tally[r])
  BY Known DEF Local, Relaying, Before
<1>4. /\ p \in Places \ {"idle", "done", "shed", "fetch"}
      /\ pc[r] \notin {"idle", "done", "shed", "fetch"}
  BY DEF Before, Relaying, Awaiting
<1>5. \/ p = "last" \/ (pc[r] \in Hold /\ p \in Hold)
      \/ pc[r] \notin Hold \cup {"last"} /\ p \notin Hold
  BY DEF Before, Relaying
<1> QED BY <1>2, <1>3, <1>4, <1>5, Known, StayIInv

(* The same when pc is left alone.                                          *)
LEMMA OwnIInv ==
  ASSUME IInv, NEW r \in Request, NEW j \in Job,
         job' = [job EXCEPT ![r] = j], j.observer = job[r].observer,
         pc[r] \in {"detail", "retry"} => j.tries = job[r].tries,
         UNCHANGED <<pc, inflight, permits, tally, cache, lock, refreshes>>
  PROVE  IInv'
<1>1. Changed(r, pc[r], j, tally[r])
  BY Known DEF Changed
<1>2. Local(pc[r], j, tally[r])
  BY Known DEF Local
<1>3. Typed' /\ Locals'
  BY <1>1, <1>2, Known, LocalStep
<1>4. InflightExact'
  BY DEF IInv, InflightExact, Open
<1>5. PermitsReturned' /\ permits' \subseteq Request
  BY DEF IInv, PermitsReturned
<1>6. Catalogue'
  BY DEF IInv, Catalogue
<1> QED BY <1>3, <1>4, <1>5, <1>6 DEF IInv

-----------------------------------------------------------------------------
(* The task of a stream before the response.                                *)
LEMMA ConnectedIInv == ASSUME IInv, NEW r \in Request, Connected(r) PROVE IInv'
<1> USE DEF shared
<1>1. CASE Gone(r)
  BY <1>1, CountedExitIInv DEF Connected
<1>2. CASE ~Gone(r)
  <2>1. Framed(job[r]) \in Job /\ Framed(job[r]).observer = job[r].observer
    BY <1>2, Known, FramedJob DEF Connected, CanSend, Gone
  <2>2. /\ pc[r] = "connect" /\ Goto(r, "permit")
        /\ job' = [job EXCEPT ![r] = Framed(job[r])]
        /\ UNCHANGED <<inflight, permits, tally, cache, lock, refreshes>>
    BY <1>2 DEF Connected, Frame, Stay
  <2> QED BY <2>1, <2>2, MovesIInv DEF Before, Places, Awaiting, Hold
<1> QED BY <1>1, <1>2

(* A permit is taken while there is one.                                     *)
LEMMA TakePermitIInv == ASSUME IInv, NEW r \in Request, TakePermit(r) PROVE IInv'
<1> USE DEF shared
<1>1. /\ pc[r] = "permit" /\ Cardinality(permits) < Workers /\ permits' = permits \cup {r}
      /\ UNCHANGED <<inflight, job, tally, cache, lock, refreshes>>
  BY DEF TakePermit
<1>2. Changed(r, "slot", job[r], tally[r])
  BY <1>1, Known DEF TakePermit, Goto, Changed
<1>3. Local("slot", job[r], tally[r])
  BY <1>1, Known DEF Local, Relaying
<1>4. /\ Typed' /\ Locals' /\ pc'[r] = "slot"
      /\ \A q \in Request \ {r} : pc'[q] = pc[q]
  BY <1>2, <1>3, Known, LocalStep DEF Places, Awaiting
<1>5. InflightExact'
  BY <1>1, <1>4, InflightStays
<1>6. Cardinality(permits') <= Workers
  <2>1. IsFiniteSet(permits) /\ Cardinality(permits) \in Nat
    BY PermitsFinite DEF IInv
  <2>2. r \notin permits
    BY <1>1 DEF IInv, PermitsReturned, Awaiting
  <2>3. Cardinality(permits') = Cardinality(permits) + 1
    BY <1>1, <2>1, <2>2, FS_AddElement
  <2> QED BY <1>1, <2>1, <2>3
<1>7. PermitsReturned' /\ permits' \subseteq Request
  BY <1>1, <1>4, <1>6, PermitsStep DEF Places, Awaiting, Hold, IInv
<1>8. Catalogue'
  BY <1>1, <1>4, CatalogueSame
<1> QED BY <1>4, <1>5, <1>7, <1>8 DEF IInv

(* The dispatcher gave a key: the request is sent.                           *)
LEMMA TakeSlotIInv == ASSUME IInv, NEW r \in Request, TakeSlot(r) PROVE IInv'
<1>1. /\ pc[r] = "slot" /\ Goto(r, "send") /\ job' = [job EXCEPT ![r] = job[r]]
      /\ UNCHANGED <<inflight, permits, tally, cache, lock, refreshes>>
  BY Known DEF TakeSlot, shared
<1> QED BY <1>1, Known, MovesIInv DEF Before, Places, Awaiting, Hold

(* A heartbeat reaches the client, or finds it gone.                         *)
LEMMA HeartbeatIInv == ASSUME IInv, NEW r \in Request, Heartbeat(r) PROVE IInv'
<1>1. /\ pc[r] \in {"permit", "slot"}
      /\ UNCHANGED <<inflight, permits, cache, lock, refreshes>>
  BY DEF Heartbeat, Stay, shared
<1>2. CASE Heard(r)
  <2>1. Framed(job[r]) \in Job /\ Framed(job[r]).observer = job[r].observer
    BY <1>2, Known, FramedJob DEF Heard
  <2>2. job' = [job EXCEPT ![r] = Framed(job[r])] /\ UNCHANGED <<pc, tally>>
    BY <1>2 DEF Heartbeat, Frame
  <2> QED BY <1>1, <2>1, <2>2, OwnIInv DEF Awaiting
<1>3. CASE ~Heard(r)
  BY <1>1, <1>3, GiveUpIInv DEF Heartbeat
<1> QED BY <1>2, <1>3

(* max_wait ends the wait for a permit or a slot.                            *)
LEMMA WaitOverIInv == ASSUME IInv, NEW r \in Request, WaitOver(r) PROVE IInv'
BY GiveUpIInv DEF WaitOver, Stay, shared

(* The request was counted when it gave up or was truncated.                 *)
LEMMA LastSendIInv == ASSUME IInv, NEW r \in Request, LastSend(r) PROVE IInv'
<1>1. pc[r] = "last" /\ Exit(r) /\ UNCHANGED <<tally, cache, lock, refreshes>>
  BY DEF LastSend, shared
<1>2. Local("done", Fresh, tally[r])
  BY <1>1, Known, FreshJob DEF Local, Relaying
<1>3. tally' = [tally EXCEPT ![r] = tally[r]]
  BY <1>1, Known
<1> QED BY <1>1, <1>2, <1>3, Known, ExitIInv DEF Open

-----------------------------------------------------------------------------
(* The upstream's answers.                                                  *)
LEMMA ConnectErrorIInv == ASSUME IInv, NEW r \in Request, ConnectError(r) PROVE IInv'
<1> DEFINE j == Tried(job[r])
<1>1. j \in Job /\ j.observer = job[r].observer
  BY Known, TriedJob DEF ConnectError
<1>2. /\ pc[r] = "send" /\ Continue(r, j)
      /\ UNCHANGED <<tally, cache, lock, refreshes>>
  BY DEF ConnectError, shared
<1> HIDE DEF j
<1>3. Local("permit", j, tally[r])
  BY <1>1, <1>2, Known DEF Local, Relaying
<1> QED BY <1>1, <1>2, <1>3, ContinueIInv

(* The upstream refused what was injected; it is sent again without.         *)
LEMMA DropInjectionIInv == ASSUME IInv, NEW r \in Request, DropInjection(r) PROVE IInv'
<1> DEFINE j == [job[r] EXCEPT !.fallback = FALSE]
<1>1. j \in Job /\ j.observer = job[r].observer
  BY Known, ZenonT(30) DEF Job
<1>2. /\ pc[r] = "send" /\ Continue(r, j)
      /\ UNCHANGED <<tally, cache, lock, refreshes>>
  BY DEF DropInjection
<1> HIDE DEF j
<1>3. Local("permit", j, tally[r])
  BY <1>1, <1>2, Known DEF Local, Relaying
<1> QED BY <1>1, <1>2, <1>3, ContinueIInv

(* A retryable answer: back off, or give up if max_wait has passed.          *)
LEMMA RetryableIInv == ASSUME IInv, NEW r \in Request, Retryable(r) PROVE IInv'
<1>1. pc[r] = "send" /\ UNCHANGED <<inflight, permits, cache, lock, refreshes>>
  BY DEF Retryable, Stay, shared
<1>2. CASE job[r].waited
  BY <1>1, <1>2, GiveUpIInv DEF Retryable
<1>3. CASE ~job[r].waited
  <2>1. Goto(r, "detail") /\ job' = [job EXCEPT ![r] = job[r]] /\ UNCHANGED tally
    BY <1>3, Known DEF Retryable
  <2>2. job[r].tries < MaxTries
    BY DEF Retryable
  <2> QED BY <1>1, <2>1, <2>2, Known, MovesIInv DEF Before, Places, Awaiting, Hold
<1> QED BY <1>2, <1>3

(* The body of a retryable refusal has been read.                            *)
LEMMA DetailReadIInv == ASSUME IInv, NEW r \in Request, DetailRead(r) PROVE IInv'
<1>1. /\ pc[r] = "detail" /\ Goto(r, "retry") /\ job' = [job EXCEPT ![r] = job[r]]
      /\ UNCHANGED <<inflight, permits, tally, cache, lock, refreshes>>
  BY Known DEF DetailRead, Stay, shared
<1>2. job[r].tries < MaxTries
  BY <1>1, Known DEF Local
<1> QED BY <1>1, <1>2, Known, MovesIInv DEF Before, Places, Awaiting, Hold

(* The retry event is sent, and the next attempt begins without a permit.    *)
LEMMA RetryingIInv == ASSUME IInv, NEW r \in Request, Retrying(r) PROVE IInv'
<1> USE DEF shared
<1>1. CASE Gone(r)
  BY <1>1, CountedExitIInv DEF Retrying
<1>2. CASE ~Gone(r)
  <2> DEFINE j == Framed(Tried(job[r]))
  <2>1. /\ Tried(job[r]) \in Job /\ Tried(job[r]).observer = job[r].observer
        /\ Tried(job[r]).chan < Cap
    <3>1. job[r].tries < MaxTries
      BY Known DEF Retrying, Local
    <3> QED BY <1>2, <3>1, Known, TriedJob DEF Retrying, CanSend
  <2>2. j \in Job /\ j.observer = job[r].observer
    BY <2>1, FramedJob
  <2>3. /\ pc[r] = "retry" /\ Continue(r, j)
        /\ UNCHANGED <<tally, cache, lock, refreshes>>
    BY <1>2 DEF Retrying
  <2> HIDE DEF j
  <2>4. Local("permit", j, tally[r])
    BY <2>2, <2>3, Known DEF Local, Relaying
  <2> QED BY <2>2, <2>3, <2>4, ContinueIInv
<1> QED BY <1>1, <1>2

(* An answer that no retry mends: its body is read, and the stream gives up.  *)
LEMMA FatalIInv == ASSUME IInv, NEW r \in Request, Fatal(r) PROVE IInv'
<1> DEFINE j == Settled(job[r])
<1>1. j \in Job /\ j.observer = job[r].observer
  BY Known, SettledJob
<1>2. /\ pc[r] = "send" /\ Goto(r, "reason") /\ job' = [job EXCEPT ![r] = j]
      /\ UNCHANGED <<inflight, permits, tally, cache, lock, refreshes>>
  BY DEF Fatal, Stay, shared
<1> HIDE DEF j
<1> QED BY <1>1, <1>2, MovesIInv DEF Before, Places, Awaiting, Hold

(* The body of a refusal that no retry mends has been read.                   *)
LEMMA ReasonReadIInv == ASSUME IInv, NEW r \in Request, ReasonRead(r) PROVE IInv'
BY GiveUpIInv DEF ReasonRead, Stay, shared

(* The response began: from here its observer accounts for it.               *)
LEMMA BeganTally ==
  ASSUME NEW t \in Tally
  PROVE  /\ [t EXCEPT !.began = TRUE] \in Tally
         /\ [t EXCEPT !.began = TRUE].began = TRUE
         /\ [t EXCEPT !.began = TRUE].served = t.served
         /\ [t EXCEPT !.began = TRUE].accounted = t.accounted
         /\ [t EXCEPT !.began = TRUE].recorded = t.recorded
         /\ [t EXCEPT !.began = TRUE].late = t.late
         /\ [t EXCEPT !.began = TRUE].dropped = t.dropped
BY DEF Tally

(* The observer cell is filled when the stream begins.                       *)
LEMMA BeginsIInv == ASSUME IInv, NEW r \in Request, Begins(r) PROVE IInv'
<1> DEFINE j == [Settled(job[r]) EXCEPT !.observer = TRUE]
           t == [tally[r] EXCEPT !.began = TRUE]
<1>1. j \in Job /\ j.observer = TRUE
  BY Known, SettledJob
<1>2. /\ t \in Tally /\ t.began = TRUE /\ t.served = tally[r].served
      /\ t.accounted = tally[r].accounted /\ t.recorded = tally[r].recorded
      /\ t.late = tally[r].late
      /\ t.dropped = tally[r].dropped
  BY Known, BeganTally
<1>3. /\ pc[r] = "send" /\ Changed(r, "relay", j, t)
      /\ UNCHANGED <<inflight, permits, cache, lock, refreshes>>
  BY DEF Begins, Goto, Stay, Changed, shared
<1> HIDE DEF j, t
<1>4. Local("relay", j, t)
  BY <1>1, <1>2, <1>3, Known DEF Local, Relaying
<1>5. "relay" \in Places \ {"idle", "done", "shed", "fetch"}
  BY DEF Places, Awaiting
<1> QED BY <1>1, <1>2, <1>3, <1>4, <1>5, StayIInv DEF Hold

-----------------------------------------------------------------------------
(* The relay loop.                                                          *)
LEMMA ChunkIInv == ASSUME IInv, NEW r \in Request, Chunk(r) PROVE IInv'
<1>1. /\ pc[r] = "relay" /\ Goto(r, "push") /\ job' = [job EXCEPT ![r] = job[r]]
      /\ UNCHANGED <<inflight, permits, tally, cache, lock, refreshes>>
  BY Known DEF Chunk, Stay, shared
<1> QED BY <1>1, Known, MovesIInv DEF Relaying, Places, Awaiting, Hold

(* A chunk is handed to the client.                                          *)
LEMMA PushedIInv == ASSUME IInv, NEW r \in Request, Pushed(r) PROVE IInv'
<1>1. Framed(job[r]) \in Job /\ Framed(job[r]).observer = job[r].observer
  BY Known, FramedJob DEF Pushed, Heard
<1>2. /\ pc[r] = "push" /\ Goto(r, "relay") /\ job' = [job EXCEPT ![r] = Framed(job[r])]
      /\ UNCHANGED <<inflight, permits, tally, cache, lock, refreshes>>
  BY DEF Pushed, Frame, Stay, shared
<1> QED BY <1>1, <1>2, MovesIInv DEF Relaying, Places, Awaiting, Hold

(* What finalize_sse_observer and record_request make of a tally.            *)
LEMMA FinalCount ==
  ASSUME NEW r \in Request, NEW t \in Tally
  PROVE  LET u == Counted(Finalized(r, t))
         IN  /\ u \in Tally /\ u.began = t.began /\ u.served = t.served
             /\ u.recorded = t.recorded + 1 /\ u.late = t.late
             /\ u.dropped = t.dropped
             /\ u.accounted = IF job[r].observer THEN t.accounted + 1 ELSE t.accounted
<1> DEFINE f == Finalized(r, t)
<1>1. /\ f \in Tally /\ f.began = t.began /\ f.served = t.served
      /\ f.recorded = t.recorded /\ f.late = t.late
      /\ f.dropped = t.dropped
      /\ f.accounted = IF job[r].observer THEN t.accounted + 1 ELSE t.accounted
  BY FinalizedTally
<1> HIDE DEF f
<1>2. /\ Counted(f) \in Tally /\ Counted(f).recorded = f.recorded + 1
      /\ Counted(f).began = f.began /\ Counted(f).served = f.served
      /\ Counted(f).accounted = f.accounted /\ Counted(f).late = f.late
      /\ Counted(f).dropped = f.dropped
  BY <1>1, CountedTally
<1>3. /\ Counted(f) \in Tally /\ Counted(f).began = t.began /\ Counted(f).served = t.served
      /\ Counted(f).recorded = t.recorded + 1 /\ Counted(f).late = t.late
      /\ Counted(f).dropped = t.dropped
      /\ Counted(f).accounted = IF job[r].observer THEN t.accounted + 1 ELSE t.accounted
  BY <1>1, <1>2
<1> QED BY <1>3 DEF f

(* Both ends of the relay take the observer and count the request.           *)
LEMMA RelayEndIInv ==
  ASSUME IInv, NEW r \in Request, pc[r] \in Relaying, Finalize(r), Exit(r),
         UNCHANGED <<cache, lock, refreshes>>
  PROVE  IInv'
<1> DEFINE u == Counted(Finalized(r, tally[r]))
<1>1. /\ u \in Tally /\ u.began = tally[r].began /\ u.served = tally[r].served
      /\ u.recorded = tally[r].recorded + 1 /\ u.late = tally[r].late
      /\ u.dropped = tally[r].dropped
      /\ u.accounted = IF job[r].observer THEN tally[r].accounted + 1 ELSE tally[r].accounted
  BY Known, FinalCount
<1>2. tally' = [tally EXCEPT ![r] = u]
  BY DEF Finalize
<1> HIDE DEF u
<1>3. Local("done", Fresh, u)
  BY <1>1, Known, FreshJob DEF Local, Relaying
<1> QED BY <1>1, <1>2, <1>3, ExitIInv DEF Open, Relaying

(* The upstream broke off: account, record, and take the observer.           *)
LEMMA TruncatedIInv == ASSUME IInv, NEW r \in Request, Truncated(r) PROVE IInv'
<1> DEFINE u == Counted(Finalized(r, tally[r]))
           j == [job[r] EXCEPT !.observer = FALSE]
<1>1. /\ u \in Tally /\ u.began = tally[r].began /\ u.served = tally[r].served
      /\ u.recorded = tally[r].recorded + 1 /\ u.late = tally[r].late
      /\ u.dropped = tally[r].dropped
      /\ u.accounted = IF job[r].observer THEN tally[r].accounted + 1 ELSE tally[r].accounted
  BY Known, FinalCount
<1>2. j \in Job /\ j.observer = FALSE
  BY Known, ZenonT(30) DEF Job
<1>3. /\ pc[r] = "relay" /\ Changed(r, "last", j, u)
      /\ UNCHANGED <<inflight, permits, cache, lock, refreshes>>
  BY DEF Truncated, Finalize, Goto, Stay, Changed, shared
<1> HIDE DEF j, u
<1>4. Local("last", j, u)
  BY <1>1, <1>2, <1>3, Known DEF Local, Relaying
<1>5. "last" \in Places \ {"idle", "done", "shed", "fetch"}
  BY DEF Places, Awaiting
<1> QED BY <1>1, <1>2, <1>3, <1>4, <1>5, StayIInv

-----------------------------------------------------------------------------
(* The deadline, wherever it strikes: a request that had been counted is      *)
(* counted again and is late.                                               *)
LEMMA StruckTally ==
  ASSUME NEW r \in Request, NEW t \in Tally
  PROVE  LET u == Struck(r, t)
         IN  /\ u \in Tally /\ u.began = t.began /\ u.served = t.served
             /\ u.recorded = t.recorded + 1 /\ u.late = (t.recorded > 0)
             /\ u.dropped = t.dropped
             /\ u.accounted = IF job[r].observer THEN t.accounted + 1 ELSE t.accounted
<1> DEFINE f == Counted(Finalized(r, t))
           late == t.recorded > 0
<1>1. /\ f \in Tally /\ f.began = t.began /\ f.served = t.served
      /\ f.recorded = t.recorded + 1 /\ f.late = t.late
      /\ f.dropped = t.dropped
      /\ f.accounted = IF job[r].observer THEN t.accounted + 1 ELSE t.accounted
  BY FinalCount
<1>2. late \in BOOLEAN
  OBVIOUS
<1> HIDE DEF f, late
<1> DEFINE u == [f EXCEPT !.late = late]
<1>3. /\ u \in Tally /\ u.began = f.began /\ u.served = f.served
      /\ u.recorded = f.recorded /\ u.late = late /\ u.accounted = f.accounted
      /\ u.dropped = f.dropped
  BY <1>1, <1>2 DEF Tally
<1>4. Struck(r, t) = u
  BY DEF Struck, f, late
<1> HIDE DEF u
<1>5. /\ u \in Tally /\ u.began = t.began /\ u.served = t.served
      /\ u.recorded = t.recorded + 1 /\ u.late = late
      /\ u.dropped = t.dropped
      /\ u.accounted = IF job[r].observer THEN t.accounted + 1 ELSE t.accounted
  BY <1>1, <1>3
<1> QED BY <1>4, <1>5 DEF late

(* The deadline strikes wherever a stream or buffered call waits.            *)
LEMMA DeadlineIInv == ASSUME IInv, NEW r \in Request, DeadlineStrikes(r) PROVE IInv'
<1> DEFINE u == Struck(r, tally[r])
<1>1. /\ u \in Tally /\ u.began = tally[r].began /\ u.served = tally[r].served
      /\ u.recorded = tally[r].recorded + 1 /\ u.late = (tally[r].recorded > 0)
      /\ u.dropped = tally[r].dropped
      /\ u.accounted = IF job[r].observer THEN tally[r].accounted + 1 ELSE tally[r].accounted
  BY Known, StruckTally
<1>2. /\ pc[r] \in Awaiting \cup {"buffer", "body"} /\ Exit(r)
      /\ tally' = [tally EXCEPT ![r] = u] /\ UNCHANGED <<cache, lock, refreshes>>
  BY DEF DeadlineStrikes, Streaming, shared
<1> HIDE DEF u
<1>3. Local("done", Fresh, u)
  <2>1. u.accounted = IF u.began THEN 1 ELSE 0
    BY <1>1, <1>2, Known DEF Local, Relaying, Awaiting
  <2>2. u.recorded = IF u.late THEN 2 ELSE IF u.dropped THEN 0 ELSE 1
    <3> ~u.dropped
      BY <1>1, <1>2, Known DEF Local, Awaiting
    <3>1. tally[r].recorded \in {0, 1}
      BY <1>2, Known DEF Local, Awaiting
    <3>2. CASE tally[r].recorded = 0
      <4>1. ~(tally[r].recorded > 0)
        BY <3>2
      <4>2. ~u.late
        BY <1>1, <4>1, Zenon
      <4> QED BY <1>1, <3>2, <4>2
    <3>3. CASE tally[r].recorded = 1
      <4>1. tally[r].recorded > 0
        BY <3>3
      <4>2. u.late
        BY <1>1, <4>1, Zenon
      <4> QED BY <1>1, <3>3, <4>2
    <3> QED BY <3>1, <3>2, <3>3
  <2> QED BY <2>1, <2>2, FreshJob DEF Local, Relaying
<1> QED BY <1>1, <1>2, <1>3, ExitIInv DEF Open, Awaiting

-----------------------------------------------------------------------------
(* The buffered handler.                                                    *)
LEMMA AnsweredIInv == ASSUME IInv, NEW r \in Request, Answered(r) PROVE IInv'
<1>1. pc[r] = "buffer" /\ Record(r) /\ UNCHANGED <<cache, lock, refreshes>>
  BY DEF Answered, shared
<1>2. CASE Exit(r)
  BY <1>1, <1>2, CountedExitIInv
<1>3. CASE Goto(r, "body") /\ Stay /\ UNCHANGED job
  <2> DEFINE t == Counted(tally[r])
  <2>1. /\ t \in Tally /\ t.began = tally[r].began /\ t.accounted = tally[r].accounted
        /\ t.recorded = tally[r].recorded + 1 /\ t.served = tally[r].served
        /\ t.late = tally[r].late
        /\ t.dropped = tally[r].dropped
    BY Known, CountedTally
  <2>2. Changed(r, "body", job[r], t) /\ UNCHANGED <<inflight, permits>>
    BY <1>1, <1>3, Known DEF Goto, Record, Stay, Changed
  <2> HIDE DEF t
  <2>3. Local("body", job[r], t)
    BY <1>1, <2>1, Known DEF Local, Relaying
  <2>4. "body" \in Places \ {"idle", "done", "shed", "fetch"}
    BY DEF Places, Awaiting
  <2> QED BY <1>1, <2>1, <2>2, <2>3, <2>4, Known, StayIInv DEF Hold
<1> QED BY <1>2, <1>3 DEF Answered

(* The body of a buffered response is relayed; it was counted before.        *)
LEMMA RelayedIInv == ASSUME IInv, NEW r \in Request, Relayed(r) PROVE IInv'
<1>1. pc[r] = "body" /\ Exit(r) /\ UNCHANGED <<tally, cache, lock, refreshes>>
  BY DEF Relayed, shared
<1>2. Local("done", Fresh, tally[r])
  BY <1>1, Known, FreshJob DEF Local, Relaying
<1>3. tally' = [tally EXCEPT ![r] = tally[r]]
  BY <1>1, Known
<1> QED BY <1>1, <1>2, <1>3, Known, ExitIInv DEF Open

-----------------------------------------------------------------------------
(* The catalogue: who refreshes it holds the mutex, and found it empty.      *)
LEMMA ListingIInv == ASSUME IInv, NEW r \in Request, Listing(r) PROVE IInv'
<1>1. pc[r] = "lock" /\ lock = None /\ UNCHANGED <<cache, refreshes>>
  BY DEF Listing
<1>2. CASE cache
  BY <1>1, <1>2, CountedExitIInv DEF Listing
<1>3. CASE ~cache
  <2>1. /\ lock' = r /\ Goto(r, "fetch") /\ UNCHANGED <<inflight, permits, job, tally>>
    BY <1>3 DEF Listing, Stay
  <2>2. Changed(r, "fetch", job[r], tally[r])
    BY <2>1, Known DEF Goto, Changed
  <2>3. Local("fetch", job[r], tally[r])
    BY <1>1, Known DEF Local, Relaying
  <2>4. "fetch" \in Places \ {"idle", "done", "shed"}
    BY DEF Places, Awaiting
  <2>5. /\ Typed' /\ Locals' /\ PermitsReturned' /\ InflightExact'
        /\ permits' \subseteq Request
        /\ pc'[r] = "fetch" /\ \A q \in Request \ {r} : pc'[q] = pc[q]
    BY <1>1, <2>1, <2>2, <2>3, <2>4, Known, StayStep DEF Hold
  <2>6. \A q \in Request : pc'[q] = "fetch" <=> lock' = q
    BY <1>1, <2>1, <2>5 DEF IInv, Catalogue
  <2>7. Catalogue'
    BY <1>1, <1>3, <2>1, <2>6 DEF IInv, Catalogue
  <2> QED BY <2>5, <2>7 DEF IInv
<1> QED BY <1>2, <1>3

(* An exit of a lister, counted; the mutex is its own or another's.          *)
LEMMA ListerExit ==
  ASSUME IInv, NEW r \in Request, pc[r] \in {"lock", "fetch"}, Exit(r), Record(r)
  PROVE  /\ Typed' /\ Locals' /\ PermitsReturned' /\ InflightExact'
         /\ permits' \subseteq Request
         /\ pc'[r] = "done" /\ \A q \in Request \ {r} : pc'[q] = pc[q]
<1> DEFINE t == Counted(tally[r])
<1>1. /\ t \in Tally /\ t.began = tally[r].began /\ t.accounted = tally[r].accounted
      /\ t.recorded = tally[r].recorded + 1 /\ t.served = tally[r].served
      /\ t.late = tally[r].late
      /\ t.dropped = tally[r].dropped
  BY Known, CountedTally
<1>2. tally' = [tally EXCEPT ![r] = t]
  BY DEF Record
<1> HIDE DEF t
<1>3. Local("done", Fresh, t)
  BY <1>1, Known, FreshJob DEF Local, Relaying
<1> QED BY <1>1, <1>2, <1>3, ExitStep DEF Open

(* The fetch ends, with a catalogue or without, and so does the lock.        *)
LEMMA FetchedIInv == ASSUME IInv, NEW r \in Request, Fetched(r) PROVE IInv'
<1>1. pc[r] = "fetch" /\ lock' = None /\ Record(r) /\ Exit(r)
  BY DEF Fetched
<1>2. /\ Typed' /\ Locals' /\ PermitsReturned' /\ InflightExact'
      /\ permits' \subseteq Request
      /\ pc'[r] = "done" /\ \A q \in Request \ {r} : pc'[q] = pc[q]
  BY <1>1, ListerExit
<1>3. lock = r /\ ~cache /\ refreshes = 0
  BY <1>1 DEF IInv, Catalogue
<1>4. \A q \in Request : pc'[q] # "fetch"
  BY <1>2, <1>3 DEF IInv, Catalogue
<1>5. CASE cache' = TRUE /\ refreshes' = refreshes + 1
  <2>1. Catalogue'
    BY <1>1, <1>3, <1>4, <1>5 DEF Catalogue
  <2> QED BY <1>2, <2>1 DEF IInv
<1>6. CASE UNCHANGED <<cache, refreshes>>
  <2>1. Catalogue'
    BY <1>1, <1>3, <1>4, <1>6 DEF IInv, Catalogue
  <2> QED BY <1>2, <2>1 DEF IInv
<1> QED BY <1>5, <1>6 DEF Fetched

(* The deadline of a list strikes while it waits or fetches.                 *)
LEMMA ModelsDeadlineIInv == ASSUME IInv, NEW r \in Request, ModelsDeadline(r) PROVE IInv'
<1>1. /\ pc[r] \in {"lock", "fetch"} /\ Record(r) /\ Exit(r)
      /\ lock' = (IF lock = r THEN None ELSE lock) /\ UNCHANGED <<cache, refreshes>>
  BY DEF ModelsDeadline
<1>2. /\ Typed' /\ Locals' /\ PermitsReturned' /\ InflightExact'
      /\ permits' \subseteq Request
      /\ pc'[r] = "done" /\ \A q \in Request \ {r} : pc'[q] = pc[q]
  BY <1>1, ListerExit
<1>3. \A q \in Request : pc'[q] = "fetch" <=> lock' = q
  BY <1>1, <1>2 DEF IInv, Catalogue
<1>4. Catalogue'
  BY <1>1, <1>3 DEF IInv, Catalogue
<1> QED BY <1>2, <1>4 DEF IInv

(* The client of a buffered call or a listing leaves: the handler is dropped   *)
(* and gives back what it held, the mutex too; it is not counted any more.    *)
LEMMA DroppedTally ==
  ASSUME NEW t \in Tally, NEW b \in BOOLEAN
  PROVE  LET u == [t EXCEPT !.dropped = b]
         IN  /\ u \in Tally /\ u.began = t.began /\ u.served = t.served
             /\ u.accounted = t.accounted /\ u.recorded = t.recorded
             /\ u.late = t.late /\ u.dropped = b
BY DEF Tally

(* A dropped handler.                                                       *)
LEMMA AbandonIInv == ASSUME IInv, NEW r \in Request, Abandon(r) PROVE IInv'
<1> DEFINE b == pc[r] # "body"
           t == [tally[r] EXCEPT !.dropped = b]
<1>1. /\ pc[r] \in {"buffer", "body", "lock", "fetch"} /\ Exit(r)
      /\ lock' = (IF lock = r THEN None ELSE lock) /\ UNCHANGED <<cache, refreshes>>
      /\ tally' = [tally EXCEPT ![r] = t]
  BY DEF Abandon
<1>2. b \in BOOLEAN /\ (b <=> pc[r] # "body")
  OBVIOUS
<1> HIDE DEF b
<1>3. /\ t \in Tally /\ t.began = tally[r].began /\ t.served = tally[r].served
      /\ t.accounted = tally[r].accounted /\ t.recorded = tally[r].recorded
      /\ t.late = tally[r].late /\ t.dropped = b
  BY <1>2, Known, DroppedTally
<1> HIDE DEF t
<1>4. Local("done", Fresh, t)
  <2>1. t.recorded = IF t.late THEN 2 ELSE IF t.dropped THEN 0 ELSE 1
    <3>1. ~t.late /\ tally[r].recorded = IF pc[r] = "body" THEN 1 ELSE 0
      BY <1>1, <1>3, Known DEF Local
    <3>2. CASE pc[r] = "body"
      BY <1>2, <1>3, <3>1, <3>2
    <3>3. CASE pc[r] # "body"
      BY <1>2, <1>3, <3>1, <3>3
    <3> QED BY <3>2, <3>3
  <2>2. t.accounted = IF t.began THEN 1 ELSE 0
    BY <1>1, <1>3, Known DEF Local, Relaying
  <2> QED BY <2>1, <2>2, FreshJob DEF Local, Relaying
<1>5. /\ Typed' /\ Locals' /\ PermitsReturned' /\ InflightExact'
      /\ permits' \subseteq Request
      /\ pc'[r] = "done" /\ \A q \in Request \ {r} : pc'[q] = pc[q]
  BY <1>1, <1>3, <1>4, ExitStep DEF Open
<1>6. \A q \in Request : pc'[q] = "fetch" <=> lock' = q
  BY <1>1, <1>5 DEF IInv, Catalogue
<1>7. Catalogue'
  BY <1>1, <1>6 DEF IInv, Catalogue
<1> QED BY <1>5, <1>7 DEF IInv

(* What leaves the requests alone keeps what is said of them.               *)
LEMMA SameRequests ==
  ASSUME IInv, UNCHANGED <<inflight, pc, job, permits, tally>>, Catalogue'
  PROVE  IInv'
<1>1. Typed' /\ Locals' /\ permits' \subseteq Request
  BY DEF IInv, Typed, Locals, Local
<1>2. InflightExact'
  BY DEF IInv, InflightExact, Open
<1>3. PermitsReturned'
  BY DEF IInv, PermitsReturned
<1> QED BY <1>1, <1>2, <1>3 DEF IInv

(* The cache empties, by age or by a flush; and setup ends.                  *)
LEMMA EmptiedIInv == ASSUME IInv, Expire \/ Flush \/ SetupDone PROVE IInv'
<1>1. UNCHANGED <<inflight, pc, job, permits, tally, lock>>
  BY DEF Expire, Flush, SetupDone
<1>2. CASE SetupDone
  <2>1. Catalogue'
    BY <1>1, <1>2 DEF SetupDone, IInv, Catalogue
  <2> QED BY <1>1, <2>1, SameRequests
<1>3. CASE Expire \/ Flush
  <2>1. cache' = FALSE /\ refreshes' = 0
    BY <1>3 DEF Expire, Flush, Emptied
  <2>2. Catalogue'
    BY <1>1, <2>1 DEF IInv, Catalogue
  <2> QED BY <1>1, <2>2, SameRequests
<1> QED BY <1>2, <1>3

-----------------------------------------------------------------------------
(* Clients and time.                                                        *)
LEMMA ReadIInv == ASSUME IInv, NEW r \in Request, Read(r) PROVE IInv'
<1> DEFINE j == [job[r] EXCEPT !.chan = @ - 1]
<1>1. j \in Job /\ j.observer = job[r].observer /\ j.tries = job[r].tries
  BY Known DEF Read, Job
<1>2. /\ job' = [job EXCEPT ![r] = j]
      /\ UNCHANGED <<pc, inflight, permits, tally, cache, lock, refreshes>>
  BY DEF Read, shared
<1> HIDE DEF j
<1> QED BY <1>1, <1>2, OwnIInv

(* A client hangs up; what was queued for it is lost.                        *)
LEMMA HangUpIInv == ASSUME IInv, NEW r \in Request, HangUp(r) PROVE IInv'
<1> DEFINE a == [job[r] EXCEPT !.gone = TRUE]
           j == [a EXCEPT !.chan = 0]
<1>1. a \in Job /\ a.observer = job[r].observer /\ a.tries = job[r].tries
  BY Known, ZenonT(30) DEF Job
<1>2. j \in Job /\ j.observer = job[r].observer /\ j.tries = job[r].tries
  <2> HIDE DEF a
  <2> QED BY <1>1 DEF Job
<1>3. /\ job' = [job EXCEPT ![r] = j]
      /\ UNCHANGED <<pc, inflight, permits, tally, cache, lock, refreshes>>
  BY Known DEF HangUp, shared
<1> HIDE DEF j
<1> QED BY <1>2, <1>3, OwnIInv

(* max_wait has passed since the request began to wait.                      *)
LEMMA MaxWaitIInv == ASSUME IInv, NEW r \in Request, MaxWait(r) PROVE IInv'
<1> DEFINE j == [job[r] EXCEPT !.waited = TRUE]
<1>1. j \in Job /\ j.observer = job[r].observer /\ j.tries = job[r].tries
  BY Known, ZenonT(30) DEF Job
<1>2. /\ job' = [job EXCEPT ![r] = j]
      /\ UNCHANGED <<pc, inflight, permits, tally, cache, lock, refreshes>>
  BY DEF MaxWait, shared
<1> HIDE DEF j
<1> QED BY <1>1, <1>2, OwnIInv

-----------------------------------------------------------------------------
(* Every step keeps the invariant.                                         *)
LEMMA NextIInv == IInv /\ [Next]_vars => IInv'
<1> SUFFICES ASSUME IInv, [Next]_vars PROVE IInv'
  OBVIOUS
<1>1. ASSUME NEW r \in Request, Step(r) PROVE IInv'
  <2>1. CASE Refuse(r) \/ Arrive(r) \/ TurnAway(r) \/ Serve(r)
    BY <2>1, RefuseIInv, ArriveIInv, TurnAwayIInv, ServeIInv
  <2>2. CASE Work(r)
    <3>1. CASE Disconnect(r)
      BY <3>1, RelayEndIInv DEF Disconnect, Relaying, shared
    <3> QED BY <2>2, <3>1, ConnectedIInv, TakePermitIInv, TakeSlotIInv, HeartbeatIInv,
               WaitOverIInv, LastSendIInv, RetryingIInv, PushedIInv DEF Work
  <2>3. CASE Answer(r)
    BY <2>3, ConnectErrorIInv, DropInjectionIInv, RetryableIInv, FatalIInv, BeginsIInv
    DEF Answer
  <2>4. CASE Complete(r)
    BY <2>4, RelayEndIInv DEF Complete, Relaying, shared
  <2>5. CASE Chunk(r) \/ Truncated(r) \/ DeadlineStrikes(r) \/ Answered(r) \/ Relayed(r)
    BY <2>5, ChunkIInv, TruncatedIInv, DeadlineIInv, AnsweredIInv, RelayedIInv
  <2>6. CASE Listing(r) \/ Fetched(r) \/ ModelsDeadline(r)
    BY <2>6, ListingIInv, FetchedIInv, ModelsDeadlineIInv
  <2>7. CASE Read(r) \/ HangUp(r) \/ MaxWait(r) \/ Abandon(r)
    BY <2>7, ReadIInv, HangUpIInv, MaxWaitIInv, AbandonIInv
  <2>8. CASE Refused(r)
    BY <2>8, DetailReadIInv, ReasonReadIInv DEF Refused
  <2> QED BY <1>1, <2>1, <2>2, <2>3, <2>4, <2>5, <2>6, <2>7, <2>8 DEF Step
<1>2. CASE Expire \/ Flush \/ SetupDone
  BY <1>2, EmptiedIInv
<1>3. CASE UNCHANGED vars
  <2>1. UNCHANGED <<inflight, pc, job, permits, tally, cache, lock, refreshes>>
    BY <1>3 DEF vars, shared
  <2>2. Catalogue'
    BY <2>1 DEF IInv, Catalogue
  <2> QED BY <2>1, <2>2, SameRequests
<1> QED BY <1>1, <1>2, <1>3 DEF Next

(* The invariant holds of every behaviour.                                   *)
LEMMA InvariantHolds == Spec => []IInv
<1>1. Init => IInv
  BY InitIInv
<1>2. IInv /\ [Next]_vars => IInv'
  BY NextIInv
<1> QED BY <1>1, <1>2, PTL DEF Spec

(* Only a request that reached the buffered handler or the listing is dropped: *)
(* a stream's task outlives its client.                                      *)
Handler == {"buffer", "body", "lock", "fetch"}
Handlers ==
  \A r \in Request : pc[r] \in Handler \/ tally[r].dropped => r \in Buffereds \cup Listings

(* What a step of r does to the handler it is in, and to nobody else's.       *)
LEMMA HandlerStep ==
  ASSUME IInv, Handlers, NEW r \in Request, Step(r)
  PROVE  Handlers'
<1>1. \A q \in Request \ {r} : pc'[q] = pc[q] /\ tally'[q] = tally[q]
  <2> USE DEF IInv, Typed, shared, Goto, Exit, Record, Finalize, Continue, GiveUp
  <2>1. CASE Refuse(r) \/ Arrive(r) \/ TurnAway(r) \/ Serve(r)
    BY <2>1 DEF Refuse, Arrive, TurnAway, Serve
  <2>2. CASE Work(r)
    BY <2>2 DEF Work, Connected, TakePermit, TakeSlot, Heartbeat, WaitOver, LastSend,
                Retrying, Pushed, Disconnect
  <2>3. CASE Answer(r) \/ Refused(r)
    BY <2>3 DEF Answer, ConnectError, DropInjection, Retryable, Fatal, Begins, Refused,
                DetailRead, ReasonRead
  <2>4. CASE Chunk(r) \/ Complete(r) \/ Truncated(r) \/ DeadlineStrikes(r)
    BY <2>4 DEF Chunk, Complete, Truncated, DeadlineStrikes
  <2>5. CASE Answered(r) \/ Relayed(r) \/ Listing(r) \/ Fetched(r) \/ ModelsDeadline(r)
    BY <2>5 DEF Answered, Relayed, Listing, Fetched, ModelsDeadline
  <2>6. CASE Read(r) \/ HangUp(r) \/ Abandon(r) \/ MaxWait(r)
    BY <2>6 DEF Read, HangUp, Abandon, MaxWait
  <2> QED BY <2>1, <2>2, <2>3, <2>4, <2>5, <2>6 DEF Step
<1>2. pc'[r] \in Handler => pc[r] \in Handler \/ r \in Buffereds \cup Listings
  <2> USE DEF IInv, Typed, shared, Goto, Exit, Continue, GiveUp, Handler
  <2>1. CASE Refuse(r) \/ Arrive(r) \/ TurnAway(r) \/ Serve(r)
    BY <2>1 DEF Refuse, Arrive, TurnAway, Serve
  <2>2. CASE Work(r)
    BY <2>2 DEF Work, Connected, TakePermit, TakeSlot, Heartbeat, WaitOver, LastSend,
                Retrying, Pushed, Disconnect
  <2>3. CASE Answer(r) \/ Refused(r)
    BY <2>3 DEF Answer, ConnectError, DropInjection, Retryable, Fatal, Begins, Refused,
                DetailRead, ReasonRead
  <2>4. CASE Chunk(r) \/ Complete(r) \/ Truncated(r) \/ DeadlineStrikes(r)
    BY <2>4 DEF Chunk, Complete, Truncated, DeadlineStrikes
  <2>5. CASE Answered(r) \/ Relayed(r) \/ Listing(r) \/ Fetched(r) \/ ModelsDeadline(r)
    BY <2>5 DEF Answered, Relayed, Listing, Fetched, ModelsDeadline
  <2>6. CASE Read(r) \/ HangUp(r) \/ Abandon(r) \/ MaxWait(r)
    BY <2>6 DEF Read, HangUp, Abandon, MaxWait
  <2> QED BY <2>1, <2>2, <2>3, <2>4, <2>5, <2>6 DEF Step
<1>3. tally'[r].dropped => tally[r].dropped \/ pc[r] \in Handler
  <2>1. CASE Abandon(r)
    BY <2>1 DEF Abandon, Handler
  <2>2. CASE ~Abandon(r)
    <3> DEFINE s == [tally[r] EXCEPT !.served = TRUE]
               g == [tally[r] EXCEPT !.began = TRUE]
               c == Counted(tally[r])
               f == Counted(Finalized(r, tally[r]))
               k == Struck(r, tally[r])
    <3>1. \A t \in {tally[r], s, g, c, f, k} : t.dropped = tally[r].dropped
      <4>1. s.dropped = tally[r].dropped /\ g.dropped = tally[r].dropped
        BY Known, ServedTally, BeganTally
      <4>2. c.dropped = tally[r].dropped
        BY Known, CountedTally
      <4>3. f.dropped = tally[r].dropped
        BY Known, FinalCount
      <4>4. k.dropped = tally[r].dropped
        BY Known, StruckTally
      <4> HIDE DEF s, g, c, f, k
      <4> QED BY <4>1, <4>2, <4>3, <4>4
    <3>2. tally'[r] \in {tally[r], s, g, c, f, k}
      <4> HIDE DEF c, f, k
      <4> USE DEF IInv, Typed, shared, Record, Finalize, GiveUp
      <4>1. \/ UNCHANGED tally \/ tally' = [tally EXCEPT ![r] = s]
            \/ tally' = [tally EXCEPT ![r] = g] \/ tally' = [tally EXCEPT ![r] = c]
            \/ tally' = [tally EXCEPT ![r] = f] \/ tally' = [tally EXCEPT ![r] = k]
        <5> USE DEF c, f, k
        <5>1. CASE Refuse(r) \/ Arrive(r) \/ TurnAway(r) \/ Serve(r)
          BY <5>1 DEF Refuse, Arrive, TurnAway, Serve
        <5>2. CASE Work(r)
          BY <5>2 DEF Work, Connected, TakePermit, TakeSlot, Heartbeat, WaitOver, LastSend,
                      Retrying, Pushed, Disconnect
        <5>3. CASE Answer(r) \/ Refused(r)
          BY <5>3 DEF Answer, ConnectError, DropInjection, Retryable, Fatal, Begins, Refused,
                      DetailRead, ReasonRead
        <5>4. CASE Chunk(r) \/ Complete(r) \/ Truncated(r) \/ DeadlineStrikes(r)
          BY <5>4 DEF Chunk, Complete, Truncated, DeadlineStrikes
        <5>5. CASE Answered(r) \/ Relayed(r) \/ Listing(r) \/ Fetched(r) \/ ModelsDeadline(r)
          BY <5>5 DEF Answered, Relayed, Listing, Fetched, ModelsDeadline
        <5>6. CASE Read(r) \/ HangUp(r) \/ MaxWait(r)
          BY <5>6 DEF Read, HangUp, MaxWait
        <5> QED BY <2>2, <5>1, <5>2, <5>3, <5>4, <5>5, <5>6 DEF Step
      <4> HIDE DEF s, g
      <4> QED BY <4>1
    <3> HIDE DEF s, g, c, f, k
    <3> QED BY <3>1, <3>2
  <2> QED BY <2>1, <2>2
<1> QED BY <1>1, <1>2, <1>3 DEF Handlers

(* Only handlers are dropped, in every behaviour.                            *)
LEMMA HandlersHold == Spec => []Handlers
<1>1. Init => Handlers
  BY DEF Init, Handlers, Handler
<1>2. IInv /\ Handlers /\ [Next]_vars => Handlers'
  <2> SUFFICES ASSUME IInv, Handlers, [Next]_vars PROVE Handlers'
    OBVIOUS
  <2>1. CASE UNCHANGED vars \/ Expire \/ Flush \/ SetupDone
    BY <2>1 DEF vars, Expire, Flush, SetupDone, Handlers
  <2> QED BY <2>1, HandlerStep DEF Next
<1> QED BY <1>1, <1>2, InvariantHolds, PTL DEF Spec

(* On every exit path of proxy.rs a request gives back what it shares: the    *)
(* in-flight counter is the number of requests inside, no more than           *)
(* max_inflight get past the gate, a permit is held across an exchange with    *)
(* the upstream and not longer, and the catalogue is fetched at most once       *)
(* until it is emptied, for any number of requests and any interleaving.       *)
THEOREM ResourcesReturnedTheorem == Spec => []ResourcesReturned
<1>1. IInv => ResourcesReturned
  <2> SUFFICES ASSUME IInv PROVE ResourcesReturned
    OBVIOUS
  <2>1. inflight \in 0..Cardinality(Request)
    <3>1. inflight = Cardinality(Inside)
      BY DEF IInv, InflightExact, Inside
    <3>2. Cardinality(Request) \in Nat
      BY FS_CardinalityType
    <3> QED BY <3>1, <3>2, InsideFinite DEF IInv
  <2>2. ASSUME NEW r \in Request
        PROVE  /\ pc[r] \in Places
               /\ job[r].chan \in 0..Cap /\ job[r].tries \in 0..MaxTries
               /\ tally[r].accounted \in Nat /\ tally[r].recorded \in Nat
    BY <2>2, Known DEF Job, Tally
  <2>3. TypeOK
    BY <2>1, <2>2 DEF IInv, Catalogue, TypeOK, Places
  <2>4. OneRefresh
    BY DEF IInv, Catalogue, OneRefresh
  <2> QED BY <2>3, <2>4 DEF IInv, ResourcesReturned
<1> QED BY <1>1, InvariantHolds, PTL

(* However a request ends, its stream is accounted once if it began and never *)
(* otherwise, and it is counted once; twice if its deadline struck after it had *)
(* been counted, and never if its client left a buffered call or a listing      *)
(* before the answer: finalize_sse_observer and record_request of proxy.rs, on   *)
(* every exit path and with the deadline racing each of them.                  *)
THEOREM MeasuredOnEveryExitTheorem == Spec => []MeasuredOnEveryExit
<1>1. IInv /\ Handlers => MeasuredOnEveryExit
  <2> SUFFICES ASSUME IInv, Handlers PROVE MeasuredOnEveryExit
    OBVIOUS
  <2>1. AccountedOnce
    BY Known DEF AccountedOnce, Local, Relaying
  <2>2. CountedOnEveryExit
    BY Known DEF CountedOnEveryExit, Local, Handlers
  <2> QED BY <2>1, <2>2 DEF MeasuredOnEveryExit
<1> QED BY <1>1, InvariantHolds, HandlersHold, PTL
=============================================================================
