--------------------------- MODULE RoutingProofs ---------------------------
(***************************************************************************)
(* The breakers, for every set of requests and providers: however their     *)
(* outcomes interleave with those of the streaming path and with settings   *)
(* saves, a breaker acts on consecutive outcomes only, and always does; and  *)
(* the coalescer in front of them shares every call that can be shared.      *)
(***************************************************************************)
EXTENDS Routing, Coalescer, FiniteSetTheorems, TLAPS

\* A breaker against the outcomes recorded on it: a closed one has counted
\* exactly the latest failures, a half-open one only latest successes.
Agrees(c, f, o) ==
  /\ c.state = "closed" => c.failures = f /\ f < MaxFailures
  /\ c.state = "half_open" => c.successes <= o

BreakerInv ==
  /\ runtimes \subseteq Provider /\ circuit \in [Provider -> Circuit]
  /\ fails \in [Provider -> 0..MaxFailures] /\ oks \in [Provider -> 0..HalfOpenMax]
  /\ \A p \in Provider : Agrees(circuit[p], fails[p], oks[p])

\* The thresholds of CircuitBreaker::new are at least one.
LEMMA Thresholds ==
  /\ MaxFailures \in Nat \ {0} /\ HalfOpenMax \in Nat \ {0}
  /\ OpenTimeout \in Nat /\ Streamed \in Provider
BY ConstantsAssumption

\* A new breaker agrees with an empty history.
LEMMA FreshAgrees == Fresh \in Circuit /\ Agrees(Fresh, 0, 0)
BY Thresholds DEF Fresh, Circuit, Agrees

\* allow keeps the agreement: it only ever opens a trial without successes.
LEMMA AllowedAgrees ==
  ASSUME NEW c \in Circuit, NEW f \in 0..MaxFailures, NEW o \in 0..HalfOpenMax,
         Agrees(c, f, o)
  PROVE  Allowed(c) \in Circuit /\ Agrees(Allowed(c), f, o)
BY Thresholds DEF Allowed, Circuit, Agrees

\* record_success keeps the agreement, and closes only on HalfOpenMax
\* successes in a row.
LEMMA SucceededAgrees ==
  ASSUME NEW c \in Circuit, NEW f \in 0..MaxFailures, NEW o \in 0..HalfOpenMax,
         Agrees(c, f, o)
  PROVE  /\ Succeeded(c) \in Circuit /\ Capped(o, HalfOpenMax) \in 0..HalfOpenMax
         /\ Agrees(Succeeded(c), 0, Capped(o, HalfOpenMax))
         /\ Succeeded(c).state # "open" \/ c.state = "open"
         /\ c.state # "closed" /\ Succeeded(c).state = "closed"
              => Capped(o, HalfOpenMax) = HalfOpenMax
<1>1. CASE c.state = "closed"
  BY <1>1, Thresholds DEF Succeeded, Capped, Circuit, Agrees
<1>2. CASE c.state = "open"
  BY <1>2, Thresholds DEF Succeeded, Capped, Circuit, Agrees
<1>3. CASE c.state = "half_open"
  BY <1>3, Thresholds DEF Succeeded, Capped, Circuit, Agrees, Fresh
<1> QED BY <1>1, <1>2, <1>3 DEF Circuit

\* record_failure keeps the agreement, and opens a closed breaker only on
\* MaxFailures failures in a row.
LEMMA FailedAgrees ==
  ASSUME NEW c \in Circuit, NEW f \in 0..MaxFailures, NEW o \in 0..HalfOpenMax,
         Agrees(c, f, o)
  PROVE  /\ Failed(c) \in Circuit /\ Capped(f, MaxFailures) \in 0..MaxFailures
         /\ Agrees(Failed(c), Capped(f, MaxFailures), 0)
         /\ Failed(c).state = "closed" => c.state = "closed"
         /\ c.state = "closed" /\ Failed(c).state = "open"
              => Capped(f, MaxFailures) = MaxFailures
<1>1. CASE c.state = "closed"
  BY <1>1, Thresholds DEF Failed, Opened, Capped, Circuit, Agrees
<1>2. CASE c.state = "open"
  BY <1>2, Thresholds DEF Failed, Capped, Circuit, Agrees
<1>3. CASE c.state = "half_open"
  BY <1>3, Thresholds DEF Failed, Opened, Capped, Circuit, Agrees
<1> QED BY <1>1, <1>2, <1>3 DEF Circuit

\* What a step does to one provider's breaker and history: one of these.
Step(p) ==
  \/ /\ circuit'[p] = circuit[p] /\ fails'[p] = fails[p] /\ oks'[p] = oks[p]
  \/ /\ circuit'[p] = Allowed(circuit[p])
     /\ fails'[p] = fails[p] /\ oks'[p] = oks[p]
  \/ /\ circuit'[p] = Succeeded(circuit[p])
     /\ fails'[p] = 0 /\ oks'[p] = Capped(oks[p], HalfOpenMax)
  \/ /\ circuit'[p] = Failed(circuit[p])
     /\ fails'[p] = Capped(fails[p], MaxFailures) /\ oks'[p] = 0
  \/ /\ circuit[p].state = "open"
     /\ circuit'[p] = [circuit[p] EXCEPT !.age = Capped(@, OpenTimeout)]
     /\ fails'[p] = fails[p] /\ oks'[p] = oks[p]
  \/ /\ p \notin runtimes \cap runtimes'
     /\ circuit'[p] = Fresh /\ fails'[p] = 0 /\ oks'[p] = 0

Functions == /\ circuit = [p \in Provider |-> circuit[p]]
             /\ fails = [p \in Provider |-> fails[p]]
             /\ oks = [p \in Provider |-> oks[p]]

\* Every step keeps the three maps functions on the providers, changes each
\* provider's breaker in one of the ways of Step, and configures providers.
LEMMA StepOfNext ==
  ASSUME BreakerInv, [Next]_vars
  PROVE  /\ Functions' /\ runtimes' \subseteq Provider
         /\ \A p \in Provider : Step(p)
<1>f. Functions
  BY DEF BreakerInv, Functions
<1>s. Streamed \in Provider
  BY Thresholds
<1>0. ASSUME UNCHANGED shared
      PROVE  Functions' /\ runtimes' \subseteq Provider /\ \A p \in Provider : Step(p)
  BY <1>0, <1>f DEF shared, BreakerInv, Functions, Step
<1>1. ASSUME NEW q, RecordSuccess(q)
      PROVE  Functions' /\ runtimes' \subseteq Provider /\ \A p \in Provider : Step(p)
  BY <1>1, <1>f DEF RecordSuccess, BreakerInv, Functions, Step
<1>2. ASSUME NEW q, RecordFailure(q)
      PROVE  Functions' /\ runtimes' \subseteq Provider /\ \A p \in Provider : Step(p)
  BY <1>2, <1>f DEF RecordFailure, BreakerInv, Functions, Step
<1>3. ASSUME NEW r \in Request, RateLimited(r) \/ Admitted(r)
      PROVE  Functions' /\ runtimes' \subseteq Provider /\ \A p \in Provider : Step(p)
  BY <1>3, <1>f DEF RateLimited, Admitted, BreakerInv, Functions, Step
<1>4. ASSUME NEW enabled \in SUBSET Provider, Rebuild(enabled)
      PROVE  Functions' /\ runtimes' \subseteq Provider /\ \A p \in Provider : Step(p)
  BY <1>4 DEF Rebuild, BreakerInv, Functions, Step
<1>5. CASE Tick
  BY <1>5, <1>f DEF Tick, BreakerInv, Functions, Step
<1>6. ASSUME NEW p \in Provider, NEW ok \in BOOLEAN, Probe(p, ok)
      PROVE  Functions' /\ runtimes' \subseteq Provider /\ \A q \in Provider : Step(q)
  BY <1>6, <1>f DEF Probe, BreakerInv, Functions, Step
<1>7. ASSUME NEW r \in Request, NEW serving \in SUBSET Provider, Begin(r, serving)
      PROVE  UNCHANGED shared
  BY <1>7 DEF Begin
<1>8. ASSUME NEW r \in Request, Gone(r) \/ Reuse(r) \/ Wait(r)
      PROVE  UNCHANGED shared
  BY <1>8 DEF Gone, Reuse, Wait, Granted, WaitFails, shared
<1>9. ASSUME NEW r \in Request, Round(r)
      PROVE  UNCHANGED shared \/ RateLimited(r) \/ Admitted(r)
  BY <1>9 DEF Round, AtDeadline, GiveUp, Skip, Resume
<1>10. ASSUME NEW r \in Request, Answer(r)
       PROVE  UNCHANGED shared \/ RecordSuccess(Current(r)) \/ RecordFailure(Current(r))
  BY <1>10 DEF Answer, UpstreamFails, UpstreamAnswers, UpstreamEmpty, UpstreamStalls
<1>11. ASSUME NEW ok \in BOOLEAN, Stream(ok)
       PROVE  RecordSuccess(Streamed) \/ RecordFailure(Streamed)
  BY <1>11 DEF Stream
<1>12. CASE UNCHANGED vars
  BY <1>0, <1>12 DEF vars
<1> QED
  BY <1>0, <1>1, <1>2, <1>3, <1>4, <1>5, <1>6, <1>7, <1>8, <1>9, <1>10, <1>11,
     <1>12 DEF Next

\* One such step keeps a breaker in agreement with its history, and moves a
\* kept breaker only on the outcomes that back the move.
LEMMA StepAgrees ==
  ASSUME BreakerInv, NEW p \in Provider, Step(p)
  PROVE  /\ circuit'[p] \in Circuit /\ fails'[p] \in 0..MaxFailures
         /\ oks'[p] \in 0..HalfOpenMax
         /\ Agrees(circuit'[p], fails'[p], oks'[p])
         /\ p \in runtimes \cap runtimes' =>
              /\ circuit[p].state = "closed" /\ circuit'[p].state = "open"
                   => fails'[p] = MaxFailures
              /\ circuit[p].state # "closed" /\ circuit'[p].state = "closed"
                   => oks'[p] = HalfOpenMax
<1>c. /\ circuit[p] \in Circuit /\ fails[p] \in 0..MaxFailures
      /\ oks[p] \in 0..HalfOpenMax /\ Agrees(circuit[p], fails[p], oks[p])
  BY DEF BreakerInv
<1>1. CASE circuit'[p] = circuit[p] /\ fails'[p] = fails[p] /\ oks'[p] = oks[p]
  BY <1>c, <1>1
<1>2. CASE /\ circuit'[p] = Allowed(circuit[p])
           /\ fails'[p] = fails[p] /\ oks'[p] = oks[p]
  <2>1. Allowed(circuit[p]).state = circuit[p].state \/ Allowed(circuit[p]).state = "half_open"
    BY <1>c DEF Allowed, Circuit
  <2>2. Allowed(circuit[p]).state = "half_open" => circuit[p].state # "closed"
    BY <1>c DEF Allowed, Circuit
  <2> QED BY <1>c, <1>2, <2>1, <2>2, AllowedAgrees
<1>3. CASE /\ circuit'[p] = Succeeded(circuit[p])
           /\ fails'[p] = 0 /\ oks'[p] = Capped(oks[p], HalfOpenMax)
  BY <1>c, <1>3, SucceededAgrees, Thresholds
<1>4. CASE /\ circuit'[p] = Failed(circuit[p])
           /\ fails'[p] = Capped(fails[p], MaxFailures) /\ oks'[p] = 0
  BY <1>c, <1>4, FailedAgrees, Thresholds
<1>5. CASE /\ circuit[p].state = "open"
           /\ circuit'[p] = [circuit[p] EXCEPT !.age = Capped(@, OpenTimeout)]
           /\ fails'[p] = fails[p] /\ oks'[p] = oks[p]
  BY <1>c, <1>5, Thresholds DEF Circuit, Capped, Agrees
<1>6. CASE /\ p \notin runtimes \cap runtimes'
           /\ circuit'[p] = Fresh /\ fails'[p] = 0 /\ oks'[p] = 0
  BY <1>6, FreshAgrees, Thresholds
<1> QED BY <1>1, <1>2, <1>3, <1>4, <1>5, <1>6 DEF Step

\* The agreement of every breaker with its history is inductive.
LEMMA BreakersAgree == Spec => []BreakerInv
<1>1. Init => BreakerInv
  BY FreshAgrees, Thresholds DEF Init, BreakerInv
<1>2. BreakerInv /\ [Next]_vars => BreakerInv'
  <2> SUFFICES ASSUME BreakerInv, [Next]_vars PROVE BreakerInv'
    OBVIOUS
  <2>1. Functions' /\ runtimes' \subseteq Provider /\ \A p \in Provider : Step(p)
    BY StepOfNext
  <2>2. \A p \in Provider :
          /\ circuit'[p] \in Circuit /\ fails'[p] \in 0..MaxFailures
          /\ oks'[p] \in 0..HalfOpenMax /\ Agrees(circuit'[p], fails'[p], oks'[p])
    BY <2>1, StepAgrees
  <2> QED BY <2>1, <2>2 DEF BreakerInv, Functions
<1> QED BY <1>1, <1>2, PTL DEF Spec

\* No breaker stays closed over MaxFailures failures in a row, whichever of
\* the concurrent requests recorded them (record_failure).
THEOREM TripsTheorem == Spec => []BreakerTrips
<1>1. BreakerInv => BreakerTrips
  BY DEF BreakerInv, BreakerTrips, Agrees
<1> QED BY <1>1, BreakersAgree, PTL

\* A breaker opens and closes only when backed by that many consecutive
\* outcomes, late ones of earlier attempts included (record_success,
\* record_failure, allow).
THEOREM BackedTheorem == Spec => BreakerBacked
<1>1. BreakerInv /\ [Next]_vars =>
        [\A p \in runtimes \cap runtimes' :
           /\ circuit[p].state = "closed" /\ circuit'[p].state = "open"
                => fails'[p] = MaxFailures
           /\ circuit[p].state # "closed" /\ circuit'[p].state = "closed"
                => oks'[p] = HalfOpenMax]_vars
  <2> SUFFICES ASSUME BreakerInv, [Next]_vars, NEW p \in runtimes \cap runtimes'
               PROVE  /\ circuit[p].state = "closed" /\ circuit'[p].state = "open"
                           => fails'[p] = MaxFailures
                      /\ circuit[p].state # "closed" /\ circuit'[p].state = "closed"
                           => oks'[p] = HalfOpenMax
    OBVIOUS
  <2>1. p \in Provider /\ Step(p)
    BY StepOfNext DEF BreakerInv
  <2> QED BY <2>1, StepAgrees
<1> QED BY <1>1, BreakersAgree, PTL DEF Spec, BreakerBacked

-----------------------------------------------------------------------------
(* Failover.  Candidates are visited in the order of the cycle: the ones     *)
(* visited so far are at least the last attempts[r] of the rotated cycle.    *)

Active == {"loop", "backoff", "waiting", "sent"}

Visited(s, n, seen) ==
  /\ s # << >> /\ seen \subseteq ToSet(s)
  /\ Len(s) > 1 => \A i \in 1..Len(s) : i + n > Len(s) => s[i] \in seen

CycleOf(r) ==
  /\ cands[r] \in Seq(Provider) /\ attempts[r] \in Nat
  /\ pc[r] = "idle" => tried[r] = {}
  /\ pc[r] \notin Active => attempts[r] = 0
  /\ pc[r] \in Active => Visited(cands[r], attempts[r], tried[r])

CycleInv ==
  /\ pc = [r \in Request |-> pc[r]] /\ cands = [r \in Request |-> cands[r]]
  /\ attempts = [r \in Request |-> attempts[r]]
  /\ tried = [r \in Request |-> tried[r]]
  /\ \A r \in Request : CycleOf(r)

\* What a step does to one request.
Moves(r) ==
  \/ /\ pc'[r] = pc[r] \/ (pc[r] \in Active /\ pc'[r] \in Active)
     /\ cands'[r] = cands[r] /\ attempts'[r] = attempts[r] /\ tried'[r] = tried[r]
  \/ pc'[r] = "done" /\ cands'[r] = << >> /\ attempts'[r] = 0
  \/ /\ pc[r] = "done" /\ pc'[r] = "idle" /\ tried'[r] = {}
     /\ cands'[r] = cands[r] /\ attempts'[r] = attempts[r]
  \/ /\ pc[r] = "idle" /\ pc'[r] = "loop"
     /\ \E ok \in SUBSET Provider : ok # {} /\ cands'[r] \in SetToSeqs(ok)
     /\ attempts'[r] = attempts[r] /\ tried'[r] = tried[r]
  \/ /\ pc[r] = "loop" /\ pc'[r] \in Active /\ cands'[r] = Cycled(cands[r])
     /\ attempts'[r] = IF Len(cands[r]) > 1 THEN attempts[r] + 1 ELSE attempts[r]
     /\ tried'[r] = tried[r] \cup {Head(cands[r])}

\* The order select returns is a nonempty sequence of providers.
LEMMA OrderIsSeq ==
  ASSUME NEW ok \in SUBSET Provider, ok # {}, NEW s \in SetToSeqs(ok)
  PROVE  s \in Seq(Provider) /\ s # << >>
<1>1. IsFiniteSet(ok)
  BY ConstantsAssumption, FS_Subset
<1>2. Cardinality(ok) \in Nat /\ Cardinality(ok) # 0
  BY <1>1, FS_CardinalityType, FS_EmptySet
<1>3. s \in [1..Cardinality(ok) -> ok]
  BY DEF SetToSeqs
<1> QED BY <1>2, <1>3

\* Rotating the cycle keeps its members and adds its head to those visited.
LEMMA CycledVisited ==
  ASSUME NEW s \in Seq(Provider), NEW n \in Nat, NEW seen, Visited(s, n, seen)
  PROVE  /\ Cycled(s) \in Seq(Provider)
         /\ Visited(Cycled(s), IF Len(s) > 1 THEN n + 1 ELSE n, seen \cup {Head(s)})
<1> DEFINE t == Cycled(s)
<1>1. s # << >> /\ Len(s) \in Nat \ {0} /\ Head(s) = s[1] /\ Head(s) \in Provider
  BY DEF Visited
<1>2. /\ t \in Seq(Provider) /\ Len(t) = Len(s) /\ t[Len(s)] = s[1]
      /\ \A i \in 1..(Len(s) - 1) : t[i] = s[i + 1]
  BY <1>1 DEF Cycled
<1>3. ToSet(s) \subseteq ToSet(t)
  <2> SUFFICES ASSUME NEW i \in 1..Len(s) PROVE s[i] \in ToSet(t)
    BY DEF ToSet
  <2>1. CASE i = 1
    BY <1>1, <1>2, <2>1 DEF ToSet
  <2>2. CASE i # 1
    <3>1. i - 1 \in 1..(Len(s) - 1) /\ (i - 1) + 1 = i /\ i - 1 \in 1..Len(t)
      BY <1>1, <1>2, <2>2
    <3>2. t[i - 1] = s[i]
      BY <1>2, <3>1
    <3> QED BY <3>1, <3>2, <1>2 DEF ToSet
  <2> QED BY <2>1, <2>2
<1>4. Head(s) \in ToSet(s)
  BY <1>1 DEF ToSet
<1>5. t # << >>
  BY <1>1, <1>2
<1>6. ASSUME Len(t) > 1, NEW i \in 1..Len(t), i + (n + 1) > Len(t)
      PROVE  t[i] \in seen \cup {Head(s)}
  <2>1. CASE i = Len(s)
    BY <1>1, <1>2, <2>1
  <2>2. CASE i # Len(s)
    <3>1. i \in 1..(Len(s) - 1) /\ i + 1 \in 1..Len(s) /\ (i + 1) + n > Len(s)
      BY <1>1, <1>2, <1>6, <2>2
    <3>2. t[i] = s[i + 1] /\ s[i + 1] \in seen
      BY <1>2, <1>6, <3>1 DEF Visited
    <3> QED BY <3>2
  <2> QED BY <2>1, <2>2
<1>7. seen \cup {Head(s)} \subseteq ToSet(t)
  BY <1>3, <1>4 DEF Visited
<1> QED BY <1>2, <1>5, <1>6, <1>7 DEF Visited

\* Every step moves every request in one of those ways.
LEMMA MovesOfNext ==
  ASSUME CycleInv, [Next]_vars
  PROVE  /\ pc' = [r \in Request |-> pc'[r]] /\ cands' = [r \in Request |-> cands'[r]]
         /\ attempts' = [r \in Request |-> attempts'[r]]
         /\ tried' = [r \in Request |-> tried'[r]]
         /\ \A r \in Request : Moves(r)
<1> DEFINE Kept == /\ pc' = [r \in Request |-> pc'[r]]
                   /\ cands' = [r \in Request |-> cands'[r]]
                   /\ attempts' = [r \in Request |-> attempts'[r]]
                   /\ tried' = [r \in Request |-> tried'[r]]
<1>t. /\ pc = [r \in Request |-> pc[r]] /\ cands = [r \in Request |-> cands[r]]
      /\ attempts = [r \in Request |-> attempts[r]]
      /\ tried = [r \in Request |-> tried[r]]
  BY DEF CycleInv
<1>0. ASSUME UNCHANGED <<pc, cands, attempts, tried>>
      PROVE  Kept /\ \A r \in Request : Moves(r)
  BY <1>0, <1>t DEF Moves
<1>1. ASSUME NEW q \in Request, NEW outcome, Finish(q, outcome)
      PROVE  Kept /\ \A r \in Request : Moves(r)
  BY <1>1, <1>t DEF Finish, Moves
<1>2. ASSUME NEW q \in Request, NEW next \in Active, pc[q] \in Active, Goto(q, next)
      PROVE  Kept /\ \A r \in Request : Moves(r)
  BY <1>2, <1>t DEF Goto, Moves
<1>3. ASSUME NEW q \in Request, NEW next \in Active, Visit(q, next)
      PROVE  Kept /\ \A r \in Request : Moves(r)
  BY <1>3, <1>t DEF Visit, Candidate, Moves
<1>4. ASSUME NEW q \in Request, NEW serving \in SUBSET Provider, Begin(q, serving)
      PROVE  Kept /\ \A r \in Request : Moves(r)
  <2> DEFINE ok == {p \in serving : CandidateOk(p)}
  <2>1. CASE ok = {}
    BY <1>1, <1>4, <2>1 DEF Begin
  <2>2. CASE ok # {}
    <3>1. PICK order \in SetToSeqs(ok) : cands' = [cands EXCEPT ![q] = order]
      BY <1>4, <2>2 DEF Begin
    <3>2. /\ pc[q] = "idle" /\ pc' = [pc EXCEPT ![q] = "loop"]
          /\ attempts' = attempts /\ tried' = tried
      BY <1>4, <2>2 DEF Begin
    <3>3. ok \in SUBSET Provider
      OBVIOUS
    <3> HIDE DEF ok
    <3>4. Moves(q)
      BY <3>1, <3>2, <3>3, <2>2, <1>t DEF Moves
    <3>5. ASSUME NEW r \in Request, r # q PROVE Moves(r)
      BY <3>1, <3>2, <3>5, <1>t DEF Moves
    <3>6. Kept
      BY <3>1, <3>2, <1>t
    <3> QED BY <3>4, <3>5, <3>6
  <2> QED BY <2>1, <2>2
<1>5. ASSUME NEW q \in Request, Reuse(q)
      PROVE  Kept /\ \A r \in Request : Moves(r)
  BY <1>5, <1>t DEF Reuse, Moves
<1>6. ASSUME NEW q \in Request, UpstreamEmpty(q)
      PROVE  Kept /\ \A r \in Request : Moves(r)
  <2>1. CASE Finish(q, "all_empty")
    BY <1>1, <2>1
  <2>2. CASE /\ pc' = [pc EXCEPT ![q] = "loop"]
             /\ UNCHANGED <<cands, attempts, left, result, tried, dry>>
    BY <1>6, <2>2, <1>t DEF UpstreamEmpty, Moves, Active
  <2> QED BY <1>6, <2>1, <2>2 DEF UpstreamEmpty
<1>7. ASSUME NEW q \in Request, Round(q)
      PROVE  Kept /\ \A r \in Request : Moves(r)
  <2>1. CASE AtDeadline(q) \/ GiveUp(q)
    BY <1>1, <2>1 DEF AtDeadline, GiveUp
  <2>2. CASE Skip(q) \/ RateLimited(q) \/ Admitted(q)
    <3>1. Visit(q, "loop") \/ Visit(q, "backoff") \/ Visit(q, "waiting")
      BY <2>2 DEF Skip, RateLimited, Admitted
    <3>2. "loop" \in Active /\ "backoff" \in Active /\ "waiting" \in Active
      BY DEF Active
    <3> QED BY <1>3, <3>1, <3>2
  <2>3. CASE Resume(q)
    BY <1>2, <2>3 DEF Resume, Active
  <2> QED BY <1>7, <2>1, <2>2, <2>3 DEF Round
<1>8. ASSUME NEW q \in Request, Wait(q) \/ Gone(q)
      PROVE  Kept /\ \A r \in Request : Moves(r)
  BY <1>1, <1>2, <1>8 DEF Wait, Granted, WaitFails, Gone, Active
<1>9. ASSUME NEW q \in Request, Answer(q)
      PROVE  Kept /\ \A r \in Request : Moves(r)
  <2>1. CASE UpstreamFails(q)
    BY <1>2, <2>1 DEF UpstreamFails, Active
  <2>2. CASE UpstreamAnswers(q) \/ UpstreamStalls(q)
    BY <1>1, <2>2 DEF UpstreamAnswers, UpstreamStalls
  <2> QED BY <1>6, <1>9, <2>1, <2>2 DEF Answer
<1>10. ASSUME UNCHANGED vars \/ UNCHANGED request \/ Tick
       PROVE  Kept /\ \A r \in Request : Moves(r)
  BY <1>0, <1>10 DEF vars, request, Tick
<1>11. ASSUME \/ \E p \in Provider, ok \in BOOLEAN : Probe(p, ok)
              \/ \E ok \in BOOLEAN : Stream(ok)
              \/ \E enabled \in SUBSET Provider : Rebuild(enabled)
       PROVE  UNCHANGED request
  BY <1>11 DEF Probe, Stream, Rebuild
<1> HIDE DEF Kept
<1>q. Kept /\ \A r \in Request : Moves(r)
  BY <1>4, <1>5, <1>7, <1>8, <1>9, <1>10, <1>11 DEF Next
<1> QED BY <1>q DEF Kept

\* Each of those moves keeps the cycle and what was visited in step.
LEMMA MovesKeepCycle ==
  ASSUME CycleInv, NEW r \in Request, Moves(r)
  PROVE  CycleOf(r)'
<1>c. CycleOf(r)
  BY DEF CycleInv
<1>1. CASE /\ pc'[r] = pc[r] \/ (pc[r] \in Active /\ pc'[r] \in Active)
           /\ cands'[r] = cands[r] /\ attempts'[r] = attempts[r]
           /\ tried'[r] = tried[r]
  BY <1>1, <1>c DEF CycleOf, Active
<1>2. CASE pc'[r] = "done" /\ cands'[r] = << >> /\ attempts'[r] = 0
  BY <1>2 DEF CycleOf, Active
<1>3. CASE /\ pc[r] = "done" /\ pc'[r] = "idle" /\ tried'[r] = {}
           /\ cands'[r] = cands[r] /\ attempts'[r] = attempts[r]
  BY <1>3, <1>c DEF CycleOf, Active
<1>4. CASE /\ pc[r] = "idle" /\ pc'[r] = "loop"
           /\ \E ok \in SUBSET Provider : ok # {} /\ cands'[r] \in SetToSeqs(ok)
           /\ attempts'[r] = attempts[r] /\ tried'[r] = tried[r]
  <2>1. cands'[r] \in Seq(Provider) /\ cands'[r] # << >>
    BY <1>4, OrderIsSeq
  <2>2. attempts'[r] = 0 /\ tried'[r] = {}
    BY <1>4, <1>c DEF CycleOf, Active
  <2>3. Visited(cands'[r], attempts'[r], tried'[r])
    BY <2>1, <2>2 DEF Visited
  <2> QED BY <1>4, <2>1, <2>2, <2>3 DEF CycleOf, Active
<1>5. CASE /\ pc[r] = "loop" /\ pc'[r] \in Active /\ cands'[r] = Cycled(cands[r])
           /\ attempts'[r] = IF Len(cands[r]) > 1 THEN attempts[r] + 1 ELSE attempts[r]
           /\ tried'[r] = tried[r] \cup {Head(cands[r])}
  <2>1. /\ cands[r] \in Seq(Provider) /\ attempts[r] \in Nat
        /\ Visited(cands[r], attempts[r], tried[r])
    BY <1>5, <1>c DEF CycleOf, Active
  <2>a. /\ Cycled(cands[r]) \in Seq(Provider)
        /\ Visited(Cycled(cands[r]),
                   IF Len(cands[r]) > 1 THEN attempts[r] + 1 ELSE attempts[r],
                   tried[r] \cup {Head(cands[r])})
    BY <2>1, CycledVisited, Zenon
  <2>2. /\ cands'[r] \in Seq(Provider)
        /\ Visited(cands'[r], attempts'[r], tried'[r])
    BY <1>5, <2>a, Zenon
  <2>3. attempts'[r] \in Nat
    BY <1>5, <2>1
  <2> QED BY <1>5, <2>2, <2>3 DEF CycleOf, Active
<1> QED BY <1>1, <1>2, <1>3, <1>4, <1>5 DEF Moves

\* The visited candidates of every request follow its cycle, always.
LEMMA CyclesKept == Spec => []CycleInv
<1>1. Init => CycleInv
  BY DEF Init, CycleInv, CycleOf, Active
<1>2. CycleInv /\ [Next]_vars => CycleInv'
  <2> SUFFICES ASSUME CycleInv, [Next]_vars PROVE CycleInv'
    OBVIOUS
  <2>1. \A r \in Request : CycleOf(r)'
    BY MovesOfNext, MovesKeepCycle
  <2> QED BY <2>1, MovesOfNext DEF CycleInv
<1> QED BY <1>1, <1>2, PTL DEF Spec

\* Failover leaves no candidate out, however many there are and whatever
\* other requests, probes and settings saves do meanwhile (the cycle of
\* execute_buffered).
THEOREM TriedTheorem == Spec => EveryCandidateTried
<1>1. CycleInv =>
        [\A r \in Request :
           GiveUp(r) /\ MaxRetries >= Len(cands[r])
             => tried[r] = ToSet(cands[r])]_vars
  <2> SUFFICES ASSUME CycleInv, NEW r \in Request, GiveUp(r),
                      MaxRetries >= Len(cands[r])
               PROVE  tried[r] = ToSet(cands[r])
    OBVIOUS
  <2>1. /\ cands[r] \in Seq(Provider) /\ attempts[r] \in Nat
        /\ Visited(cands[r], attempts[r], tried[r])
    BY DEF CycleInv, CycleOf, GiveUp, Active
  <2>2. Len(cands[r]) > 1 /\ attempts[r] >= MaxRetries /\ MaxRetries \in Nat
    BY ConstantsAssumption DEF GiveUp, Spent
  <2>3. ASSUME NEW i \in 1..Len(cands[r]) PROVE cands[r][i] \in tried[r]
    <3>1. i + attempts[r] > Len(cands[r])
      BY <2>1, <2>2
    <3> QED BY <2>1, <2>2, <3>1 DEF Visited
  <2>4. ToSet(cands[r]) \subseteq tried[r]
    BY <2>1, <2>3 DEF ToSet
  <2> QED BY <2>1, <2>4 DEF Visited
<1> QED BY <1>1, CyclesKept, PTL DEF EveryCandidateTried

-----------------------------------------------------------------------------
(***************************************************************************)
(* The coalescer, which the same buffered requests meet before the loop over *)
(* the candidates: what it promises for any requests, keys and TTL.          *)
(***************************************************************************)
USE CoalescerAssumption

(* A running lead of a key none of whose leads was ever late is the entry. *)
LeadsAreEntries ==
  \A l \in Post : Live(l) /\ KeyOf[l] \notin late =>
    /\ entry[KeyOf[l]] = l /\ created[KeyOf[l]] = ledAt[l]
    /\ clock < ledAt[l] + Ttl

(* An entry is the lead of a request with its key.                         *)
OwnEntry == \A k \in Identity : entry[k] # NoLead => KeyOf[entry[k]] = k

CoalescerInv ==
  /\ CoalescerTypeOK /\ NoDeadEntry /\ OwnEntry /\ LeadsAreEntries
  /\ \A k \in Identity : created[k] <= clock

(* Every step keeps the types.                                             *)
LEMMA CoalescerType == CoalescerTypeOK /\ [CoalescerNext]_coalescer => CoalescerTypeOK'
<1> SUFFICES ASSUME CoalescerTypeOK, [CoalescerNext]_coalescer PROVE CoalescerTypeOK'
  OBVIOUS
<1> USE DEF Stages
<1>1. ASSUME NEW r \in Post, Follow(r) \/ Lead(r) PROVE CoalescerTypeOK'
  BY <1>1 DEF Follow, Lead, Reaped, WaitEnds, CoalescerTypeOK
<1>2. ASSUME NEW r \in Post, Publish(r) \/ Completed(r) \/ DropLead(r)
      PROVE  CoalescerTypeOK'
  BY <1>2 DEF Publish, Completed, DropLead, AfterDrop, CoalescerTypeOK
<1>3. ASSUME NEW r \in Post, Receive(r) \/ Proceed(r) \/ Leave(r) PROVE CoalescerTypeOK'
  BY <1>3 DEF Receive, Proceed, Leave, CoalescerTypeOK
<1>4. CASE TimePasses
  <2>1. late' \subseteq Identity
    BY <1>4 DEF TimePasses, CoalescerTypeOK
  <2> QED BY <1>4, <2>1 DEF TimePasses, CoalescerTypeOK
<1>5. CASE UNCHANGED coalescer
  BY <1>5 DEF coalescer, CoalescerTypeOK
<1> QED BY <1>1, <1>2, <1>3, <1>4, <1>5 DEF CoalescerNext, Follower

(* A registration that joins or leads keeps the invariant.                 *)
LEMMA RegisterStep ==
  ASSUME CoalescerInv, CoalescerTypeOK', NEW r \in Post, Follow(r) \/ Lead(r)
  PROVE  CoalescerInv'
<1> USE DEF CoalescerInv
<1>1. CASE Follow(r)
  <2>1. /\ UNCHANGED <<clock, created, late, ledAt>> /\ stage[r] = "new"
        /\ stage' = [stage EXCEPT ![r] = "follow"]
        /\ entry' = [k \in Identity |-> Reaped(k)]
    BY <1>1 DEF Follow
  <2>2. \A l \in Post : Live(l)' <=> Live(l)
    BY <2>1 DEF Live, CoalescerTypeOK
  <2>3. NoDeadEntry'
    BY <2>1, <2>2 DEF NoDeadEntry, Reaped, CoalescerTypeOK
  <2>4. LeadsAreEntries'
    <3> SUFFICES ASSUME NEW l \in Post, Live(l), KeyOf[l] \notin late
                 PROVE  entry'[KeyOf[l]] = l /\ created[KeyOf[l]] = ledAt[l]
                        /\ clock < ledAt[l] + Ttl
      BY <2>1, <2>2 DEF LeadsAreEntries
    <3>1. /\ entry[KeyOf[l]] = l /\ created[KeyOf[l]] = ledAt[l]
          /\ clock < ledAt[l] + Ttl
      BY DEF LeadsAreEntries
    <3>2. ~(Age(KeyOf[l]) >= 2 * Ttl)
      BY <3>1 DEF Age, CoalescerTypeOK
    <3> QED BY <2>1, <3>1, <3>2 DEF Reaped
  <2>5. OwnEntry'
    BY <2>1 DEF OwnEntry, Reaped
  <2> QED BY <2>1, <2>3, <2>4, <2>5
<1>2. CASE Lead(r)
  <2>1. /\ UNCHANGED <<clock, late>> /\ stage[r] = "new"
        /\ stage' = [stage EXCEPT ![r] = "lead"] /\ ~Joinable(KeyOf[r])
        /\ entry' = [k \in Identity |-> IF k = KeyOf[r] THEN r ELSE Reaped(k)]
        /\ created' = [created EXCEPT ![KeyOf[r]] = clock]
        /\ ledAt' = [ledAt EXCEPT ![r] = clock]
    BY <1>2 DEF Lead
  <2>2. Live(r)' /\ ~Live(r) /\ \A l \in Post \ {r} : Live(l)' <=> Live(l)
    BY <2>1 DEF Live, CoalescerTypeOK
  <2>3. NoDeadEntry'
    BY <2>1, <2>2 DEF NoDeadEntry, Reaped, CoalescerTypeOK
  <2>4. LeadsAreEntries'
    <3> SUFFICES ASSUME NEW l \in Post, Live(l)', KeyOf[l] \notin late
                 PROVE  entry'[KeyOf[l]] = l /\ created'[KeyOf[l]] = ledAt'[l]
                        /\ clock < ledAt'[l] + Ttl
      BY <2>1 DEF LeadsAreEntries
    <3>1. CASE l = r
      BY <2>1, <3>1 DEF CoalescerTypeOK
    <3>2. CASE l # r
      <4>1. /\ entry[KeyOf[l]] = l /\ created[KeyOf[l]] = ledAt[l]
            /\ clock < ledAt[l] + Ttl
        BY <2>2, <3>2 DEF LeadsAreEntries
      <4>2. Age(KeyOf[l]) < Ttl /\ ~(Age(KeyOf[l]) >= 2 * Ttl)
        BY <4>1 DEF Age, CoalescerTypeOK
      <4>3. Joinable(KeyOf[l])
        BY <4>1, <4>2 DEF Joinable, Reaped
      <4>4. KeyOf[l] # KeyOf[r]
        BY <4>3, <2>1
      <4> QED BY <2>1, <3>2, <4>1, <4>2, <4>4 DEF Reaped, CoalescerTypeOK
    <3> QED BY <3>1, <3>2
  <2>5. \A k \in Identity : created'[k] <= clock'
    BY <2>1 DEF CoalescerTypeOK
  <2>6. OwnEntry'
    BY <2>1 DEF OwnEntry, Reaped
  <2> QED BY <2>3, <2>4, <2>5, <2>6
<1> QED BY <1>1, <1>2

(* A drop may remove another lead's entry, but only for a late key.        *)
LEMMA DropStep ==
  ASSUME CoalescerInv, CoalescerTypeOK', NEW r \in Post, Completed(r) \/ DropLead(r)
  PROVE  CoalescerInv'
<1> USE DEF CoalescerInv
<1>1. /\ UNCHANGED <<clock, created, late, ledAt>> /\ Live(r) /\ ~Live(r)'
      /\ entry' = [entry EXCEPT ![KeyOf[r]] = NoLead]
      /\ \A l \in Post \ {r} : Live(l)' <=> Live(l)
  BY DEF Completed, DropLead, AfterDrop, Live, CoalescerTypeOK
<1>2. NoDeadEntry'
  <2> SUFFICES ASSUME NEW k \in Identity, entry'[k] # NoLead PROVE Live(entry[k])'
                                                                  /\ entry'[k] = entry[k]
    BY DEF NoDeadEntry, Live
  <2>1. k # KeyOf[r] /\ entry'[k] = entry[k] /\ Live(entry[k]) /\ entry[k] \in Post
    BY <1>1 DEF NoDeadEntry, CoalescerTypeOK
  <2>2. entry[k] # r
    BY <2>1 DEF OwnEntry
  <2> QED BY <1>1, <2>1, <2>2 DEF Live
<1>3. LeadsAreEntries'
  <2> SUFFICES ASSUME NEW l \in Post, Live(l)', KeyOf[l] \notin late
               PROVE  entry'[KeyOf[l]] = l /\ created[KeyOf[l]] = ledAt[l]
                      /\ clock < ledAt[l] + Ttl
    BY <1>1 DEF LeadsAreEntries
  <2>1. l # r /\ Live(l)
    BY <1>1
  <2>2. entry[KeyOf[l]] = l /\ created[KeyOf[l]] = ledAt[l] /\ clock < ledAt[l] + Ttl
    BY <2>1 DEF LeadsAreEntries
  <2>3. KeyOf[l] # KeyOf[r]
    BY <1>1, <2>1, <2>2 DEF LeadsAreEntries
  <2> QED BY <1>1, <2>2, <2>3 DEF CoalescerTypeOK
<1>4. OwnEntry'
  BY <1>1 DEF OwnEntry, CoalescerTypeOK
<1> QED BY <1>1, <1>2, <1>3, <1>4

(* The other steps change neither the entries nor which leads run, or only *)
(* let time pass.                                                          *)
LEMMA OtherStep ==
  ASSUME CoalescerInv, CoalescerTypeOK',
         \/ \E r \in Post : Publish(r) \/ Receive(r) \/ Proceed(r) \/ Leave(r)
         \/ TimePasses \/ UNCHANGED coalescer
  PROVE  CoalescerInv'
<1> USE DEF CoalescerInv
<1>1. /\ UNCHANGED <<entry, created, ledAt>> /\ late \subseteq late'
      /\ clock' = clock \/ clock' = clock + 1
  BY DEF Publish, Receive, Proceed, Leave, TimePasses, coalescer
<1>2. \A l \in Post : Live(l)' <=> Live(l)
  BY DEF Publish, Receive, Proceed, Leave, TimePasses, coalescer, Live, CoalescerTypeOK
<1>3. NoDeadEntry' /\ OwnEntry'
  BY <1>1, <1>2 DEF NoDeadEntry, OwnEntry, CoalescerTypeOK
<1>4. \A k \in Identity : created'[k] <= clock'
  BY <1>1 DEF CoalescerTypeOK
<1>5. LeadsAreEntries'
  <2> SUFFICES ASSUME NEW l \in Post, Live(l), KeyOf[l] \notin late'
               PROVE  clock' < ledAt[l] + Ttl
    BY <1>1, <1>2 DEF LeadsAreEntries
  <2>1. CASE clock' = clock
    BY <1>1, <2>1 DEF LeadsAreEntries
  <2>2. CASE TimePasses
    BY <2>2 DEF TimePasses, CoalescerTypeOK
  <2> QED BY <2>1, <2>2 DEF Publish, Receive, Proceed, Leave, coalescer
<1> QED BY <1>3, <1>4, <1>5

\* The invariant is inductive, hence it holds always.
LEMMA CoalescerKept == CoalescerSpec => []CoalescerInv
<1>1. CoalescerInit => CoalescerInv
  BY DEF CoalescerInit, CoalescerInv, CoalescerTypeOK, Stages, NoDeadEntry, OwnEntry,
         LeadsAreEntries, Live
<1>2. CoalescerInv /\ [CoalescerNext]_coalescer => CoalescerInv'
  <2> SUFFICES ASSUME CoalescerInv, [CoalescerNext]_coalescer PROVE CoalescerInv'
    OBVIOUS
  <2>1. CoalescerTypeOK'
    BY CoalescerType DEF CoalescerInv
  <2> QED BY <2>1, RegisterStep, DropStep, OtherStep DEF CoalescerNext, Follower
<1> QED BY <1>1, <1>2, PTL DEF CoalescerSpec

(* The theorems.                                                           *)

(* A request that registers never joins a call that has ended.             *)
THEOREM NoDeadEntryTheorem == CoalescerSpec => [](CoalescerTypeOK /\ NoDeadEntry)
<1>1. CoalescerInv => CoalescerTypeOK /\ NoDeadEntry
  BY DEF CoalescerInv
<1> QED BY <1>1, CoalescerKept, PTL

(* Calls that end within the TTL are never duplicated.                     *)
THEOREM OneLeaderTheorem == CoalescerSpec => []OneLeader
<1>1. CoalescerInv => OneLeader
  BY DEF CoalescerInv, LeadsAreEntries, OneLeader
<1> QED BY <1>1, CoalescerKept, PTL

(* A published response reaches every follower that stays.                 *)
THEOREM SharedTheorem == CoalescerSpec => PublishedIsShared
<1>1. ASSUME CoalescerTypeOK, [CoalescerNext]_coalescer
      PROVE  [\A r \in Post :
                stage[r] = "follow" /\ leader[r] \in published => stage'[r] # "alone"]_coalescer
  <2> SUFFICES ASSUME CoalescerNext, NEW r \in Post, stage[r] = "follow",
                      leader[r] \in published
               PROVE  stage'[r] # "alone"
    BY <1>1
  <2>1. ASSUME NEW q \in Post, Proceed(q) PROVE q # r
    BY <2>1 DEF Proceed, GivesUp, HasValue
  <2> QED BY <1>1, <2>1
          DEF CoalescerNext, Follower, Follow, Lead, Publish, Completed, DropLead, Receive,
              Proceed, Leave, TimePasses, CoalescerTypeOK
<1> QED BY <1>1, NoDeadEntryTheorem, PTL DEF CoalescerSpec, PublishedIsShared
=============================================================================
