----------------------------- MODULE Coalescer -----------------------------
(***************************************************************************)
(* The request coalescer (proxy/src/coalescer.rs) as execute_buffered uses  *)
(* it: the first of several identical requests leads and makes the upstream *)
(* call, the others wait for what it publishes on a watch channel.  Time-to- *)
(* live bounds the wait and lets a new leader replace one that is too slow. *)
(***************************************************************************)
EXTENDS Naturals

CONSTANTS
  Post, Identity,     \* buffered requests, and their coalesce keys
  KeyOf,              \* the coalesce key of each request
  NoLead,             \* no entry, or not a follower
  Ttl,                \* how long an entry is joined and a follower waits
  Horizon             \* bound on the clock

ASSUME CoalescerAssumption ==
  /\ KeyOf \in [Post -> Identity] /\ NoLead \notin Post
  /\ Ttl \in Nat \ {0} /\ Horizon \in Nat

VARIABLES
  clock,
  entry, created,       \* entries: the lead whose channel is joined, its age
  stage,                \* the requests
  leader, until,        \* a follower's receiver and its timeout
  published,            \* leads whose channel holds a response
  ledAt, late    \* history: when a lead began; keys a lead of which outlived Ttl

coalescer == <<clock, entry, created, stage, leader, until, published, ledAt, late>>

Live(l) == stage[l] \in {"lead", "publishing"}

CoalescerInit ==
  /\ clock = 0
  /\ entry = [k \in Identity |-> NoLead] /\ created = [k \in Identity |-> 0]
  /\ stage = [r \in Post |-> "new"]
  /\ leader = [r \in Post |-> NoLead] /\ until = [r \in Post |-> 0]
  /\ published = {} /\ ledAt = [r \in Post |-> 0] /\ late = {}

-----------------------------------------------------------------------------
Age(k) == clock - created[k]

\* entries.retain: every register drops the entries older than twice the TTL.
Reaped(k) == IF Age(k) >= 2 * Ttl THEN NoLead ELSE entry[k]

JoinableTooShort(k) == Reaped(k) # NoLead /\ Age(k) + 1 < Ttl      \* mutant
Joinable(k) == Reaped(k) # NoLead /\ Age(k) < Ttl

WaitEndsBefore == clock - Ttl                                      \* mutant
WaitEnds == clock + Ttl

Follow(r) ==
  /\ stage[r] = "new" /\ Joinable(KeyOf[r])
  /\ entry' = [k \in Identity |-> Reaped(k)]
  /\ leader' = [leader EXCEPT ![r] = entry[KeyOf[r]]]
  /\ until' = [until EXCEPT ![r] = WaitEnds]
  /\ stage' = [stage EXCEPT ![r] = "follow"]
  /\ UNCHANGED <<clock, created, published, ledAt, late>>

\* A first request leads; so does one that finds an entry past its TTL, which
\* it replaces.
Lead(r) ==
  /\ stage[r] = "new" /\ ~Joinable(KeyOf[r])
  /\ entry' = [k \in Identity |-> IF k = KeyOf[r] THEN r ELSE Reaped(k)]
  /\ created' = [created EXCEPT ![KeyOf[r]] = clock]
  /\ stage' = [stage EXCEPT ![r] = "lead"]
  /\ ledAt' = [ledAt EXCEPT ![r] = clock]
  /\ UNCHANGED <<clock, leader, until, published, late>>

\* Lead::complete sends the response ...
Publish(r) ==
  /\ stage[r] = "lead"
  /\ published' = published \cup {r}
  /\ stage' = [stage EXCEPT ![r] = "publishing"]
  /\ UNCHANGED <<clock, entry, created, leader, until, ledAt, late>>

\* Lead::drop removes whatever entry its key has now.
AfterDropKept(r) == entry                                          \* mutant
AfterDrop(r) == [entry EXCEPT ![KeyOf[r]] = NoLead]

\* ... and is dropped at its end.
Completed(r) ==
  /\ stage[r] = "publishing"
  /\ entry' = AfterDrop(r)
  /\ stage' = [stage EXCEPT ![r] = "done"]
  /\ UNCHANGED <<clock, created, leader, until, published, ledAt, late>>

\* Dropped unpublished: the call failed, stalled or was cancelled, or its
\* completion was empty and the request goes on to other providers alone.
DropLead(r) ==
  /\ stage[r] = "lead"
  /\ entry' = AfterDrop(r)
  /\ \E next \in {"done", "alone"} : stage' = [stage EXCEPT ![r] = next]
  /\ UNCHANGED <<clock, created, leader, until, published, ledAt, late>>

-----------------------------------------------------------------------------
\* wait: the timeout polls the channel before the timer, and a value is seen
\* also on a channel whose sender is gone.
HasValue(r) == leader[r] \in published

Receive(r) ==
  /\ stage[r] = "follow" /\ HasValue(r)
  /\ stage' = [stage EXCEPT ![r] = "shared"]
  /\ UNCHANGED <<clock, entry, created, leader, until, published, ledAt, late>>

ReleasedEarly(r) == ~Live(leader[r]) \/ until[r] <= clock          \* mutant
NeverTimesOut(r) == ~HasValue(r) /\ ~Live(leader[r])               \* mutant
GivesUp(r) == ~HasValue(r) /\ (~Live(leader[r]) \/ until[r] <= clock)

\* The leader vanished or the wait timed out: proceed alone.
Proceed(r) ==
  /\ stage[r] = "follow" /\ GivesUp(r)
  /\ stage' = [stage EXCEPT ![r] = "alone"]
  /\ UNCHANGED <<clock, entry, created, leader, until, published, ledAt, late>>

\* A follower's or a lone request's client leaves, or its own call ends.
Leave(r) ==
  /\ stage[r] \in {"follow", "alone"}
  /\ stage' = [stage EXCEPT ![r] = "done"]
  /\ UNCHANGED <<clock, entry, created, leader, until, published, ledAt, late>>

TimePasses ==
  /\ clock < Horizon \/ \E r \in Post : stage[r] = "follow" /\ clock < until[r]
  /\ clock' = clock + 1
  /\ late' = late \cup
       {KeyOf[l] : l \in {r \in Post : Live(r) /\ clock' >= ledAt[r] + Ttl}}
  /\ UNCHANGED <<entry, created, stage, leader, until, published, ledAt>>

Follower(r) == Receive(r) \/ Proceed(r)

CoalescerNext ==
  \/ \E r \in Post : \/ Follow(r) \/ Lead(r) \/ Publish(r) \/ Completed(r)
                     \/ DropLead(r) \/ Follower(r) \/ Leave(r)
  \/ TimePasses

CoalescerSpec == CoalescerInit /\ [][CoalescerNext]_coalescer

\* Timers fire and followers are woken; no leader is assumed to finish.
FairCoalescer ==
  CoalescerSpec /\ WF_coalescer(TimePasses) /\ \A r \in Post : WF_coalescer(Follower(r))

-----------------------------------------------------------------------------
(* Properties.                                                             *)

Stages == {"new", "lead", "publishing", "follow", "shared", "alone", "done"}

\* Every variable has the shape the code gives it.
CoalescerTypeOK ==
  /\ clock \in Nat
  /\ entry \in [Identity -> Post \cup {NoLead}] /\ created \in [Identity -> Nat]
  /\ stage \in [Post -> Stages] /\ leader \in [Post -> Post \cup {NoLead}]
  /\ until \in [Post -> Nat] /\ published \subseteq Post
  /\ ledAt \in [Post -> Nat] /\ late \subseteq Identity

\* Drop removes the entry "so late followers don't attach to a dead call":
\* a request that registers now joins a call that is still running.
NoDeadEntry == \A k \in Identity : entry[k] # NoLead => Live(entry[k])

\* While every call of a key ends within the TTL, at most one runs at a time
\* and all others follow it.
OneLeader ==
  \A l, m \in Post :
    Live(l) /\ Live(m) /\ KeyOf[l] = KeyOf[m] /\ KeyOf[l] \notin late => l = m

\* "Every waiter receives the same response": once its leader has published,
\* a follower does not go on to call the upstream itself, although the leader
\* is dropped or the wait times out before the follower runs again.
PublishedIsShared ==
  [][\A r \in Post :
       stage[r] = "follow" /\ leader[r] \in published => stage'[r] # "alone"]_coalescer

\* A follower never waits for ever, whatever its leader does.
FollowersReleased == \A r \in Post : stage[r] = "follow" ~> stage[r] # "follow"

\* coalescer.rs: "identical in-flight POSTs share one upstream call".  Two
\* calls of one key, both younger than the TTL, should not run at once.
OneFreshLeader ==
  \A l, m \in Post :
    Live(l) /\ Live(m) /\ KeyOf[l] = KeyOf[m] /\ l # m
      => clock >= ledAt[l] + Ttl \/ clock >= ledAt[m] + Ttl
=============================================================================
