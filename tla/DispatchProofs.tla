--------------------------- MODULE DispatchProofs ---------------------------
(***************************************************************************)
(* The rate-limiting guarantees of Dispatch for every set of keys, every   *)
(* number of requests and every window: type correctness, the budget of a  *)
(* grant, the upstream's quota, that commits keep a key's rest, that slots  *)
(* go out in order of arrival, and that the wait of the task is exact.      *)
(***************************************************************************)
EXTENDS Dispatch, FiniteSetTheorems, WellFoundedInduction, TLAPS

(* A slot that was taken is in nobody's queue any more, except the one in  *)
(* the dispatcher's hand.                                                  *)
Taken(w) ==
  /\ st[w] # "new"
  /\ st[w] = "queued" => phase = "send" /\ serving.id = w

StampedByNow == \A w \in Waiter : slotAt[w] <= clock /\ slotGen[w] <= gen

OnItsKey ==
  \A k \in Key : \A w \in sent[k] \cup charged[k] : Taken(w) /\ slotKey[w] = k

ArrivesInTime ==
  \A w \in Arrived : slotAt[w] <= arrived[w] /\ arrived[w] <= slotAt[w] + Jitter

(* The live pool remembers every slot taken on a key inside the window.    *)
Remembered ==
  \A k \in Key : \A w \in charged[k] : clock < slotAt[w] + Window => w \in sent[k]

(* No window of the pool's length holds more grants than the largest budget. *)
InWindowAt(k, t) == {w \in charged[k] : slotAt[w] <= t /\ t < slotAt[w] + Window}

GrantQuota == \A k \in Key, t \in Nat : Cardinality(InWindowAt(k, t)) <= RpmMax

IInv ==
  /\ TypeOK /\ StampedByNow /\ OnItsKey /\ ArrivesInTime
  /\ Remembered /\ GrantQuota /\ SlotsAccounted

USE ConstantsAssumption

\* The padded window WINDOW is a positive length: the upstream's plus jitter.
LEMMA Types ==
  /\ Window \in Nat \ {0} /\ UpstreamWindow \in Nat /\ Jitter \in Nat
  /\ Window = UpstreamWindow + Jitter
BY DEF Window

\* There are finitely many acquire calls, so windows have a size.
LEMMA WaiterFinite == IsFiniteSet(Waiter)
BY FS_Interval DEF Waiter

-----------------------------------------------------------------------------
(* Type correctness.                                                       *)

\* The pool and dispatcher of a fresh process are well typed.
LEMMA InitType == Init => TypeOK
<1> SUFFICES ASSUME Init PROVE TypeOK
  OBVIOUS
<1>1. order \in Seq(Key) /\ enabled \subseteq Key /\ rpm \in [Key -> 1..RpmMax]
  <2>1. order \in Seq(Key) /\ rpm \in [Key -> 1..RpmMax]
    BY DEF Init
  <2>2. \A i \in DOMAIN InitOrder : InitOrder[i] \in Key
    OBVIOUS
  <2> QED BY <2>1, <2>2 DEF Init, Elements
<1>2. queue \in Seq(Job)
  BY DEF Init
<1> QED BY <1>1, <1>2 DEF Init, TypeOK, States

(* A settings commit whose arguments are well formed keeps the types.      *)
LEMMA RebuildType ==
  ASSUME TypeOK, NEW o \in Seq(Key), NEW e \in SUBSET Key,
         NEW r \in [Key -> 1..RpmMax], Rebuild(o, e, r)
  PROVE  TypeOK'
<1>1. sent' \in [Key -> SUBSET Waiter] /\ charged' \in [Key -> SUBSET Waiter]
  BY DEF Rebuild, Kept, TypeOK
<1>2. cooldown' \in [Key -> Nat]
  BY DEF Rebuild, Kept, TypeOK
<1>3. gen' \in Nat /\ order' \in Seq(Key) /\ enabled' \subseteq Key
      /\ rpm' \in [Key -> 1..RpmMax]
  BY DEF Rebuild, Kept, TypeOK
<1> QED BY <1>1, <1>2, <1>3 DEF Rebuild, Kept, TypeOK, task, slot

(* Every settings operation is a commit with well-formed arguments.        *)
LEMMA SettingsRebuild ==
  ASSUME TypeOK, Settings
  PROVE  \E o \in Seq(Key), e \in SUBSET Key, r \in [Key -> 1..RpmMax] :
           Rebuild(o, e, r)
<1>0. order \in Seq(Key) /\ enabled \in SUBSET Key /\ rpm \in [Key -> 1..RpmMax]
  BY DEF TypeOK
<1>1. ASSUME NEW i \in DOMAIN order, RemoveKey(i)
      PROVE  \E o \in Seq(Key), e \in SUBSET Key, r \in [Key -> 1..RpmMax] :
               Rebuild(o, e, r)
  <2>1. SubSeq(order, 1, i - 1) \o SubSeq(order, i + 1, Len(order)) \in Seq(Key)
    BY <1>0
  <2>2. enabled \ {order[i]} \in SUBSET Key
    BY <1>0
  <2> QED BY <1>0, <1>1, <2>1, <2>2 DEF RemoveKey
<1>2. ASSUME NEW k \in Key, NEW n \in Rpms, AddKey(k, n) \/ SetRpm(k, n)
      PROVE  \E o \in Seq(Key), e \in SUBSET Key, r \in [Key -> 1..RpmMax] :
               Rebuild(o, e, r)
  <2>1. Append(order, k) \in Seq(Key) /\ enabled \cup {k} \in SUBSET Key
    BY <1>0
  <2>2. [rpm EXCEPT ![k] = n] \in [Key -> 1..RpmMax]
    BY <1>0
  <2> QED BY <1>0, <1>2, <2>1, <2>2 DEF AddKey, SetRpm
<1>3. ASSUME NEW k \in Key, NEW on \in BOOLEAN, SetEnabled(k, on)
      PROVE  \E o \in Seq(Key), e \in SUBSET Key, r \in [Key -> 1..RpmMax] :
               Rebuild(o, e, r)
  <2>1. enabled \cup {k} \in SUBSET Key /\ enabled \ {k} \in SUBSET Key
    BY <1>0
  <2> QED BY <1>0, <1>3, <2>1 DEF SetEnabled
<1> QED BY <1>1, <1>2, <1>3 DEF Settings

\* Settings commits keep the state well typed.
LEMMA SettingsType == TypeOK /\ Settings => TypeOK'
BY SettingsRebuild, RebuildType

\* So does every step of dispatcher, callers, operators and time.
LEMMA NextType == TypeOK /\ [Next]_vars => TypeOK'
<1> SUFFICES ASSUME TypeOK, [Next]_vars PROVE TypeOK'
  OBVIOUS
<1> USE DEF TypeOK
<1>1. CASE Recv
  BY <1>1 DEF Recv, pool, slot
<1>2. CASE HeadClosed
  BY <1>2 DEF HeadClosed, pool, slot
<1>3. CASE Expire
  BY <1>3 DEF Expire, PruneEnabled, Live, slot, States, Me, Job
<1>4. CASE Deliver
  <2>1. Me \in Waiter /\ st' \in [Waiter -> States] /\ wakeAt' \in Nat
    BY <1>4 DEF Deliver, States, Me, Job
  <2> QED BY <1>4, <2>1 DEF Deliver, pool, slot
<1>5. CASE Release
  BY <1>5 DEF Release, WithoutSlot, slot, Me, Job
<1>6. CASE Wake
  BY <1>6 DEF Wake, pool, slot
<1>7. ASSUME NEW k \in Key, Reserve(k) PROVE TypeOK'
  BY <1>7 DEF Reserve, Live, Me, Job
<1>8. ASSUME NEW d \in 1..Window, Sleep(d) PROVE TypeOK'
  <2>1. wakeAt' \in Nat
    BY <1>8, Types DEF Sleep
  <2>2. sent' \in [Key -> SUBSET Waiter]
    BY <1>8 DEF Sleep, PruneEnabled, Live
  <2> QED BY <1>8, <2>1, <2>2 DEF Sleep, slot
<1>9. ASSUME NEW w \in Waiter, NEW d \in Deadlines, NEW p \in Prefers,
             Acquire(w, d, p)
      PROVE  TypeOK'
  BY <1>9 DEF Acquire, pool, slot, States, Job
<1>10. ASSUME NEW w \in Waiter, Abandon(w) PROVE TypeOK'
  BY <1>10 DEF Abandon, pool, task, slot, States
<1>11. ASSUME NEW w \in Waiter, Arrive(w) PROVE TypeOK'
  BY <1>11 DEF Arrive, pool, task, States
<1>12. ASSUME NEW w \in Waiter, NEW b \in Backoffs,
              ConnectFails(w, b) \/ Rejected(w, b)
       PROVE  TypeOK'
  <2>1. st' \in [Waiter -> States]
    BY <1>12 DEF ConnectFails, Rejected, States
  <2>2. cooldown' \in [Key -> Nat] /\ told' \in [Key -> Nat]
    <3> DEFINE k == slotKey[w]
               until == clock + b
    <3>1. until \in Nat
      OBVIOUS
    <3>2. /\ cooldown' = [cooldown EXCEPT ![k] =
                IF slotGen[w] = gen /\ cooldown[k] < until THEN until ELSE cooldown[k]]
          /\ told' = [told EXCEPT ![k] = IF told[k] < until THEN until ELSE told[k]]
      BY <1>12 DEF ConnectFails, Rejected, Penalize
    <3> HIDE DEF k, until
    <3> QED BY <3>1, <3>2
  <2> QED BY <1>12, <2>1, <2>2 DEF ConnectFails, Rejected, task, slot
<1>13. CASE Settings
  BY <1>13, SettingsType DEF TypeOK
<1>14. CASE Tick
  BY <1>14 DEF Tick, pool, task, slot
<1>15. CASE UNCHANGED vars
  BY <1>15 DEF vars, pool, task, slot
<1> QED
  BY <1>1, <1>2, <1>3, <1>4, <1>5, <1>6, <1>7, <1>8, <1>9, <1>10, <1>11,
     <1>12, <1>13, <1>14, <1>15 DEF Next, Dispatcher, Caller

(* Every variable keeps the shape the code gives it, for any keys, windows *)
(* and numbers of requests and commits.                                    *)
THEOREM TypeCorrect == Spec => []TypeOK
<1>1. QED BY InitType, NextType, PTL DEF Spec

-----------------------------------------------------------------------------
(* The inductive invariant.                                                *)

\* A fresh pool holds no stamps: the invariant holds trivially.
LEMMA InitInv == Init => IInv
<1> SUFFICES ASSUME Init PROVE IInv
  OBVIOUS
<1>1. TypeOK
  BY InitType
<1>2. StampedByNow /\ OnItsKey /\ ArrivesInTime /\ Remembered /\ SlotsAccounted
  BY DEF Init, StampedByNow, OnItsKey, ArrivesInTime, Remembered, SlotsAccounted,
         Arrived
<1>3. GrantQuota
  <2> SUFFICES ASSUME NEW k \in Key, NEW t \in Nat
               PROVE  Cardinality(InWindowAt(k, t)) <= RpmMax
    BY DEF GrantQuota
  <2>1. InWindowAt(k, t) = {}
    BY DEF Init, InWindowAt
  <2> QED BY <2>1, FS_EmptySet
<1> QED BY <1>1, <1>2, <1>3 DEF IInv

(* Steps that touch neither windows nor stamps nor the clock.              *)
LEMMA QuietStep ==
  ASSUME IInv, TypeOK',
         UNCHANGED <<sent, charged, slotKey, slotAt, slotGen, clock, gen>>,
         \A w \in Waiter : Taken(w) => Taken(w)',
         \A w \in Arrived' : \/ w \in Arrived /\ arrived'[w] = arrived[w]
                             \/ arrived'[w] = clock /\ clock <= slotAt[w] + Jitter
  PROVE  IInv'
<1>1. StampedByNow' /\ Remembered' /\ SlotsAccounted'
  BY DEF IInv, StampedByNow, Remembered, SlotsAccounted
<1>2. OnItsKey'
  BY DEF IInv, OnItsKey, TypeOK
<1>3. ArrivesInTime'
  <2> SUFFICES ASSUME NEW w \in Arrived'
               PROVE  slotAt'[w] <= arrived'[w] /\ arrived'[w] <= slotAt'[w] + Jitter
    BY DEF ArrivesInTime
  <2>1. w \in Waiter
    BY DEF Arrived
  <2>2. slotAt'[w] = slotAt[w] /\ slotAt[w] <= clock
    BY <2>1 DEF IInv, StampedByNow
  <2> QED BY <2>1, <2>2 DEF IInv, ArrivesInTime
<1>4. GrantQuota'
  BY DEF IInv, GrantQuota, InWindowAt
<1> QED BY <1>1, <1>2, <1>3, <1>4 DEF IInv

(* Dropping expired stamps loses nothing that is remembered.               *)
LEMMA PruneStep ==
  ASSUME IInv, TypeOK', PruneEnabled,
         UNCHANGED <<charged, slotKey, slotAt, slotGen, arrived, clock, gen>>,
         \A w \in Waiter : Taken(w) => Taken(w)',
         Arrived' = Arrived
  PROVE  IInv'
<1>1. StampedByNow' /\ ArrivesInTime'
  BY DEF IInv, StampedByNow, ArrivesInTime
<1>2. Remembered'
  BY DEF IInv, Remembered, PruneEnabled, Live, TypeOK
<1>3. SlotsAccounted'
  BY DEF IInv, SlotsAccounted, PruneEnabled, Live, TypeOK
<1>4. OnItsKey'
  BY DEF IInv, OnItsKey, PruneEnabled, Live, TypeOK
<1>5. GrantQuota'
  BY DEF IInv, GrantQuota, InWindowAt
<1> QED BY <1>1, <1>2, <1>3, <1>4, <1>5 DEF IInv

(* A waiter that is being polled has taken no slot yet.                    *)
LEMMA PolledIsFresh ==
  ASSUME IInv, phase = "poll", st[Me] = "queued", NEW k \in Key
  PROVE  Me \in Waiter /\ Me \notin sent[k] /\ Me \notin charged[k]
BY DEF IInv, OnItsKey, Taken, TypeOK, Me, Job

(* What is charged to a key in the current window fits its budget with one *)
(* slot to spare when the lane is open.                                    *)
LEMMA OpenHasRoom ==
  ASSUME IInv, NEW k \in Key, Open(k)
  PROVE  /\ IsFiniteSet(InWindowAt(k, clock))
         /\ Cardinality(InWindowAt(k, clock)) \in Nat
         /\ Cardinality(InWindowAt(k, clock)) + 1 <= rpm[k]
         /\ rpm[k] \in 1..RpmMax
<1>1. IsFiniteSet(Live(k, clock)) /\ IsFiniteSet(InWindowAt(k, clock))
  BY WaiterFinite, FS_Subset DEF IInv, TypeOK, Live, InWindowAt
<1>2. InWindowAt(k, clock) \subseteq Live(k, clock)
  BY DEF IInv, Remembered, InWindowAt, Live
<1>3. Cardinality(InWindowAt(k, clock)) <= Cardinality(Live(k, clock))
  BY <1>1, <1>2, FS_Subset
<1>4. /\ Cardinality(Live(k, clock)) \in Nat
      /\ Cardinality(InWindowAt(k, clock)) \in Nat
  BY <1>1, FS_CardinalityType
<1>5. Cardinality(Live(k, clock)) < rpm[k] /\ rpm[k] \in 1..RpmMax
  BY DEF Open, Load, IInv, TypeOK
<1> QED BY <1>1, <1>3, <1>4, <1>5

\* Pool::reserve: one more stamp on a lane with room keeps every window of
\* that lane within budget, the windows that end later included.
LEMMA ReserveStep ==
  ASSUME IInv, TypeOK', NEW k \in Key, Reserve(k)
  PROVE  IInv'
<1> USE DEF IInv
<1>1. /\ phase = "poll" /\ st[Me] = "queued" /\ Me \in Waiter /\ Open(k)
      /\ \A j \in Key : Me \notin sent[j] /\ Me \notin charged[j]
  BY PolledIsFresh DEF Reserve, Chosen, ReadyLanes
<1>2. /\ UNCHANGED <<clock, gen, serving, st, arrived, rpm>> /\ phase' = "send"
      /\ slotKey' = [slotKey EXCEPT ![Me] = k]
      /\ slotAt' = [slotAt EXCEPT ![Me] = clock]
      /\ slotGen' = [slotGen EXCEPT ![Me] = gen]
      /\ charged' = [charged EXCEPT ![k] = charged[k] \cup {Me}]
  BY DEF Reserve
<1>3. /\ \A j \in Key \ {k} : Live(j, clock) \subseteq sent'[j] /\ sent'[j] \subseteq sent[j]
      /\ Live(k, clock) \subseteq sent'[k] /\ sent'[k] \subseteq sent[k] \cup {Me}
      /\ Me \in sent'[k]
  BY DEF Reserve, Live, TypeOK
<1>4. /\ charged'[k] = charged[k] \cup {Me}
      /\ \A j \in Key \ {k} : charged'[j] = charged[j]
      /\ slotAt'[Me] = clock /\ slotGen'[Me] = gen /\ slotKey'[Me] = k
      /\ \A w \in Waiter \ {Me} : /\ slotAt'[w] = slotAt[w]
                                  /\ slotGen'[w] = slotGen[w]
                                  /\ slotKey'[w] = slotKey[w]
  BY <1>1, <1>2 DEF TypeOK
<1>5. \A j \in Key : charged[j] \subseteq Waiter \ {Me} /\ sent[j] \subseteq Waiter \ {Me}
  <2>1. \A j \in Key : charged[j] \subseteq Waiter /\ sent[j] \subseteq Waiter
    BY DEF TypeOK
  <2> QED BY <1>1, <2>1
<1>6. StampedByNow'
  BY <1>1, <1>2, <1>4 DEF StampedByNow, TypeOK
<1>7. OnItsKey'
  <2>1. \A w \in Waiter \ {Me} : Taken(w) => Taken(w)'
    BY <1>1, <1>2 DEF Taken
  <2>2. \A w \in Waiter : w = Me => Taken(w)'
    BY <1>1, <1>2 DEF Taken, Me
  <2>3. ASSUME NEW j \in Key, NEW w \in sent'[j] \cup charged'[j]
        PROVE  Taken(w)' /\ slotKey'[w] = j
    <3>1. CASE w = Me
      <4>1. j = k
        BY <3>1, <2>3, <1>3, <1>4, <1>5
      <4> QED BY <3>1, <4>1, <2>2, <1>1, <1>4
    <3>2. CASE w # Me
      <4>1. w \in sent[j] \cup charged[j] /\ w \in Waiter \ {Me}
        BY <3>2, <2>3, <1>3, <1>4, <1>5
      <4> QED BY <4>1, <2>1, <1>4 DEF OnItsKey
    <3> QED BY <3>1, <3>2
  <2> QED BY <2>3 DEF OnItsKey
<1>8. ArrivesInTime'
  <2>1. Arrived' = Arrived /\ Me \notin Arrived /\ Arrived \subseteq Waiter
    BY <1>1, <1>2 DEF Arrived
  <2> QED BY <2>1, <1>2, <1>4 DEF ArrivesInTime
<1>9. Remembered'
  <2> SUFFICES ASSUME NEW j \in Key, NEW w \in charged'[j],
                      clock < slotAt'[w] + Window
               PROVE  w \in sent'[j]
    BY <1>2 DEF Remembered
  <2>1. CASE w = Me
    BY <2>1, <1>3, <1>4, <1>5
  <2>2. CASE w # Me
    <3>1. w \in charged[j] /\ slotAt'[w] = slotAt[w]
      BY <2>2, <1>4, <1>5
    <3>2. w \in Live(j, clock)
      BY <3>1 DEF Remembered, Live
    <3> QED BY <3>2, <1>3
  <2> QED BY <2>1, <2>2
<1>10. SlotsAccounted'
  BY <1>2, <1>3, <1>4, <1>5 DEF SlotsAccounted
<1>11. GrantQuota'
  <2> SUFFICES ASSUME NEW j \in Key, NEW t \in Nat
               PROVE  Cardinality(InWindowAt(j, t)') <= RpmMax
    BY DEF GrantQuota
  <2>1. CASE j # k \/ t < clock
    <3>1. InWindowAt(j, t)' = InWindowAt(j, t)
      <4>1. CASE j # k
        BY <4>1, <1>4, <1>5 DEF InWindowAt
      <4>2. CASE j = k /\ t < clock
        <5>1. ~(slotAt'[Me] <= t)
          BY <4>2, <1>4 DEF TypeOK
        <5> QED BY <5>1, <4>2, <1>4, <1>5 DEF InWindowAt
      <4> QED BY <2>1, <4>1, <4>2
    <3> QED BY <3>1 DEF GrantQuota
  <2>2. CASE j = k /\ clock <= t
    <3> DEFINE old == InWindowAt(k, clock)
    <3>1. InWindowAt(j, t)' \subseteq old \cup {Me}
      <4> SUFFICES ASSUME NEW w \in InWindowAt(k, t)', w # Me
                   PROVE  w \in old
        BY <2>2
      <4>1. w \in charged[k] /\ w \in Waiter \ {Me} /\ t < slotAt[w] + Window
        BY <1>4, <1>5 DEF InWindowAt
      <4>2. slotAt[w] \in Nat /\ clock \in Nat /\ slotAt[w] <= clock
        BY <4>1 DEF StampedByNow, TypeOK
      <4> QED BY <4>1, <4>2, <2>2, Types DEF InWindowAt
    <3>2. IsFiniteSet(old) /\ Cardinality(old) \in Nat
          /\ Cardinality(old) + 1 <= rpm[k] /\ rpm[k] \in 1..RpmMax
      BY <1>1, OpenHasRoom
    <3>3. Me \notin old
      BY <1>5 DEF InWindowAt
    <3> HIDE DEF old
    <3>4. IsFiniteSet(old \cup {Me}) /\ Cardinality(old \cup {Me}) = Cardinality(old) + 1
      BY <3>2, <3>3, FS_AddElement
    <3>5. /\ IsFiniteSet(InWindowAt(j, t)')
          /\ Cardinality(InWindowAt(j, t)') <= Cardinality(old \cup {Me})
      BY <3>1, <3>4, FS_Subset
    <3>6. Cardinality(InWindowAt(j, t)') \in Nat
      BY <3>5, FS_CardinalityType
    <3> QED BY <3>2, <3>4, <3>5, <3>6
  <2> QED BY <2>1, <2>2 DEF TypeOK
<1> QED BY <1>6, <1>7, <1>8, <1>9, <1>10, <1>11

(* Fewer charged slots: every window keeps its quota.                      *)
LEMMA QuotaShrinks ==
  ASSUME IInv, UNCHANGED slotAt, \A k \in Key : charged'[k] \subseteq charged[k]
  PROVE  GrantQuota'
<1> SUFFICES ASSUME NEW k \in Key, NEW t \in Nat
             PROVE  Cardinality(InWindowAt(k, t)') <= RpmMax
  BY DEF GrantQuota
<1>1. InWindowAt(k, t)' \subseteq InWindowAt(k, t)
  BY DEF InWindowAt
<1>2. IsFiniteSet(InWindowAt(k, t))
  BY WaiterFinite, FS_Subset DEF IInv, TypeOK, InWindowAt
<1>3. /\ IsFiniteSet(InWindowAt(k, t)')
      /\ Cardinality(InWindowAt(k, t)') <= Cardinality(InWindowAt(k, t))
  BY <1>1, <1>2, FS_Subset
<1>4. Cardinality(InWindowAt(k, t)) \in Nat /\ Cardinality(InWindowAt(k, t)') \in Nat
  BY <1>2, <1>3, FS_CardinalityType
<1> QED BY <1>3, <1>4 DEF IInv, GrantQuota

\* Pool::release: taking back the stamp of an undelivered slot forgets no
\* slot that is still charged.
LEMMA ReleaseStep ==
  ASSUME IInv, TypeOK', Release
  PROVE  IInv'
<1> USE DEF IInv
<1>1. /\ phase = "send" /\ st[Me] = "gone" /\ Me \in Waiter /\ phase' = "idle"
      /\ UNCHANGED <<clock, gen, st, slotKey, slotAt, slotGen, arrived>>
  BY DEF Release, WithoutSlot, slot, TypeOK, Me, Job
<1>2. \A j \in Key :
        /\ charged'[j] = IF j = slotKey[Me] THEN charged[j] \ {Me} ELSE charged[j]
        /\ sent'[j] = IF j = slotKey[Me] /\ slotGen[Me] = gen
                      THEN sent[j] \ {Me} ELSE sent[j]
  BY DEF Release, WithoutSlot, TypeOK
<1>3. StampedByNow' /\ ArrivesInTime'
  BY <1>1 DEF StampedByNow, ArrivesInTime, Arrived
<1>4. OnItsKey'
  <2>1. \A w \in Waiter : Taken(w) => Taken(w)'
    BY <1>1 DEF Taken, Me
  <2>2. \A j \in Key : /\ sent'[j] \cup charged'[j] \subseteq sent[j] \cup charged[j]
                      /\ sent[j] \cup charged[j] \subseteq Waiter
    BY <1>2, ZenonT(30) DEF TypeOK
  <2> QED BY <2>1, <2>2, <1>1 DEF OnItsKey
<1>5. Remembered'
  BY <1>1, <1>2 DEF Remembered
<1>6. SlotsAccounted'
  <2> SUFFICES ASSUME NEW j \in Key, NEW w \in sent'[j]
               PROVE  w \in charged'[j] \/ slotGen[w] < gen
    BY <1>1 DEF SlotsAccounted
  <2>1. w \in sent[j] /\ w \in Waiter
    BY <1>2 DEF TypeOK
  <2>2. slotKey[w] = j /\ (w \in charged[j] \/ slotGen[w] < gen)
    BY <2>1 DEF OnItsKey, SlotsAccounted
  <2>3. slotGen[w] <= gen /\ slotGen[w] \in Nat /\ gen \in Nat
    BY <2>1 DEF StampedByNow, TypeOK
  <2>4. CASE w = Me
    <3>1. j = slotKey[Me]
      BY <2>4, <2>2
    <3>2. slotGen[Me] # gen
      BY <2>4, <3>1, <1>2
    <3>3. slotGen[w] # gen
      BY <2>4, <3>2
    <3> QED BY <3>3, <2>3
  <2>5. CASE w # Me
    BY <2>5, <2>2, <1>2
  <2> QED BY <2>4, <2>5
<1>7. GrantQuota'
  BY <1>1, <1>2, QuotaShrinks
<1> QED BY <1>3, <1>4, <1>5, <1>6, <1>7

\* Pool::rebuild: kept keys carry their stamps, forgotten keys their charges.
LEMMA SettingsStep ==
  ASSUME IInv, TypeOK', Settings
  PROVE  IInv'
<1> USE DEF IInv
<1>1. PICK o \in Seq(Key), e \in SUBSET Key, r \in [Key -> 1..RpmMax] :
        Rebuild(o, e, r)
  BY SettingsRebuild
<1>2. /\ UNCHANGED <<clock, phase, serving, st, slotKey, slotAt, slotGen, arrived>>
      /\ gen' = gen + 1
  BY <1>1 DEF Rebuild, Kept, task, slot
<1>3. \A k \in Key : \/ sent'[k] = sent[k] /\ charged'[k] = charged[k]
                     \/ sent'[k] = {} /\ charged'[k] = {}
  BY <1>1 DEF Rebuild, Kept
<1>4. StampedByNow' /\ ArrivesInTime'
  BY <1>2 DEF StampedByNow, ArrivesInTime, Arrived, TypeOK
<1>5. OnItsKey'
  BY <1>2, <1>3 DEF OnItsKey, Taken
<1>6. Remembered'
  BY <1>2, <1>3 DEF Remembered
<1>7. SlotsAccounted'
  <2>1. \A w \in Waiter : slotGen'[w] < gen'
    BY <1>2 DEF StampedByNow, TypeOK
  <2>2. \A k \in Key : sent'[k] \subseteq Waiter
    BY <1>3 DEF TypeOK
  <2> QED BY <2>1, <2>2 DEF SlotsAccounted
<1>8. GrantQuota'
  BY <1>2, <1>3, QuotaShrinks
<1> QED BY <1>4, <1>5, <1>6, <1>7, <1>8

\* Time only takes stamps out of windows.
LEMMA TickStep ==
  ASSUME IInv, TypeOK', Tick
  PROVE  IInv'
<1> USE DEF IInv
<1>1. /\ UNCHANGED <<phase, serving, st, slotKey, slotAt, slotGen, arrived, sent,
                     charged, gen>>
      /\ clock' = clock + 1
  BY DEF Tick, pool, task, slot
<1>2. StampedByNow' /\ ArrivesInTime' /\ OnItsKey' /\ SlotsAccounted'
  BY <1>1 DEF StampedByNow, ArrivesInTime, Arrived, OnItsKey, Taken, SlotsAccounted,
              TypeOK
<1>3. Remembered'
  <2> SUFFICES ASSUME NEW k \in Key, NEW w \in charged[k],
                      clock + 1 < slotAt[w] + Window
               PROVE  w \in sent[k]
    BY <1>1 DEF Remembered
  <2>1. w \in Waiter /\ slotAt[w] \in Nat /\ clock \in Nat
    BY DEF TypeOK
  <2>2. clock < slotAt[w] + Window
    BY <2>1, Types
  <2> QED BY <2>2 DEF Remembered
<1>4. GrantQuota'
  BY <1>1 DEF GrantQuota, InWindowAt
<1> QED BY <1>2, <1>3, <1>4

\* The invariant is inductive: one case per action.
LEMMA NextInv == IInv /\ [Next]_vars => IInv'
<1> SUFFICES ASSUME IInv, [Next]_vars PROVE IInv'
  OBVIOUS
<1>0. TypeOK' /\ TypeOK
  BY NextType DEF IInv
<1>1. CASE Recv
  BY <1>0, <1>1, QuietStep DEF Recv, pool, slot, Taken, Arrived
<1>2. CASE HeadClosed
  BY <1>0, <1>2, QuietStep DEF HeadClosed, pool, slot, Taken, Arrived
<1>3. CASE Expire
  <2>1. Me \in Waiter
    BY <1>0, <1>3 DEF Expire, TypeOK, Me, Job
  <2>2. \A w \in Waiter : Taken(w) => Taken(w)'
    BY <2>1, <1>0, <1>3 DEF Expire, Taken, TypeOK
  <2>3. Arrived' = Arrived
    BY <2>1, <1>0, <1>3 DEF Expire, Arrived, TypeOK
  <2> QED BY <1>0, <1>3, <2>2, <2>3, PruneStep DEF Expire, slot
<1>4. CASE Deliver
  <2>1. Me \in Waiter
    BY <1>0, <1>4 DEF Deliver, TypeOK, Me, Job
  <2>2. \A w \in Waiter : Taken(w) => Taken(w)'
    BY <2>1, <1>0, <1>4 DEF Deliver, Taken, TypeOK, Me
  <2>3. Arrived' = Arrived
    BY <2>1, <1>0, <1>4 DEF Deliver, Arrived, TypeOK
  <2> QED BY <1>0, <1>4, <2>2, <2>3, QuietStep DEF Deliver, pool, slot
<1>5. CASE Release
  BY <1>0, <1>5, ReleaseStep
<1>6. CASE Wake
  <2>1. \A w \in Waiter : Taken(w) => Taken(w)'
    BY <1>6 DEF Wake, Taken
  <2> QED BY <1>0, <1>6, <2>1, QuietStep DEF Wake, pool, slot, Arrived
<1>7. ASSUME NEW k \in Key, Reserve(k) PROVE IInv'
  BY <1>0, <1>7, ReserveStep
<1>8. ASSUME NEW d \in 1..Window, Sleep(d) PROVE IInv'
  <2>1. \A w \in Waiter : Taken(w) => Taken(w)'
    BY <1>8 DEF Sleep, Taken
  <2> QED BY <1>0, <1>8, <2>1, PruneStep DEF Sleep, slot, Arrived
<1>9. ASSUME NEW w \in Waiter, NEW d \in Deadlines, NEW p \in Prefers,
             Acquire(w, d, p)
      PROVE  IInv'
  <2>1. \A v \in Waiter : Taken(v) => Taken(v)'
    BY <1>0, <1>9 DEF Acquire, Taken, TypeOK
  <2>2. Arrived' = Arrived
    BY <1>0, <1>9 DEF Acquire, Arrived, TypeOK
  <2> QED BY <1>0, <1>9, <2>1, <2>2, QuietStep DEF Acquire, pool, slot
<1>10. ASSUME NEW w \in Waiter, Abandon(w) PROVE IInv'
  <2>1. \A v \in Waiter : Taken(v) => Taken(v)'
    BY <1>0, <1>10 DEF Abandon, Taken, TypeOK, task
  <2>2. Arrived' = Arrived
    BY <1>0, <1>10 DEF Abandon, Arrived, TypeOK
  <2> QED BY <1>0, <1>10, <2>1, <2>2, QuietStep DEF Abandon, pool, slot
<1>11. ASSUME NEW w \in Waiter, Arrive(w) PROVE IInv'
  <2>1. \A v \in Waiter : Taken(v) => Taken(v)'
    BY <1>0, <1>11 DEF Arrive, Taken, TypeOK, task
  <2>2. \A v \in Arrived' : \/ v \in Arrived /\ arrived'[v] = arrived[v]
                            \/ arrived'[v] = clock /\ clock <= slotAt[v] + Jitter
    BY <1>0, <1>11 DEF Arrive, Arrived, TypeOK
  <2> QED BY <1>0, <1>11, <2>1, <2>2, QuietStep DEF Arrive, pool
<1>12. ASSUME NEW w \in Waiter, NEW b \in Backoffs,
              ConnectFails(w, b) \/ Rejected(w, b)
       PROVE  IInv'
  <2>1. \A v \in Waiter : Taken(v) => Taken(v)'
    BY <1>0, <1>12 DEF ConnectFails, Rejected, Taken, TypeOK, task
  <2>2. Arrived' = Arrived /\ UNCHANGED arrived
    BY <1>0, <1>12 DEF ConnectFails, Rejected, Arrived, TypeOK, slot
  <2> QED BY <1>0, <1>12, <2>1, <2>2, QuietStep
             DEF ConnectFails, Rejected, slot
<1>13. CASE Settings
  BY <1>0, <1>13, SettingsStep
<1>14. CASE Tick
  BY <1>0, <1>14, TickStep
<1>15. CASE UNCHANGED vars
  BY <1>0, <1>15, QuietStep DEF vars, pool, task, slot, Taken, Arrived
<1> QED
  BY <1>1, <1>2, <1>3, <1>4, <1>5, <1>6, <1>7, <1>8, <1>9, <1>10, <1>11,
     <1>12, <1>13, <1>14, <1>15 DEF Next, Dispatcher, Caller

\* Hence it holds always.
LEMMA Invariance == Spec => []IInv
<1>1. QED BY InitInv, NextInv, PTL DEF Spec

-----------------------------------------------------------------------------
(* The theorems.                                                           *)

(* In no rolling window of the upstream do more than the largest budget's  *)
(* worth of a key's requests arrive, although delivery is delayed by up to *)
(* the second that pads WINDOW, and whatever commits replace the pool.     *)
THEOREM QuotaTheorem == Spec => []UpstreamQuota
<1>1. IInv => UpstreamQuota
  <2> SUFFICES ASSUME IInv, NEW k \in Key, NEW v \in charged[k] \cap Arrived
      PROVE Cardinality({w \in charged[k] \cap Arrived :
                           /\ arrived[w] <= arrived[v]
                           /\ arrived[v] < arrived[w] + UpstreamWindow}) <= RpmMax
    BY DEF UpstreamQuota
  <2> DEFINE seen == {w \in charged[k] \cap Arrived :
                        /\ arrived[w] <= arrived[v]
                        /\ arrived[v] < arrived[w] + UpstreamWindow}
             t == arrived[v]
  <2>1. t \in Nat
    BY DEF IInv, TypeOK, Arrived
  <2>2. seen \subseteq InWindowAt(k, t)
    <3> SUFFICES ASSUME NEW w \in seen PROVE w \in InWindowAt(k, t)
      OBVIOUS
    <3>1. /\ w \in charged[k] /\ w \in Arrived /\ w \in Waiter
          /\ arrived[w] <= t /\ t < arrived[w] + UpstreamWindow
      BY DEF Arrived
    <3>2. slotAt[w] <= arrived[w] /\ arrived[w] <= slotAt[w] + Jitter
      BY <3>1 DEF IInv, ArrivesInTime
    <3>3. slotAt[w] \in Nat /\ arrived[w] \in Nat
      BY <3>1 DEF IInv, TypeOK
    <3> QED BY <2>1, <3>1, <3>2, <3>3, Types DEF InWindowAt
  <2>3. IsFiniteSet(InWindowAt(k, t))
    BY WaiterFinite, FS_Subset DEF IInv, TypeOK, InWindowAt
  <2>4. Cardinality(InWindowAt(k, t)) <= RpmMax
    BY <2>1 DEF IInv, GrantQuota
  <2> HIDE DEF seen, t
  <2>5. IsFiniteSet(seen) /\ Cardinality(seen) <= Cardinality(InWindowAt(k, t))
    BY <2>2, <2>3, FS_Subset
  <2>6. Cardinality(seen) \in Nat /\ Cardinality(InWindowAt(k, t)) \in Nat
    BY <2>3, <2>5, FS_CardinalityType
  <2>7. Cardinality(seen) <= RpmMax
    BY <2>4, <2>5, <2>6
  <2> QED BY <2>7 DEF seen, t
<1> QED BY <1>1, Invariance, PTL

(* No capacity is lost to a hang-up unless a commit came in between.       *)
THEOREM AccountedTheorem == Spec => []SlotsAccounted
<1>1. IInv => SlotsAccounted
  BY DEF IInv
<1> QED BY <1>1, Invariance, PTL

(* Only the dispatcher's reservation takes a slot.                         *)
LEMMA OnlyReserveCharges ==
  ASSUME TypeOK, [Next]_vars, NEW k \in Key, ~(charged'[k] \subseteq charged[k])
  PROVE  Reserve(k)
<1>1. CASE Recv \/ HeadClosed \/ Expire \/ Deliver \/ Wake \/ Tick \/ UNCHANGED vars
  BY <1>1 DEF Recv, HeadClosed, Expire, Deliver, Wake, Tick, vars
<1>2. CASE Release
  BY <1>2 DEF Release, WithoutSlot, TypeOK
<1>3. ASSUME NEW j \in Key, Reserve(j) PROVE Reserve(k)
  BY <1>3 DEF Reserve, TypeOK
<1>4. CASE (\E d \in 1..Window : Sleep(d)) \/ Caller
  BY <1>4 DEF Sleep, Caller, Acquire, Abandon, Arrive, ConnectFails, Rejected
<1>5. CASE Settings
  <2>1. PICK o \in Seq(Key), e \in SUBSET Key, r \in [Key -> 1..RpmMax] :
          Rebuild(o, e, r)
    BY <1>5, SettingsRebuild
  <2> QED BY <2>1 DEF Rebuild, Kept
<1> QED BY <1>1, <1>2, <1>3, <1>4, <1>5 DEF Next, Dispatcher

(* A grant fits the budget the key has at that moment.                     *)
LEMMA ReserveFits ==
  ASSUME IInv, NEW k \in Key, Reserve(k)
  PROVE  Cardinality({w \in charged'[k] : clock < slotAt'[w] + Window}) <= rpm[k]
<1> DEFINE now == {w \in charged'[k] : clock < slotAt'[w] + Window}
           old == InWindowAt(k, clock)
<1>1. Me \in Waiter /\ Me \notin charged[k] /\ Open(k)
  BY PolledIsFresh DEF Reserve, Chosen, ReadyLanes
<1>2. charged'[k] = charged[k] \cup {Me} /\ charged[k] \subseteq Waiter
      /\ \A w \in Waiter \ {Me} : slotAt'[w] = slotAt[w]
  BY <1>1 DEF Reserve, IInv, TypeOK
<1>3. now \subseteq old \cup {Me}
  <2> SUFFICES ASSUME NEW w \in now, w # Me PROVE w \in old
    OBVIOUS
  <2>1. w \in charged[k] /\ w \in Waiter /\ clock < slotAt[w] + Window
    BY <1>2
  <2> QED BY <2>1 DEF IInv, StampedByNow, InWindowAt
<1>4. /\ IsFiniteSet(old) /\ Cardinality(old) \in Nat
      /\ Cardinality(old) + 1 <= rpm[k] /\ rpm[k] \in 1..RpmMax
  BY <1>1, OpenHasRoom
<1>5. Me \notin old
  BY <1>1 DEF InWindowAt
<1> HIDE DEF now, old
<1>6. IsFiniteSet(old \cup {Me}) /\ Cardinality(old \cup {Me}) = Cardinality(old) + 1
  BY <1>4, <1>5, FS_AddElement
<1>7. IsFiniteSet(now) /\ Cardinality(now) <= Cardinality(old \cup {Me})
  BY <1>3, <1>6, FS_Subset
<1>8. Cardinality(now) \in Nat
  BY <1>7, FS_CardinalityType
<1>9. Cardinality(now) <= rpm[k]
  BY <1>4, <1>6, <1>7, <1>8
<1> QED BY <1>9 DEF now

(* No grant exceeds the budget its key has at that moment, over every      *)
(* sequence of commits that disable, re-enable or re-budget the key, and   *)
(* every hang-up and returned slot.                                        *)
THEOREM BudgetTheorem == Spec => GrantWithinBudget
<1>1. ASSUME IInv, [Next]_vars
      PROVE  [\A k \in Key :
                ~(charged'[k] \subseteq charged[k])
                  => Cardinality({w \in charged'[k] : clock < slotAt'[w] + Window})
                       <= rpm[k]]_vars
  BY <1>1, OnlyReserveCharges, ReserveFits DEF IInv
<1> QED BY <1>1, Invariance, PTL DEF Spec, GrantWithinBudget

(* A commit keeps the rest of a key it keeps, and nothing else shortens it. *)
THEOREM CooldownTheorem == Spec => CooldownKept
<1>1. ASSUME TypeOK, [Next]_vars
      PROVE  [\A k \in Elements(order) :
                k \in Elements(order') => cooldown'[k] >= cooldown[k]]_vars
  <2> SUFFICES ASSUME Next, NEW k \in Elements(order), k \in Elements(order')
               PROVE  cooldown'[k] >= cooldown[k]
    BY <1>1
  <2>1. k \in Key /\ cooldown[k] \in Nat /\ clock \in Nat
    <3>1. \A i \in DOMAIN order : order[i] \in Key
      BY <1>1 DEF TypeOK
    <3> QED BY <3>1, <1>1 DEF Elements, TypeOK
  <2>2. CASE Dispatcher \/ Tick
    BY <2>1, <2>2 DEF Dispatcher, Recv, HeadClosed, Expire, Deliver, Release, WithoutSlot, Wake,
                      Reserve, Sleep, Tick, pool
  <2>3. CASE Caller
    <3>1. ASSUME NEW w \in Waiter, NEW b \in Backoffs, Penalize(w, b)
          PROVE  cooldown'[k] >= cooldown[k]
      BY <2>1, <3>1, <1>1 DEF Penalize, TypeOK
    <3>2. ASSUME NEW w \in Waiter, NEW b \in Backoffs, ConnectFails(w, b) \/ Rejected(w, b)
          PROVE  cooldown'[k] >= cooldown[k]
      BY <3>1, <3>2 DEF ConnectFails, Rejected
    <3>3. CASE UNCHANGED cooldown
      BY <3>3, <2>1
    <3> QED BY <2>3, <3>2, <3>3 DEF Caller, Acquire, Abandon, Arrive, pool
  <2>4. CASE Settings
    <3>1. PICK o \in Seq(Key), e \in SUBSET Key, r \in [Key -> 1..RpmMax] :
            Rebuild(o, e, r)
      BY <1>1, <2>4, SettingsRebuild
    <3>2. cooldown'[k] = cooldown[k]
      BY <2>1, <3>1 DEF Rebuild, Kept
    <3> QED BY <2>1, <3>2
  <2> QED BY <2>2, <2>3, <2>4 DEF Next
<1> QED BY <1>1, TypeCorrect, PTL DEF Spec, CooldownKept

-----------------------------------------------------------------------------
(* Arrival order.  The queue is sorted by arrival and holds whoever waits and   *)
(* is not being served; who is being served came before it, and who has not     *)
(* called comes after it.                                                   *)
Busy == phase \in {"poll", "sleep", "send"}
Queued(w) == \E i \in 1..Len(queue) : queue[i].id = w

CallsInOrder == \A w \in Waiter : st[w] = "new" => \A v \in Waiter : w < v => st[v] = "new"
QueueSorted ==
  /\ \A i, j \in 1..Len(queue) : i < j => queue[i].id < queue[j].id
  /\ Busy => \A i \in 1..Len(queue) : serving.id < queue[i].id
NoneNew ==
  /\ \A i \in 1..Len(queue) : st[queue[i].id] # "new"
  /\ Busy => st[serving.id] # "new"
NobodyLost == \A w \in Waiter : st[w] = "queued" => Queued(w) \/ (Busy /\ serving.id = w)

FifoInv ==
  TypeOK /\ CallsInOrder /\ QueueSorted /\ NoneNew /\ NobodyLost /\ InArrivalOrder

(* One caller's state changes, and not back to new or queued; the task's do not.   *)
LEMMA FifoLeaves ==
  ASSUME FifoInv, TypeOK', NEW w \in Waiter, NEW s \in States \ {"new", "queued"},
         st[w] # "new", st' = [st EXCEPT ![w] = s],
         s = "delivered" => \A v \in 1..(w - 1) : st[v] # "queued",
         queue' = queue,
         Busy' => Busy /\ serving' = serving,
         Busy /\ ~Busy' => serving.id = w
  PROVE  FifoInv'
<1>1. st'[w] = s /\ \A v \in Waiter : v # w => st'[v] = st[v]
  BY DEF FifoInv, TypeOK
<1>2. CallsInOrder'
  BY <1>1 DEF FifoInv, CallsInOrder
<1>3. QueueSorted'
  BY DEF FifoInv, QueueSorted
<1>4. \A j \in Job : j.id \in Waiter
  BY DEF Job
<1>5. \A i \in 1..Len(queue) : queue[i] \in Job
  BY DEF FifoInv, TypeOK
<1>6. Busy => serving \in Job
  BY DEF FifoInv, TypeOK, Busy
<1>7. NoneNew'
  BY <1>1, <1>4, <1>5, <1>6 DEF FifoInv, NoneNew
<1>8. NobodyLost'
  BY <1>1 DEF FifoInv, NobodyLost, Queued
<1>9. InArrivalOrder'
  <2>1. \A v \in Waiter : 1..(v - 1) \subseteq Waiter
    BY DEF Waiter
  <2> QED BY <1>1, <2>1 DEF FifoInv, InArrivalOrder
<1> QED BY <1>2, <1>3, <1>7, <1>8, <1>9 DEF FifoInv

(* Nobody's state and place in the queue changes.                            *)
LEMMA FifoStays ==
  ASSUME FifoInv, TypeOK', UNCHANGED <<st, queue>>,
         Busy' => Busy /\ serving' = serving,
         Busy /\ ~Busy' => st[serving.id] # "queued"
  PROVE  FifoInv'
<1>1. CallsInOrder' /\ QueueSorted' /\ NoneNew' /\ InArrivalOrder'
  BY DEF FifoInv, CallsInOrder, QueueSorted, NoneNew, InArrivalOrder
<1>2. NobodyLost'
  BY DEF FifoInv, NobodyLost, Queued
<1> QED BY <1>1, <1>2 DEF FifoInv

(* The task takes the head of the queue.                                    *)
LEMMA FifoRecv == ASSUME FifoInv, TypeOK', Recv PROVE FifoInv'
<1>1. /\ phase = "idle" /\ queue # <<>> /\ serving' = Head(queue) /\ queue' = Tail(queue)
      /\ phase' = "poll" /\ st' = st
  BY DEF Recv
<1>2. /\ queue \in Seq(Job) /\ Len(queue) \in Nat \ {0} /\ serving' = queue[1]
      /\ Len(queue') = Len(queue) - 1
      /\ \A i \in 1..Len(queue') : queue'[i] = queue[i + 1] /\ i + 1 \in 1..Len(queue)
  BY <1>1 DEF FifoInv, TypeOK
<1>3. CallsInOrder' /\ InArrivalOrder'
  BY <1>1 DEF FifoInv, CallsInOrder, InArrivalOrder
<1>4. QueueSorted'
  <2>1. ASSUME NEW i \in 1..Len(queue'), NEW j \in 1..Len(queue'), i < j
        PROVE  queue'[i].id < queue'[j].id
    <3>1. i + 1 \in 1..Len(queue) /\ j + 1 \in 1..Len(queue) /\ i + 1 < j + 1
      BY <1>2, <2>1
    <3>2. queue[i + 1].id < queue[j + 1].id
      BY <3>1 DEF FifoInv, QueueSorted
    <3> QED BY <1>2, <3>2
  <2>2. ASSUME NEW i \in 1..Len(queue') PROVE serving'.id < queue'[i].id
    <3>1. 1 \in 1..Len(queue) /\ i + 1 \in 1..Len(queue) /\ 1 < i + 1
      BY <1>2
    <3> QED BY <1>2, <3>1 DEF FifoInv, QueueSorted
  <2> QED BY <2>1, <2>2 DEF QueueSorted
<1>5. NoneNew'
  BY <1>1, <1>2 DEF FifoInv, NoneNew
<1>6. NobodyLost'
  <2> SUFFICES ASSUME NEW w \in Waiter, st[w] = "queued"
               PROVE  Queued(w)' \/ serving'.id = w
    BY <1>1 DEF NobodyLost, Busy
  <2>1. PICK i \in 1..Len(queue) : queue[i].id = w
    BY <1>1 DEF FifoInv, NobodyLost, Queued, Busy
  <2>2. CASE i = 1
    BY <1>2, <2>1, <2>2
  <2>3. CASE i # 1
    <3>1. i - 1 \in 1..Len(queue') /\ queue'[i - 1].id = w
      BY <1>2, <2>1, <2>3
    <3> QED BY <3>1 DEF Queued
  <2> QED BY <2>2, <2>3
<1> QED BY <1>3, <1>4, <1>5, <1>6 DEF FifoInv

(* A caller joins at the end.                                               *)
LEMMA FifoAcquire ==
  ASSUME FifoInv, TypeOK', NEW w \in Waiter, NEW d \in Deadlines, NEW p \in Prefers,
         Acquire(w, d, p)
  PROVE  FifoInv'
<1> DEFINE job == [id |-> w, deadline |-> d, prefer |-> p]
           n == Len(queue) + 1
<1>1. /\ st[w] = "new" /\ \A v \in 1..(w - 1) : st[v] # "new"
      /\ st' = [st EXCEPT ![w] = "queued"] /\ queue' = Append(queue, job)
      /\ UNCHANGED <<serving, phase>>
  BY DEF Acquire
<1>2. job.id = w
  OBVIOUS
<1> HIDE DEF job
<1>3. /\ Len(queue') = n /\ queue'[n] = job
      /\ \A i \in 1..Len(queue) : queue'[i] = queue[i] /\ queue[i] \in Job
      /\ 1..Len(queue') = 1..Len(queue) \cup {n}
      /\ \A i \in 1..Len(queue) : i < n /\ ~(n < i) /\ i # n
      /\ ~(n < n)
  <2>1. queue \in Seq(Job) /\ Len(queue) \in Nat
    BY DEF FifoInv, TypeOK
  <2>2. Len(queue') = n
    BY <1>1, <2>1
  <2>3. queue'[n] = job
    BY <1>1, <2>1
  <2>4. \A i \in 1..Len(queue) : queue'[i] = queue[i] /\ queue[i] \in Job
    BY <1>1, <2>1
  <2>5. /\ 1..n = 1..Len(queue) \cup {n} /\ ~(n < n)
        /\ \A i \in 1..Len(queue) : i < n /\ ~(n < i) /\ i # n
    BY <2>1
  <2> QED BY <2>2, <2>3, <2>4, <2>5
<1> HIDE DEF n
<1>4. /\ st'[w] = "queued" /\ \A v \in Waiter : v # w => st'[v] = st[v]
      /\ \A j \in Job : j.id \in Waiter
      /\ Busy => serving \in Job
      /\ \A v \in Waiter : v \in Nat /\ 1..(v - 1) \subseteq Waiter
  <2>1. st'[w] = "queued" /\ \A v \in Waiter : v # w => st'[v] = st[v]
    BY <1>1 DEF FifoInv, TypeOK
  <2>2. Busy => serving \in Job
    BY DEF FifoInv, TypeOK, Busy
  <2>3. \A j \in Job : j.id \in Waiter
    BY DEF Job
  <2>4. \A v \in Waiter : v \in Nat /\ 1..(v - 1) \subseteq Waiter
    BY DEF Waiter
  <2> QED BY <2>1, <2>2, <2>3, <2>4
<1>5. \A v \in Waiter : st[v] # "new" => v < w
  <2> SUFFICES ASSUME NEW v \in Waiter, st[v] # "new", ~(v < w) PROVE FALSE
    OBVIOUS
  <2>1. w < v
    BY <1>1, <1>4
  <2> QED BY <1>1, <2>1 DEF FifoInv, CallsInOrder
<1>6. CallsInOrder'
  <2> SUFFICES ASSUME NEW x \in Waiter, st'[x] = "new", NEW y \in Waiter, x < y
               PROVE  st'[y] = "new"
    BY DEF CallsInOrder
  <2>1. x # w /\ st[x] = "new"
    BY <1>4
  <2>2. y # w
    <3> SUFFICES ASSUME y = w PROVE FALSE
      OBVIOUS
    <3>1. x \in 1..(w - 1)
      BY DEF Waiter
    <3> QED BY <1>1, <2>1, <3>1
  <2> QED BY <1>4, <2>1, <2>2 DEF FifoInv, CallsInOrder
<1>7. \A i \in 1..Len(queue) : queue[i].id < w
  BY <1>3, <1>4, <1>5 DEF FifoInv, NoneNew
<1>8. Busy => serving.id < w
  BY <1>4, <1>5 DEF FifoInv, NoneNew, Busy, TypeOK
<1>9. QueueSorted'
  <2>1. \A i, j \in 1..Len(queue') : i < j => queue'[i].id < queue'[j].id
    BY <1>2, <1>3, <1>7 DEF FifoInv, QueueSorted
  <2>2. Busy' => \A i \in 1..Len(queue') : serving'.id < queue'[i].id
    BY <1>1, <1>2, <1>3, <1>8 DEF FifoInv, QueueSorted, Busy
  <2> QED BY <2>1, <2>2 DEF QueueSorted
<1>10. NoneNew'
  <2>1. \A i \in 1..Len(queue') : st'[queue'[i].id] # "new"
    BY <1>2, <1>3, <1>4, SMTT(30) DEF FifoInv, NoneNew
  <2>2. Busy' => st'[serving'.id] # "new"
    BY <1>1, <1>4 DEF FifoInv, TypeOK, NoneNew, Busy
  <2> QED BY <2>1, <2>2 DEF NoneNew
<1>11. NobodyLost'
  <2>1. Queued(w)'
    BY <1>2, <1>3 DEF Queued
  <2>2. \A v \in Waiter : Queued(v) => Queued(v)'
    BY <1>3 DEF Queued
  <2>3. Busy' <=> Busy
    BY <1>1 DEF Busy
  <2> QED BY <1>1, <1>4, <2>1, <2>2, <2>3 DEF FifoInv, NobodyLost
<1>12. InArrivalOrder'
  <2> SUFFICES ASSUME NEW x \in Waiter, st'[x] = "delivered", NEW v \in 1..(x - 1)
               PROVE  st'[v] # "queued"
    BY DEF InArrivalOrder
  <2>1. x # w /\ st[x] = "delivered" /\ v \in Waiter /\ v < x
    BY <1>4
  <2>2. x < w
    BY <1>5, <2>1
  <2> QED BY <1>4, <2>1, <2>2 DEF FifoInv, InArrivalOrder
<1> QED BY <1>6, <1>9, <1>10, <1>11, <1>12 DEF FifoInv

(* Slots go out in arrival order (dispatch.rs: one queue, one task): when a      *)
(* request is granted nobody who came before it is still waiting.              *)
THEOREM ArrivalTheorem == Spec => []InArrivalOrder
<1>1. Init => FifoInv
  <2> SUFFICES ASSUME Init PROVE FifoInv
    OBVIOUS
  <2>1. TypeOK
    BY InitType
  <2>2. queue = <<>> /\ ~Busy /\ Len(queue) = 0 /\ \A w \in Waiter : st[w] = "new"
    BY DEF Init, Busy
  <2> QED BY <2>1, <2>2 DEF FifoInv, CallsInOrder, QueueSorted, NoneNew, NobodyLost,
                            InArrivalOrder
<1>2. FifoInv /\ [Next]_vars => FifoInv'
  <2> SUFFICES ASSUME FifoInv, [Next]_vars PROVE FifoInv'
    OBVIOUS
  <2>1. TypeOK /\ TypeOK'
    BY NextType DEF FifoInv
  <2>2. Busy => serving \in Job /\ Me \in Waiter
    BY <2>1 DEF TypeOK, Busy, Me, Job
  <2>3. CASE Recv
    BY <2>1, <2>3, FifoRecv
  <2>4. CASE HeadClosed \/ Release
    BY <2>1, <2>4, FifoStays DEF HeadClosed, Release, Busy, Me
  <2>5. CASE Expire
    <3>1. "failed" \in States \ {"new", "queued"}
      BY DEF States
    <3> QED BY <2>1, <2>2, <2>5, <3>1, FifoLeaves DEF Expire, Busy, Me
  <2>6. CASE Deliver
    <3>1. "delivered" \in States \ {"new", "queued"}
      BY DEF States
    <3>2. Busy /\ Me = serving.id
      BY <2>6 DEF Deliver, Busy, Me
    <3>3. \A v \in 1..(Me - 1) : st[v] # "queued"
      <4> SUFFICES ASSUME NEW v \in 1..(Me - 1), st[v] = "queued" PROVE FALSE
        OBVIOUS
      <4>1. v \in Waiter /\ v < Me
        BY <2>2, <3>2 DEF Waiter
      <4>2. PICK i \in 1..Len(queue) : queue[i].id = v
        BY <3>2, <4>1 DEF FifoInv, NobodyLost, Queued
      <4>3. Me < v
        BY <3>2, <4>2 DEF FifoInv, QueueSorted
      <4> QED BY <2>2, <3>2, <4>1, <4>3 DEF Waiter
    <3> QED BY <2>1, <2>2, <2>6, <3>1, <3>2, <3>3, FifoLeaves DEF Deliver, Busy
  <2>7. CASE Wake
    BY <2>1, <2>7, FifoStays DEF Wake, Busy
  <2>8. ASSUME NEW k \in Key, Reserve(k) PROVE FifoInv'
    BY <2>1, <2>8, FifoStays DEF Reserve, Busy
  <2>9. ASSUME NEW d \in 1..Window, Sleep(d) PROVE FifoInv'
    BY <2>1, <2>9, FifoStays DEF Sleep, Busy
  <2>10. ASSUME NEW w \in Waiter, NEW d \in Deadlines, NEW p \in Prefers, Acquire(w, d, p)
         PROVE  FifoInv'
    BY <2>1, <2>10, FifoAcquire
  <2>11. ASSUME NEW w \in Waiter, NEW s \in {"gone", "sent", "unsent", "done"},
                st[w] # "new", st' = [st EXCEPT ![w] = s], UNCHANGED task
         PROVE  FifoInv'
    <3>1. s \in States \ {"new", "queued"} /\ s # "delivered"
      BY <2>11 DEF States
    <3> QED BY <2>1, <2>11, <3>1, FifoLeaves DEF task, Busy
  <2>12. CASE Settings
    <3>1. PICK o \in Seq(Key), e \in SUBSET Key, r \in [Key -> 1..RpmMax] :
            Rebuild(o, e, r)
      BY <2>1, <2>12, SettingsRebuild
    <3> QED BY <2>1, <3>1, FifoStays DEF Rebuild, task, Busy
  <2>13. CASE Tick \/ UNCHANGED vars
    BY <2>1, <2>13, FifoStays DEF Tick, vars, task, Busy
  <2>14. CASE Dispatcher
    BY <2>3, <2>4, <2>5, <2>6, <2>7, <2>8, <2>9, <2>14 DEF Dispatcher
  <2>15. ASSUME NEW w \in Waiter,
                \/ Abandon(w) \/ Arrive(w)
                \/ \E b \in Backoffs : ConnectFails(w, b) \/ Rejected(w, b)
         PROVE  FifoInv'
    BY <2>11, <2>15 DEF Abandon, Arrive, ConnectFails, Rejected
  <2> QED BY <2>10, <2>12, <2>13, <2>14, <2>15 DEF Next, Caller
<1>3. FifoInv => InArrivalOrder
  BY DEF FifoInv
<1> QED BY <1>1, <1>2, <1>3, PTL DEF Spec

-----------------------------------------------------------------------------
(* The wait that reserve reports.                                           *)

(* A nonempty set of instants has a first one.                               *)
LEMMA Least ==
  ASSUME NEW T \in SUBSET Nat, T # {}
  PROVE  \E x \in T : \A y \in T : x <= y
<1> DEFINE R == OpToRel(<, Nat)
<1>1. IsWellFoundedOn(R, Nat)
  BY NatLessThanWellFounded
<1>2. \A x, y \in Nat : <<y, x>> \in R <=> y < x
  BY DEF OpToRel
<1> HIDE DEF R
<1>3. PICK x \in T : \A y \in T : ~(<<y, x>> \in R)
  BY <1>1, WFMin
<1>4. \A y \in T : ~(y < x) /\ y \in Nat /\ x \in Nat
  BY <1>2, <1>3
<1>5. \A y \in T : x <= y
  BY <1>4
<1> QED BY <1>5

(* The stamps of a lane inside the window, and parts of them, can be counted.  *)
LEMMA LiveFinite ==
  ASSUME IInv, NEW k \in Key, NEW S \in SUBSET Live(k, clock)
  PROVE  /\ IsFiniteSet(Live(k, clock)) /\ Load(k) \in Nat
         /\ IsFiniteSet(S) /\ Cardinality(S) \in Nat /\ Cardinality(S) <= Load(k)
         /\ Cardinality(Live(k, clock) \ S) = Load(k) - Cardinality(S)
         /\ \A w \in Live(k, clock) : /\ w \in Waiter /\ slotAt[w] \in Nat
                                      /\ slotAt[w] <= clock /\ clock < slotAt[w] + Window
<1>1. /\ Live(k, clock) \in SUBSET Waiter
      /\ \A w \in Live(k, clock) : slotAt[w] \in Nat /\ slotAt[w] <= clock
                                   /\ clock < slotAt[w] + Window
  BY DEF IInv, TypeOK, StampedByNow, Live
<1>2. IsFiniteSet(Live(k, clock)) /\ Load(k) \in Nat
  BY <1>1, WaiterFinite, FS_Subset, FS_CardinalityType DEF Load
<1>3. IsFiniteSet(S) /\ Cardinality(S) \in Nat /\ Cardinality(S) <= Load(k)
  BY <1>2, FS_Subset, FS_CardinalityType DEF Load
<1>4. Cardinality(Live(k, clock) \ S) = Load(k) - Cardinality(S)
  <2>1. Live(k, clock) \cap S = S
    OBVIOUS
  <2> QED BY <1>2, <2>1, FS_Difference DEF Load
<1> QED BY <1>1, <1>2, <1>3, <1>4

(* The n-th oldest stamp of a lane exists: fewer than n are older, and n are     *)
(* as old or older (sent[n - 1] of the deque).                              *)
LEMMA StampIs ==
  ASSUME IInv, NEW k \in Key, NEW n \in 1..Load(k)
  PROVE  /\ \E w \in Live(k, clock) : Stamp(k, n) = slotAt[w]
         /\ Cardinality({w \in Live(k, clock) : slotAt[w] < Stamp(k, n)}) < n
         /\ n <= Cardinality({w \in Live(k, clock) : slotAt[w] <= Stamp(k, n)})
<1> DEFINE L == Live(k, clock)
           Before(t) == {w \in L : slotAt[w] < t}
           UpTo(t) == {w \in L : slotAt[w] <= t}
           T == {t \in Nat : n <= Cardinality(UpTo(t))}
<1>1. /\ Load(k) \in Nat /\ clock \in Nat /\ Load(k) = Cardinality(L)
      /\ \A w \in L : slotAt[w] \in Nat /\ slotAt[w] <= clock
  BY LiveFinite DEF IInv, TypeOK, Load
<1>2. \A t \in Nat : /\ Before(t) \in SUBSET L /\ UpTo(t) \in SUBSET L
  OBVIOUS
<1>3. UpTo(clock) = L /\ Before(0) = {}
  BY <1>1
<1>4. \A t \in Nat : t # 0 => Before(t) = UpTo(t - 1)
  BY <1>1
<1>5. \A t \in Nat : t \notin {slotAt[w] : w \in L} => Before(t) = UpTo(t)
  BY <1>1
<1> DEFINE Nth(s) == Cardinality(Before(s)) < n /\ n <= Cardinality(UpTo(s))
<1>6. Stamp(k, n) = CHOOSE s \in {slotAt[w] : w \in L} : Nth(s)
  BY DEF Stamp
<1> HIDE DEF Before, UpTo
<1>7. \A t \in Nat : Cardinality(Before(t)) \in Nat /\ Cardinality(UpTo(t)) \in Nat
  BY <1>2, LiveFinite
<1> HIDE DEF L
<1>8. T \in SUBSET Nat /\ T # {}
  <2>1. clock \in T
    BY <1>1, <1>3
  <2> QED BY <2>1
<1>9. PICK t \in T : \A s \in T : t <= s
  BY <1>8, Least
<1>10. t \in Nat /\ n <= Cardinality(UpTo(t)) /\ n \in Nat \ {0}
  BY <1>1, <1>9
<1>11. Cardinality(Before(t)) < n
  <2>1. CASE t = 0
    <3>1. Cardinality(Before(t)) = 0
      BY <1>3, <2>1, FS_EmptySet
    <3> QED BY <1>10, <3>1
  <2>2. CASE t # 0
    <3>1. t - 1 \in Nat /\ ~(t <= t - 1)
      BY <1>10, <2>2
    <3>2. t - 1 \notin T
      BY <1>9, <3>1
    <3>3. Cardinality(UpTo(t - 1)) \in Nat /\ ~(n <= Cardinality(UpTo(t - 1)))
      BY <1>7, <3>1, <3>2
    <3>4. Before(t) = UpTo(t - 1)
      BY <1>4, <1>10, <2>2
    <3> QED BY <1>10, <3>3, <3>4
  <2> QED BY <2>1, <2>2
<1>12. t \in {slotAt[w] : w \in L}
  <2> SUFFICES ASSUME t \notin {slotAt[w] : w \in L} PROVE FALSE
    OBVIOUS
  <2>1. Before(t) = UpTo(t)
    BY <1>5, <1>10
  <2>2. Cardinality(UpTo(t)) \in Nat
    BY <1>7, <1>10
  <2> QED BY <1>10, <1>11, <2>1, <2>2
<1>13. Nth(t)
  BY <1>10, <1>11
<1>14. Stamp(k, n) \in {slotAt[w] : w \in L} /\ Nth(Stamp(k, n))
  <2> HIDE DEF Nth
  <2> QED BY <1>6, <1>12, <1>13
<1> QED BY <1>14 DEF L, Before, UpTo

(* A lane that is closed now opens at ReadyAt, not before, and stays open.      *)
LEMMA LaneOpens ==
  ASSUME IInv, NEW k \in Key, ~Open(k)
  PROVE  /\ ReadyAt(k) \in Nat /\ clock < ReadyAt(k)
         /\ \A d \in Nat :
              cooldown[k] <= clock + d /\ Cardinality(Live(k, clock + d)) < rpm[k]
                <=> ReadyAt(k) <= clock + d
<1> DEFINE L == Live(k, clock)
<1>1. /\ clock \in Nat /\ cooldown[k] \in Nat /\ rpm[k] \in Nat \ {0} /\ Window \in Nat
  BY Types DEF IInv, TypeOK
<1>2. Load(k) \in Nat /\ Load(k) = Cardinality(L)
  BY LiveFinite DEF Load
<1>3. \A d \in Nat : /\ Live(k, clock + d) \in SUBSET L
                     /\ Cardinality(Live(k, clock + d)) \in Nat
                     /\ Cardinality(Live(k, clock + d)) <= Load(k)
  <2>1. ASSUME NEW d \in Nat, NEW w \in Live(k, clock + d) PROVE w \in L
    <3>1. w \in sent[k] /\ slotAt[w] \in Nat /\ clock + d < slotAt[w] + Window
      BY DEF Live, IInv, TypeOK
    <3> QED BY <1>1, <3>1 DEF Live
  <2>2. \A d \in Nat : Live(k, clock + d) \in SUBSET L
    BY <2>1
  <2> QED BY <2>2, LiveFinite
<1>4. CASE Load(k) < rpm[k]
  <2>1. clock < cooldown[k]
    BY <1>1, <1>4 DEF Open
  <2>2. ReadyAt(k) = cooldown[k]
    BY <1>1, <1>4, <2>1 DEF ReadyAt, WindowReady
  <2>3. ASSUME NEW d \in Nat PROVE Cardinality(Live(k, clock + d)) < rpm[k]
    <3> DEFINE a == Cardinality(Live(k, clock + d))
               b == Load(k)
    <3>1. a \in Nat /\ b \in Nat /\ a <= b /\ b < rpm[k]
      BY <1>2, <1>3, <1>4
    <3> HIDE DEF a, b
    <3>2. a < rpm[k]
      BY <1>1, <3>1
    <3> QED BY <3>2 DEF a
  <2> QED BY <1>1, <2>1, <2>2, <2>3
<1>5. CASE ~(Load(k) < rpm[k])
  <2> DEFINE n == Load(k) - rpm[k] + 1
             t == Stamp(k, n)
             A == {w \in L : slotAt[w] < t}
             B == {w \in L : slotAt[w] <= t}
  <2>1. n \in 1..Load(k) /\ Load(k) - n = rpm[k] - 1
    BY <1>1, <1>2, <1>5
  <2>2. PICK v \in L : t = slotAt[v]
    BY <2>1, StampIs
  <2>3. Cardinality(A) < n /\ n <= Cardinality(B)
    BY <2>1, StampIs
  <2>4. t \in Nat /\ clock < t + Window /\ \A w \in L : slotAt[w] \in Nat
    BY <2>2, LiveFinite
  <2>5. WindowReady(k) = t + Window
    BY <1>5 DEF WindowReady
  <2> HIDE DEF n, t
  <2>6. /\ A \in SUBSET L /\ B \in SUBSET L
    OBVIOUS
  <2>7. /\ Cardinality(A) \in Nat /\ Cardinality(B) \in Nat
        /\ IsFiniteSet(L \ A) /\ IsFiniteSet(L \ B) /\ IsFiniteSet(L)
        /\ Cardinality(L \ A) = Load(k) - Cardinality(A)
        /\ Cardinality(L \ B) = Load(k) - Cardinality(B)
    BY <2>6, LiveFinite
  <2>8. ASSUME NEW d \in Nat
        PROVE  Cardinality(Live(k, clock + d)) < rpm[k] <=> t + Window <= clock + d
    <3>1. CASE t + Window <= clock + d
      <4>1. Live(k, clock + d) \in SUBSET (L \ B)
        <5> SUFFICES ASSUME NEW w \in Live(k, clock + d) PROVE w \in L \ B
          OBVIOUS
        <5>1. w \in L /\ slotAt[w] \in Nat /\ clock + d < slotAt[w] + Window
          BY <1>3, <2>4 DEF Live
        <5> QED BY <1>1, <2>4, <3>1, <5>1
      <4>2. Cardinality(Live(k, clock + d)) <= Cardinality(L \ B)
        BY <2>7, <4>1, FS_Subset
      <4>3. Cardinality(Live(k, clock + d)) < rpm[k]
        <5> DEFINE a == Cardinality(Live(k, clock + d))
                   b == Cardinality(B)
        <5>1. a \in Nat /\ b \in Nat /\ a <= Load(k) - b /\ n <= b
          BY <1>3, <2>3, <2>7, <4>2
        <5> HIDE DEF a, b
        <5>2. a < rpm[k]
          BY <1>1, <1>2, <2>1, <5>1
        <5> QED BY <5>2 DEF a
      <4> QED BY <3>1, <4>3
    <3>2. CASE ~(t + Window <= clock + d)
      <4>1. L \ A \in SUBSET Live(k, clock + d)
        <5> SUFFICES ASSUME NEW w \in L \ A PROVE w \in Live(k, clock + d)
          OBVIOUS
        <5>1. w \in sent[k] /\ slotAt[w] \in Nat /\ t <= slotAt[w]
          BY <2>4 DEF Live
        <5> QED BY <1>1, <2>4, <3>2, <5>1 DEF Live
      <4>2. IsFiniteSet(Live(k, clock + d))
        BY <1>3, LiveFinite
      <4>3. Cardinality(L \ A) <= Cardinality(Live(k, clock + d))
        BY <4>1, <4>2, FS_Subset
      <4>4. ~(Cardinality(Live(k, clock + d)) < rpm[k])
        <5> DEFINE a == Cardinality(Live(k, clock + d))
                   b == Cardinality(A)
        <5>1. a \in Nat /\ b \in Nat /\ Load(k) - b <= a /\ b < n
          BY <1>3, <2>3, <2>7, <4>3
        <5> HIDE DEF a, b
        <5>2. ~(a < rpm[k])
          BY <1>1, <1>2, <2>1, <5>1
        <5> QED BY <5>2 DEF a
      <4> QED BY <3>2, <4>4
    <3> QED BY <3>1, <3>2
  <2>9. ReadyAt(k) = IF t + Window >= cooldown[k] THEN t + Window ELSE cooldown[k]
    BY <2>5 DEF ReadyAt
  <2> DEFINE r == ReadyAt(k)
             W == t + Window
  <2>10. W \in Nat /\ clock < W /\ r = IF W >= cooldown[k] THEN W ELSE cooldown[k]
    BY <1>1, <2>4, <2>9
  <2>11. \A d \in Nat : Cardinality(Live(k, clock + d)) < rpm[k] <=> W <= clock + d
    BY <2>8
  <2> HIDE DEF r, W
  <2>12. r \in Nat /\ clock < r
    BY <1>1, <2>10
  <2>13. \A d \in Nat : cooldown[k] <= clock + d /\ W <= clock + d <=> r <= clock + d
    BY <1>1, <2>10
  <2>14. ASSUME NEW d \in Nat
         PROVE  cooldown[k] <= clock + d /\ Cardinality(Live(k, clock + d)) < rpm[k]
                  <=> r <= clock + d
    BY <2>11, <2>13
  <2> QED BY <2>12, <2>14 DEF r
<1> QED BY <1>4, <1>5

(* The wait is exact (pool.rs reserve): when no lane is open, none opens sooner  *)
(* if nothing else happens, and one does then unless a whole window is waited,   *)
(* also for lanes whose budget was lowered below what they already sent.       *)
THEOREM WaitTheorem == Spec => []WaitIsExact
<1>1. IInv => WaitIsExact
  <2> SUFFICES ASSUME IInv, ReadyLanes = {} PROVE WaitIsExact
    BY DEF WaitIsExact
  <2> DEFINE waits == {Window} \cup {ReadyAt(k) - clock : k \in enabled}
             OpensIn(d) == \E k \in enabled :
               /\ cooldown[k] <= clock + d
               /\ Cardinality(Live(k, clock + d)) < rpm[k]
  <2>1. enabled \subseteq Key /\ clock \in Nat /\ Window \in Nat \ {0}
    BY Types DEF IInv, TypeOK
  <2>2. \A k \in enabled : ~Open(k)
    BY DEF ReadyLanes
  <2>3. ASSUME NEW k \in enabled
        PROVE  /\ ReadyAt(k) - clock \in Nat /\ 1 <= ReadyAt(k) - clock
               /\ \A d \in Nat :
                    cooldown[k] <= clock + d /\ Cardinality(Live(k, clock + d)) < rpm[k]
                      <=> ReadyAt(k) - clock <= d
    <3>1. /\ ReadyAt(k) \in Nat /\ clock < ReadyAt(k)
          /\ \A d \in Nat :
               cooldown[k] <= clock + d /\ Cardinality(Live(k, clock + d)) < rpm[k]
                 <=> ReadyAt(k) <= clock + d
      BY <2>1, <2>2, LaneOpens
    <3> DEFINE r == ReadyAt(k)
    <3>2. r \in Nat /\ clock < r
      BY <3>1
    <3> HIDE DEF r
    <3>3. /\ r - clock \in Nat /\ 1 <= r - clock
          /\ \A d \in Nat : r <= clock + d <=> r - clock <= d
      BY <2>1, <3>2
    <3>4. ASSUME NEW d \in Nat
          PROVE  cooldown[k] <= clock + d /\ Cardinality(Live(k, clock + d)) < rpm[k]
                   <=> r - clock <= d
      <4>1. cooldown[k] <= clock + d /\ Cardinality(Live(k, clock + d)) < rpm[k]
              <=> r <= clock + d
        BY <3>1 DEF r
      <4> QED BY <3>3, <4>1
    <3> QED BY <3>3, <3>4 DEF r
  <2>4. waits \in SUBSET Nat /\ waits # {} /\ Window \in waits /\ \A e \in waits : 1 <= e
    BY <2>1, <2>3
  <2>5. \E d \in waits : \A e \in waits : d <= e
    BY <2>4, Least
  <2>6. SoonestWait \in waits /\ \A e \in waits : SoonestWait <= e
    <3>1. SoonestWait = CHOOSE d \in waits : \A e \in waits : d <= e
      BY DEF SoonestWait
    <3> HIDE DEF waits
    <3> QED BY <2>5, <3>1
  <2>7. SoonestWait \in 1..Window /\ SoonestWait \in Nat
    BY <2>1, <2>4, <2>6
  <2>8. ASSUME NEW d \in 1..(SoonestWait - 1) PROVE ~OpensIn(d)
    <3> SUFFICES ASSUME NEW k \in enabled, ReadyAt(k) - clock <= d PROVE FALSE
      BY <2>3, <2>7
    <3>1. SoonestWait <= ReadyAt(k) - clock
      BY <2>6
    <3> QED BY <2>3, <2>7, <3>1
  <2>9. SoonestWait = Window \/ OpensIn(SoonestWait)
    <3>1. CASE \E k \in enabled : SoonestWait = ReadyAt(k) - clock
      <4>1. PICK k \in enabled : SoonestWait = ReadyAt(k) - clock
        BY <3>1
      <4> QED BY <2>3, <2>7, <4>1
    <3> QED BY <2>6, <3>1
  <2> QED BY <2>7, <2>8, <2>9 DEF WaitIsExact
<1> QED BY <1>1, Invariance, PTL

=============================================================================
