-------------------------- MODULE StateStoreProofs --------------------------
(***************************************************************************)
(* What a restart brings back, for any providers, keys, sessions, imports and *)
(* clocks.  Budgets: a send made or found is neither forgotten nor counted    *)
(* twice, and no penalty outlives its end, to within a second for each        *)
(* restart (WindowsTheorem).  Ticks: once a complete tick is in the database, *)
(* a kill loses nothing (RestartTheorem).  Pins: none outlasts the session's  *)
(* last use by more than the TTL, and no live row is lost (PinsTheorem).     *)
(***************************************************************************)
EXTENDS StateStore, FiniteSetTheorems, WellFoundedInduction, TLAPS

(* What a restart may cost: less than a second.                             *)
Slack == Second - 1

(* A window: no send twice, and each within lo before and hi after the time  *)
(* it was made at.                                                          *)
LaneOK(s, made, lo, hi) ==
  /\ s \in Rows /\ Len(s) <= Rpm
  /\ \A i, j \in 1..Len(s) : s[i].id = s[j].id => i = j
  /\ \A i \in 1..Len(s) :
       /\ s[i].id \in 1..Len(made)
       /\ made[s[i].id] - lo <= s[i].at /\ s[i].at <= made[s[i].id] + hi

(* A breaker: the second it opened in began no later than it opened.         *)
CircuitOK(c, end) ==
  /\ c \in Circuit /\ c.failures <= MaxFailures
  /\ c.state = "closed" => c.failures < MaxFailures
  /\ c.state = "open" => c.unix >= 1 /\ c.unix * Second + Timeout <= end

(* An operation on its way to the writer, made while restarts had cost d.     *)
Op ==
  [op : {"health"}, provider : Provider, healthy : BOOLEAN]
  \cup [op : {"sticky"}, session : Session, expires : Nat]
  \cup [op : {"sweep"}, unix : Nat]
  \cup [op : {"circuit"}, provider : Provider, snap : Circuit]
  \cup [op : {"lanes"}, provider : Provider, rows : [Key -> Rows]]
  \cup [op : {"cooldown"}, provider : Provider, key : Key, until : Nat]

OpOK(o, made, end, d) ==
  /\ o \in Op
  /\ o.op = "circuit" => CircuitOK(o.snap, end.open[o.provider])
  /\ o.op = "lanes" => \A k \in Key : LaneOK(o.rows[k], made, d + Slack, d)
  /\ o.op = "cooldown" => o.until <= end.cool[o.provider][o.key] + d

QueueOK(q, made, end, d) ==
  q \in Seq(Op) /\ \A i \in 1..Len(q) : OpOK(q[i], made, end, d)

(* The database, with stamps within lo before and hi after the truth.        *)
DbOK(x, made, end, lo, hi) ==
  /\ x \in Database
  /\ \A p \in Provider :
       /\ x.circuit[p] # None => CircuitOK(x.circuit[p], end.open[p])
       /\ \A k \in Key : /\ LaneOK(x.sent[p][k], made, lo, hi)
                         /\ x.cool[p][k] = 0 \/ x.cool[p][k] <= end.cool[p][k] + hi

(* Memory.                                                                  *)
Memory == [health  : [Provider -> BOOLEAN \cup {None}],
           pin     : [Session -> Nat \cup {None}],
           circuit : [Provider -> Circuit],
           sent    : [Provider -> [Key -> Rows]],
           cool    : [Provider -> [Key -> Nat]]]

BreakerOK(c, end) ==
  CircuitOK(c, end) /\ (c.state = "open" => c.last + Timeout < end + Second)

MemOK(m, made, end, d) ==
  /\ m \in Memory
  /\ \A p \in Provider :
       /\ BreakerOK(m.circuit[p], end.open[p])
       /\ \A k \in Key : /\ LaneOK(m.sent[p][k], made, d, d)
                         /\ m.cool[p][k] <= end.cool[p][k] + d

(* What an attempt has still to do; the clock it read is not ahead.          *)
Todo ==
  [do : {"pin"}, session : Session, unix : Nat]
  \cup [do : {"cool"}, provider : Provider, key : Key, backoff : Nat, unix : Nat]

Tasks == [todo : Todo \cup {None}, op : Op \cup {None}]

TaskOK(x, made, end, d, t) ==
  /\ x.todo # None => x.todo.unix * Second <= t
  /\ x.todo # None \/ x.op # None => OpOK(x.op, made, end, d)

Ends == [cool : [Provider -> [Key -> Nat]], open : [Provider -> Nat],
         pin : [Session -> Nat]]

Clocks ==
  /\ now \in Nat /\ now >= Second /\ kills \in Nat /\ sends \in Seq(Nat)
  /\ ends \in Ends
  /\ \A p \in Provider : ends.open[p] <= now + Timeout

Process ==
  /\ MemOK(mem, sends, ends, Drift)
  /\ task \in [Task -> Tasks]
  /\ \A t \in Task : TaskOK(task[t], sends, ends, Drift, now)
  /\ QueueOK(queue, sends, ends, Drift)
  /\ batch # None => QueueOK(batch, sends, ends, Drift)

(* While the process is up its stamps may be a second older in the database; *)
(* a kill pays that second.                                                 *)
Stored ==
  db # None \/ up # "down" =>
    DbOK(db, sends, ends, IF up = "up" THEN Drift + Slack ELSE Drift,
                          IF up = "up" THEN Drift ELSE Drift - Slack)

(* Every send of this process, or found by it, is in its lane's window until  *)
(* it may leave.                                                            *)
Holds(s, id) == \E i \in 1..Len(s) : s[i].id = id
KeptCounted ==
  /\ kept \subseteq [id : 1..Len(sends), provider : Provider, key : Key]
  /\ \A x \in kept : now - sends[x.id] < Window - Drift =>
       Holds(mem.sent[x.provider][x.key], x.id)

Places ==
  /\ up \in {"down", "importing", "up"} /\ left \subseteq LegacyRows
  /\ up # "down" => db \in Database
  /\ up # "up" => mem = Blank /\ queue = <<>> /\ batch = None
                  /\ \A t \in Task : task[t] = Idle

IInv == Clocks /\ Places /\ Process /\ Stored /\ KeptCounted

(* The assumptions on the constants, one by one.                             *)
LEMMA Consts ==
  /\ Second \in Nat /\ Second >= 1 /\ Slack \in Nat /\ Slack = Second - 1
  /\ Window \in Nat /\ Grace \in Nat /\ Grace >= Window
  /\ Ttl \in Nat /\ Rpm \in Nat \ {0}
  /\ MaxFailures \in Nat \ {0} /\ Timeout \in Nat
  /\ Backoffs \subseteq Nat
BY ConstantsAssumption DEF Slack

-----------------------------------------------------------------------------
(* Sequences.  Among numbers there is a least one, which is the induction     *)
(* the facts about recursive functions rest on.                             *)
LEMMA Least ==
  ASSUME NEW T \in SUBSET Nat, T # {}
  PROVE  \E t \in T : \A s \in T : t <= s
<1>1. IsWellFoundedOn(OpToRel(<, Nat), Nat)
  BY NatLessThanWellFounded
<1>2. PICK t \in T : \A s \in T : ~(<<s, t>> \in OpToRel(<, Nat))
  BY <1>1, WFMin
<1>3. \A s \in T : ~(s < t)
  BY <1>2 DEF OpToRel
<1> QED BY <1>3

(* One position of Filtered.                                                *)
FilterStep(s, T, F, i) ==
  IF i = 0 THEN <<>> ELSE IF s[i] \in T THEN Append(F[i - 1], s[i]) ELSE F[i - 1]

(* The recursive function exists.                                           *)
LEMMA FilterExists ==
  ASSUME NEW s, NEW T, NEW n \in Nat
  PROVE  \E F : F = [i \in 0..n |-> FilterStep(s, T, F, i)]
<1> DEFINE Bad == {m \in Nat : ~ \E F : F = [i \in 0..m |-> FilterStep(s, T, F, i)]}
<1> SUFFICES ASSUME Bad # {} PROVE FALSE
  OBVIOUS
<1>1. PICK m \in Bad : \A k \in Bad : m <= k
  <2> HIDE DEF Bad
  <2>1. Bad \in SUBSET Nat
    BY DEF Bad
  <2> QED BY <2>1, Least
<1>2. m # 0
  <2> SUFFICES ASSUME m = 0 PROVE FALSE
    OBVIOUS
  <2> DEFINE F == [i \in 0..0 |-> <<>>]
  <2>1. F = [i \in 0..0 |-> FilterStep(s, T, F, i)]
    BY DEF FilterStep
  <2> QED BY <1>1, <2>1
<1>3. m - 1 \in Nat /\ m - 1 \notin Bad
  BY <1>1, <1>2
<1>4. PICK G : G = [i \in 0..(m - 1) |-> FilterStep(s, T, G, i)]
  BY <1>3
<1> DEFINE H == [i \in 0..m |-> IF i = m THEN FilterStep(s, T, G, m) ELSE G[i]]
<1>5. ASSUME NEW i \in 0..m PROVE H[i] = FilterStep(s, T, H, i)
  <2>0. m \in Nat
    OBVIOUS
  <2>1. CASE i = m
    <3>1. H[i - 1] = G[i - 1]
      BY <1>2, <1>3, <2>0, <2>1
    <3> QED BY <2>1, <3>1 DEF FilterStep
  <2>2. CASE i # m
    <3>1. i \in 0..(m - 1)
      BY <2>0, <2>2
    <3>2. H[i] = G[i] /\ G[i] = FilterStep(s, T, G, i)
      BY <1>4, <2>2, <3>1
    <3>3. i # 0 => H[i - 1] = G[i - 1]
      BY <2>0, <3>1
    <3> QED BY <3>2, <3>3 DEF FilterStep
  <2> QED BY <2>1, <2>2
<1>6. H = [i \in 0..m |-> FilterStep(s, T, H, i)]
  BY <1>5
<1> HIDE DEF H
<1> QED BY <1>1, <1>6

(* f is made of the first n members of s that are in T: g says where each of   *)
(* them stands, and none is left out.                                        *)
Part(f, S, s, T, n) ==
  /\ f \in Seq(S) /\ Len(f) <= n
  /\ \E g \in [1..Len(f) -> 1..n] :
       /\ \A a, b \in 1..Len(f) : g[a] = g[b] => a = b
       /\ \A a \in 1..Len(f) : f[a] = s[g[a]] /\ f[a] \in T
  /\ \A j \in 1..n : s[j] \in T => \E a \in 1..Len(f) : f[a] = s[j]

(* One position more.                                                       *)
LEMMA PartStep ==
  ASSUME NEW S, NEW s \in Seq(S), NEW T, NEW n \in 1..Len(s), NEW f, Part(f, S, s, T, n - 1)
  PROVE  Part(IF s[n] \in T THEN Append(f, s[n]) ELSE f, S, s, T, n)
<1>1. /\ f \in Seq(S) /\ Len(f) \in Nat /\ Len(f) <= n - 1 /\ n \in Nat /\ s[n] \in S
  BY DEF Part
<1>2. PICK g \in [1..Len(f) -> 1..(n - 1)] :
        /\ \A a, b \in 1..Len(f) : g[a] = g[b] => a = b
        /\ \A a \in 1..Len(f) : f[a] = s[g[a]] /\ f[a] \in T
  BY DEF Part
<1>3. \A j \in 1..(n - 1) : s[j] \in T => \E a \in 1..Len(f) : f[a] = s[j]
  BY DEF Part
<1>4. CASE s[n] \notin T
  <2>1. g \in [1..Len(f) -> 1..n]
    BY <1>1, <1>2
  <2>2. \A j \in 1..n : s[j] \in T => \E a \in 1..Len(f) : f[a] = s[j]
    <3> SUFFICES ASSUME NEW j \in 1..n, s[j] \in T PROVE \E a \in 1..Len(f) : f[a] = s[j]
      OBVIOUS
    <3>1. j # n
      BY <1>4
    <3>2. j \in 1..(n - 1)
      BY <1>1, <3>1
    <3> QED BY <1>3, <3>2
  <2>3. Len(f) <= n
    BY <1>1
  <2>4. \E h \in [1..Len(f) -> 1..n] :
          /\ \A a, b \in 1..Len(f) : h[a] = h[b] => a = b
          /\ \A a \in 1..Len(f) : f[a] = s[h[a]] /\ f[a] \in T
    BY <1>2, <2>1
  <2>5. Part(f, S, s, T, n)
    BY <1>1, <2>2, <2>3, <2>4 DEF Part
  <2> QED BY <1>4, <2>5
<1>5. CASE s[n] \in T
  <2> DEFINE e == Append(f, s[n])
             h == [a \in 1..Len(e) |-> IF a = Len(e) THEN n ELSE g[a]]
  <2>1. /\ e \in Seq(S) /\ Len(e) = Len(f) + 1 /\ e[Len(e)] = s[n]
        /\ \A a \in 1..Len(f) : e[a] = f[a]
    BY <1>1
  <2>2. \A a \in 1..Len(e) : a # Len(e) => a \in 1..Len(f)
    BY <1>1, <2>1
  <2> HIDE DEF e
  <2>3. h \in [1..Len(e) -> 1..n]
    BY <1>1, <1>2, <2>1, <2>2
  <2>4. \A a, b \in 1..Len(e) : h[a] = h[b] => a = b
    <3> SUFFICES ASSUME NEW a \in 1..Len(e), NEW b \in 1..Len(e), h[a] = h[b] PROVE a = b
      OBVIOUS
    <3>1. a # Len(e) => a \in 1..Len(f) /\ h[a] = g[a] /\ g[a] \in 1..(n - 1)
      BY <1>2, <2>2
    <3>2. b # Len(e) => b \in 1..Len(f) /\ h[b] = g[b] /\ g[b] \in 1..(n - 1)
      BY <1>2, <2>2
    <3>3. n \notin 1..(n - 1)
      BY <1>1
    <3> QED BY <1>2, <3>1, <3>2, <3>3
  <2>5. \A a \in 1..Len(e) : e[a] = s[h[a]] /\ e[a] \in T
    BY <1>2, <1>5, <2>1, <2>2
  <2>6. \A j \in 1..n : s[j] \in T => \E a \in 1..Len(e) : e[a] = s[j]
    <3> SUFFICES ASSUME NEW j \in 1..n, s[j] \in T PROVE \E a \in 1..Len(e) : e[a] = s[j]
      OBVIOUS
    <3>1. CASE j = n
      BY <1>1, <2>1, <3>1
    <3>2. CASE j # n
      <4>1. PICK a \in 1..Len(f) : f[a] = s[j]
        BY <1>1, <1>3, <3>2
      <4> QED BY <1>1, <2>1, <4>1
    <3> QED BY <3>1, <3>2
  <2>7. Len(e) <= n
    BY <1>1, <2>1
  <2>8. Part(e, S, s, T, n)
    <3> HIDE DEF h
    <3> QED BY <2>1, <2>3, <2>4, <2>5, <2>6, <2>7 DEF Part
  <2> QED BY <1>5, <2>8 DEF e
<1> QED BY <1>4, <1>5

(* Filtered is exactly the members in T.                                     *)
LEMMA FilteredIs ==
  ASSUME NEW S, NEW s \in Seq(S), NEW T
  PROVE  Part(Filtered(s, T), S, s, T, Len(s))
<1> DEFINE F == CHOOSE F : F = [i \in 0..Len(s) |-> FilterStep(s, T, F, i)]
<1>1. F = [i \in 0..Len(s) |-> FilterStep(s, T, F, i)]
  BY FilterExists, SMTT(30)
<1>2. Filtered(s, T) = F[Len(s)]
  BY Zenon DEF Filtered, FilterStep
<1>3. Len(s) \in Nat
  OBVIOUS
<1> HIDE DEF F
<1>4. F[0] = <<>>
  BY <1>1, <1>3 DEF FilterStep
<1>5. \A i \in 1..Len(s) : F[i] = IF s[i] \in T THEN Append(F[i - 1], s[i]) ELSE F[i - 1]
  <2> SUFFICES ASSUME NEW i \in 1..Len(s)
               PROVE  F[i] = IF s[i] \in T THEN Append(F[i - 1], s[i]) ELSE F[i - 1]
    OBVIOUS
  <2>1. i \in 0..Len(s) /\ i # 0
    BY <1>3
  <2>2. F[i] = FilterStep(s, T, F, i)
    BY <1>1, <2>1
  <2> QED BY <2>1, <2>2 DEF FilterStep
<1> DEFINE Bad == {m \in 0..Len(s) : ~Part(F[m], S, s, T, m)}
<1>6. Bad = {}
  <2> SUFFICES ASSUME Bad # {} PROVE FALSE
    OBVIOUS
  <2>1. PICK m \in Bad : \A k \in Bad : m <= k
    <3>1. Bad \in SUBSET Nat
      BY <1>3
    <3> HIDE DEF Bad
    <3> QED BY <3>1, Least
  <2>2. m # 0
    <3>1. Part(<<>>, S, s, T, 0)
      <4> DEFINE e == <<>>
                 g == [a \in 1..Len(e) |-> 0]
      <4>1. e \in Seq(S) /\ Len(e) = 0 /\ Len(e) <= 0
        OBVIOUS
      <4>2. \A a : a \notin 1..Len(e) /\ a \notin 1..0
        BY <4>1
      <4> HIDE DEF e
      <4>3. g \in [1..Len(e) -> 1..0]
        BY <4>2
      <4>4. Part(e, S, s, T, 0)
        <5> HIDE DEF g
        <5> QED BY <4>1, <4>2, <4>3 DEF Part
      <4> QED BY <4>4 DEF e
    <3> QED BY <1>4, <3>1
  <2>3. m \in 1..Len(s) /\ m - 1 \in 0..Len(s) /\ m - 1 \notin Bad
    BY <1>3, <2>1, <2>2
  <2>4. Part(F[m - 1], S, s, T, m - 1)
    BY <2>3
  <2>5. Part(F[m], S, s, T, m)
    BY <1>5, <2>3, <2>4, PartStep
  <2> QED BY <2>1, <2>5
<1> QED BY <1>2, <1>3, <1>6

-----------------------------------------------------------------------------
(* Whole seconds.                                                           *)
LEMMA Division ==
  ASSUME NEW n \in Nat
  PROVE  /\ n \div Second \in Nat
         /\ (n \div Second) * Second \in Nat
         /\ (n \div Second) * Second <= n
         /\ n - (n \div Second) * Second <= Slack
         /\ n >= Second => n \div Second >= 1
<1>1. Second \in Nat /\ Second >= 1 /\ Slack = Second - 1
  BY Consts
<1> DEFINE q == n \div Second
<1>2. q \in Nat /\ Second * q <= n /\ n < Second * q + Second
  BY <1>1
<1> HIDE DEF q
<1>3. q * Second = Second * q /\ q * Second \in Nat
  BY <1>1, <1>2
<1>4. n >= Second => q >= 1
  <2> SUFFICES ASSUME n >= Second, q = 0 PROVE FALSE
    BY <1>2
  <2>1. Second * q = 0
    BY <1>1
  <2> QED BY <1>1, <1>2, <2>1
<1>5. q * Second <= n /\ n - q * Second <= Slack
  <2> DEFINE x == q * Second
  <2>1. x \in Nat /\ x <= n /\ n < x + Second
    BY <1>2, <1>3
  <2> HIDE DEF x
  <2>2. x <= n /\ n - x <= Slack
    BY <1>1, <2>1
  <2> QED BY <2>2 DEF x
<1> QED BY <1>2, <1>3, <1>4, <1>5 DEF q

(* The rows of a window.                                                    *)
LEMMA RowIs ==
  ASSUME NEW s \in Rows, NEW i \in 1..Len(s) PROVE s[i].id \in Nat /\ s[i].at \in Int
<1> DEFINE R == [id : Nat, at : Int]
<1>1. s \in Seq(R)
  BY DEF Rows
<1> HIDE DEF R
<1>2. s[i] \in R
  BY <1>1
<1> QED BY <1>2 DEF R

(* A window stays within wider bounds, and when sends are added.             *)
LEMMA LaneWider ==
  ASSUME NEW made \in Seq(Nat), NEW s, NEW lo \in Int, NEW hi \in Int,
         NEW lower \in Int, NEW higher \in Int, lo <= lower, hi <= higher,
         LaneOK(s, made, lo, hi)
  PROVE  LaneOK(s, made, lower, higher)
<1>1. ASSUME NEW i \in 1..Len(s)
      PROVE  /\ s[i].id \in 1..Len(made)
             /\ made[s[i].id] - lower <= s[i].at
             /\ s[i].at <= made[s[i].id] + higher
  <2> DEFINE m == made[s[i].id]
             a == s[i].at
  <2>1. s[i].id \in 1..Len(made) /\ m - lo <= a /\ a <= m + hi
    BY DEF LaneOK
  <2>2. m \in Nat /\ a \in Int
    <3>1. s \in Rows
      BY DEF LaneOK
    <3> QED BY <2>1, <3>1, RowIs
  <2> HIDE DEF m, a
  <2>3. m - lower <= a /\ a <= m + higher
    BY <2>1, <2>2
  <2> QED BY <2>1, <2>3 DEF m, a
<1>2. /\ s \in Rows /\ Len(s) <= Rpm
      /\ \A i, j \in 1..Len(s) : s[i].id = s[j].id => i = j
  BY DEF LaneOK
<1> QED BY <1>1, <1>2 DEF LaneOK

(* A window is as good after another send.                                   *)
LEMMA LaneLater ==
  ASSUME NEW made \in Seq(Nat), NEW t \in Nat, NEW s, NEW lo \in Int, NEW hi \in Int,
         LaneOK(s, made, lo, hi)
  PROVE  LaneOK(s, Append(made, t), lo, hi)
<1> DEFINE m == Append(made, t)
<1>1. /\ m \in Seq(Nat) /\ Len(m) = Len(made) + 1 /\ Len(made) \in Nat
      /\ \A i \in 1..Len(made) : m[i] = made[i]
  OBVIOUS
<1> HIDE DEF m
<1>2. \A i \in 1..Len(s) : s[i].id \in 1..Len(m) /\ m[s[i].id] = made[s[i].id]
  BY <1>1 DEF LaneOK
<1>3. LaneOK(s, m, lo, hi)
  BY <1>2 DEF LaneOK
<1> QED BY <1>3 DEF m

(* Dropping members leaves a window.                                        *)
LEMMA LaneFiltered ==
  ASSUME NEW made, NEW s, NEW lo, NEW hi, NEW T, LaneOK(s, made, lo, hi)
  PROVE  /\ LaneOK(Filtered(s, T), made, lo, hi)
         /\ \A i \in 1..Len(s) : s[i] \in T =>
              \E a \in 1..Len(Filtered(s, T)) : Filtered(s, T)[a] = s[i]
         /\ \A a \in 1..Len(Filtered(s, T)) :
              Filtered(s, T)[a] \in T /\ \E i \in 1..Len(s) : Filtered(s, T)[a] = s[i]
<1> DEFINE f == Filtered(s, T)
           R == [id : Nat, at : Int]
<1>1. s \in Seq(R) /\ Len(s) \in Nat /\ Len(s) <= Rpm /\ Rpm \in Nat
  BY Consts DEF LaneOK, Rows
<1>2. Part(f, R, s, T, Len(s))
  BY <1>1, FilteredIs
<1> HIDE DEF f
<1>3. f \in Seq(R) /\ Len(f) \in Nat /\ Len(f) <= Rpm
  BY <1>1, <1>2 DEF Part
<1>4. PICK g \in [1..Len(f) -> 1..Len(s)] :
        /\ \A a, b \in 1..Len(f) : g[a] = g[b] => a = b
        /\ \A a \in 1..Len(f) : f[a] = s[g[a]] /\ f[a] \in T
  BY <1>2 DEF Part
<1>5. \A a, b \in 1..Len(f) : f[a].id = f[b].id => a = b
  BY <1>4 DEF LaneOK
<1>6. \A a \in 1..Len(f) : /\ f[a].id \in 1..Len(made)
                           /\ made[f[a].id] - lo <= f[a].at
                           /\ f[a].at <= made[f[a].id] + hi
  BY <1>4 DEF LaneOK
<1>7. LaneOK(f, made, lo, hi)
  BY <1>3, <1>5, <1>6 DEF LaneOK, Rows
<1>8. \A i \in 1..Len(s) : s[i] \in T => \E a \in 1..Len(f) : f[a] = s[i]
  BY <1>2 DEF Part
<1> QED BY <1>4, <1>7, <1>8 DEF f

(* Stamps that are all moved by r are off by so much more.                   *)
Shifted(f, s, r) == f = [i \in 1..Len(s) |-> [id |-> s[i].id, at |-> s[i].at + r]]

(* So a window is still sound, within the wider bounds.                      *)
LEMMA LaneShifted ==
  ASSUME NEW made \in Seq(Nat), NEW s, NEW lo \in Int, NEW hi \in Int, NEW r \in Int,
         LaneOK(s, made, lo, hi), NEW f, Shifted(f, s, r)
  PROVE  /\ LaneOK(f, made, lo - r, hi + r) /\ Len(f) = Len(s)
         /\ \A i \in 1..Len(s) : f[i].id = s[i].id
<1>1. s \in Rows /\ Len(s) \in Nat /\ Len(s) <= Rpm
  BY DEF LaneOK, Rows
<1>2. \A i \in 1..Len(s) : s[i].id \in Nat /\ s[i].at \in Int
  BY <1>1, RowIs
<1>3. f \in Rows /\ Len(f) = Len(s)
  <2> DEFINE R == [id : Nat, at : Int]
             n == Len(s)
  <2>1. f \in [1..n -> R] /\ n \in Nat
    BY <1>1, <1>2 DEF Shifted
  <2> HIDE DEF R, n
  <2>2. f \in Seq(R) /\ Len(f) = n
    BY <2>1
  <2> QED BY <2>2 DEF Rows, R, n
<1>4. \A i \in 1..Len(s) : f[i].id = s[i].id /\ f[i].at = s[i].at + r
  BY DEF Shifted
<1>5. ASSUME NEW i \in 1..Len(s)
      PROVE  /\ f[i].id \in 1..Len(made)
             /\ made[f[i].id] - (lo - r) <= f[i].at /\ f[i].at <= made[f[i].id] + (hi + r)
  <2> DEFINE m == made[s[i].id]
             a == s[i].at
  <2>0. s[i].id \in 1..Len(made) /\ m - lo <= a /\ a <= m + hi
    BY DEF LaneOK
  <2>1. /\ s[i].id \in 1..Len(made) /\ m \in Nat /\ a \in Int
        /\ m - lo <= a /\ a <= m + hi
    BY <1>2, <2>0, SMTT(30)
  <2>2. made[f[i].id] = m /\ f[i].at = a + r
    BY <1>4
  <2> HIDE DEF m, a
  <2>3. m - (lo - r) <= a + r /\ a + r <= m + (hi + r)
    BY <2>1
  <2> QED BY <1>4, <2>1, <2>2, <2>3
<1>6. \A i, j \in 1..Len(f) : f[i].id = f[j].id => i = j
  BY <1>3, <1>4 DEF LaneOK
<1> QED BY <1>1, <1>3, <1>4, <1>5, <1>6 DEF LaneOK

(* The send that was just made joins its window.                             *)
Joined(e, s, made, t) == e = Append(s, [id |-> Len(made) + 1, at |-> t])

(* A window with room for it stays sound, and then holds the send.           *)
LEMMA LaneJoined ==
  ASSUME NEW made \in Seq(Nat), NEW t \in Nat, NEW s, NEW d \in Nat,
         LaneOK(s, made, d, d), Len(s) < Rpm, NEW e,
         Joined(e, s, made, t)
  PROVE  LaneOK(e, Append(made, t), d, d) /\ Holds(e, Len(made) + 1)
         /\ \A id : Holds(s, id) => Holds(e, id)
<1> DEFINE m == Append(made, t)
           x == [id |-> Len(made) + 1, at |-> t]
<1>1. /\ m \in Seq(Nat) /\ Len(m) = Len(made) + 1 /\ Len(made) \in Nat
      /\ m[Len(made) + 1] = t
  OBVIOUS
<1>2. LaneOK(s, m, d, d)
  BY LaneLater
<1>3. x \in [id : Nat, at : Int] /\ x.id = Len(made) + 1 /\ x.at = t
  BY <1>1
<1>4. s \in Rows /\ Len(s) \in Nat /\ Rpm \in Nat
  BY Consts DEF LaneOK, Rows
<1> HIDE DEF m, x
<1>5. /\ e \in Rows /\ Len(e) = Len(s) + 1 /\ e[Len(s) + 1] = x
      /\ \A i \in 1..Len(s) : e[i] = s[i]
  BY <1>3, <1>4 DEF Rows, x, Joined
<1>6. Len(e) <= Rpm
  BY <1>4, <1>5
<1>7. \A i \in 1..Len(e) : i = Len(s) + 1 \/ i \in 1..Len(s)
  BY <1>4, <1>5
<1>8. \A i \in 1..Len(s) : s[i].id \in 1..Len(made) /\ s[i].id # x.id
  <2> SUFFICES ASSUME NEW i \in 1..Len(s)
               PROVE  s[i].id \in 1..Len(made) /\ s[i].id # x.id
    OBVIOUS
  <2>1. s[i].id \in 1..Len(made)
    BY DEF LaneOK
  <2> QED BY <1>1, <1>3, <2>1
<1>9. \A i, j \in 1..Len(e) : e[i].id = e[j].id => i = j
  <2>1. \A i, j \in 1..Len(s) : s[i].id = s[j].id => i = j
    BY DEF LaneOK
  <2> QED BY <1>5, <1>7, <1>8, <2>1
<1>10. \A i \in 1..Len(e) : /\ e[i].id \in 1..Len(m)
                            /\ m[e[i].id] - d <= e[i].at /\ e[i].at <= m[e[i].id] + d
  <2>1. /\ x.id \in 1..Len(m) /\ m[x.id] - d <= x.at /\ x.at <= m[x.id] + d
    BY <1>1, <1>3
  <2>2. \A i \in 1..Len(s) : /\ s[i].id \in 1..Len(m)
                             /\ m[s[i].id] - d <= s[i].at /\ s[i].at <= m[s[i].id] + d
    BY <1>2 DEF LaneOK
  <2> QED BY <1>5, <1>7, <2>1, <2>2
<1>11. LaneOK(e, m, d, d)
  BY <1>5, <1>6, <1>9, <1>10 DEF LaneOK
<1>12. Holds(e, Len(made) + 1)
  <2>1. Len(s) + 1 \in 1..Len(e) /\ e[Len(s) + 1].id = Len(made) + 1
    BY <1>3, <1>4, <1>5
  <2> QED BY <2>1 DEF Holds
<1>13. \A id : Holds(s, id) => Holds(e, id)
  <2>1. \A i \in 1..Len(s) : i \in 1..Len(e) /\ e[i] = s[i]
    BY <1>4, <1>5
  <2> QED BY <2>1 DEF Holds
<1> QED BY <1>11, <1>12, <1>13 DEF m

(* An empty window.                                                         *)
LEMMA LaneEmpty ==
  ASSUME NEW made, NEW lo, NEW hi PROVE LaneOK(<<>>, made, lo, hi) /\ <<>> \in Rows
<1>1. <<>> \in Rows /\ Len(<<>>) = 0 /\ Rpm \in Nat
  BY Consts DEF Rows
<1> DEFINE e == <<>>
<1>2. e \in Rows /\ Len(e) <= Rpm /\ \A i : i \notin 1..Len(e)
  BY <1>1
<1> HIDE DEF e
<1>3. LaneOK(e, made, lo, hi)
  BY <1>2 DEF LaneOK
<1> QED BY <1>1, <1>3 DEF e

-----------------------------------------------------------------------------
(* What was good stays good while sends are added and penalties grow longer.  *)
Grown(made, more) == more = made \/ \E t \in Nat : more = Append(made, t)
Longer(end, more) ==
  /\ \A p \in Provider : end.open[p] <= more.open[p]
  /\ \A p \in Provider, k \in Key : end.cool[p][k] <= more.cool[p][k]

(* The fields of the ends of penalties.                                      *)
LEMMA EndIs ==
  ASSUME NEW end \in Ends, NEW p \in Provider
  PROVE  /\ end.open[p] \in Nat
         /\ \A k \in Key : end.cool[p][k] \in Nat
<1>1. /\ end.open \in [Provider -> Nat]
      /\ end.cool \in [Provider -> [Key -> Nat]]
  BY DEF Ends
<1> QED BY <1>1

(* A window, within wider bounds and when a send is added.                   *)
LEMMA LaneOn ==
  ASSUME NEW made \in Seq(Nat), NEW more, Grown(made, more), NEW s,
         NEW lo \in Int, NEW hi \in Int, NEW lower \in Int, NEW higher \in Int,
         lo <= lower, hi <= higher, LaneOK(s, made, lo, hi)
  PROVE  LaneOK(s, more, lower, higher)
<1>1. LaneOK(s, made, lower, higher)
  BY LaneWider
<1>2. CASE more = made
  BY <1>1, <1>2
<1>3. ASSUME NEW t \in Nat, more = Append(made, t) PROVE LaneOK(s, more, lower, higher)
  BY <1>1, <1>3, LaneLater
<1> QED BY <1>2, <1>3 DEF Grown

(* A breaker.                                                               *)
LEMMA CircuitOn ==
  ASSUME NEW c, NEW end \in Nat, NEW more \in Nat, end <= more, CircuitOK(c, end)
  PROVE  CircuitOK(c, more)
<1>1. c \in Circuit /\ c.unix \in Nat
  BY DEF CircuitOK, Circuit
<1>2. c.unix * Second \in Nat /\ Timeout \in Nat
  BY <1>1, Consts
<1> DEFINE x == c.unix * Second
<1>3. c.state = "open" => c.unix >= 1 /\ x + Timeout <= end
  BY DEF CircuitOK
<1> HIDE DEF x
<1>4. c.state = "open" => x + Timeout <= more
  <2>1. x \in Nat
    BY <1>2 DEF x
  <2> QED BY <1>2, <1>3, <2>1
<1>5. c.state = "open" => c.unix * Second + Timeout <= more
  BY <1>4 DEF x
<1> QED BY <1>3, <1>5 DEF CircuitOK

(* What an operation of each kind carries.                                   *)
LEMMA OpIs ==
  ASSUME NEW o \in Op
  PROVE  /\ o.op \in {"health", "sticky", "sweep", "circuit", "lanes", "cooldown"}
         /\ o.op = "health" => o.provider \in Provider /\ o.healthy \in BOOLEAN
         /\ o.op = "sticky" => o.session \in Session /\ o.expires \in Nat
         /\ o.op = "sweep" => o.unix \in Nat
         /\ o.op = "circuit" => o.provider \in Provider /\ o.snap \in Circuit
         /\ o.op = "lanes" => o.provider \in Provider /\ o.rows \in [Key -> Rows]
         /\ o.op = "cooldown" => o.provider \in Provider /\ o.key \in Key /\ o.until \in Nat
<1> DEFINE C == Circuit
           R == Rows
<1> HIDE DEF C, R
<1>1. o \in [op : {"health"}, provider : Provider, healthy : BOOLEAN]
           \cup [op : {"sticky"}, session : Session, expires : Nat]
           \cup [op : {"sweep"}, unix : Nat]
           \cup [op : {"circuit"}, provider : Provider, snap : C]
           \cup [op : {"lanes"}, provider : Provider, rows : [Key -> R]]
           \cup [op : {"cooldown"}, provider : Provider, key : Key, until : Nat]
  BY DEF Op, C, R
<1>2. /\ o.op \in {"health", "sticky", "sweep", "circuit", "lanes", "cooldown"}
      /\ o.op = "health" => o.provider \in Provider /\ o.healthy \in BOOLEAN
      /\ o.op = "sticky" => o.session \in Session /\ o.expires \in Nat
      /\ o.op = "sweep" => o.unix \in Nat
      /\ o.op = "circuit" => o.provider \in Provider /\ o.snap \in C
      /\ o.op = "lanes" => o.provider \in Provider /\ o.rows \in [Key -> R]
      /\ o.op = "cooldown" => o.provider \in Provider /\ o.key \in Key /\ o.until \in Nat
  BY <1>1
<1> QED BY <1>2 DEF C, R

(* An operation on its way.                                                 *)
LEMMA OpOn ==
  ASSUME NEW made \in Seq(Nat), NEW more, Grown(made, more),
         NEW end \in Ends, NEW later \in Ends, Longer(end, later),
         NEW d \in Nat, NEW o, OpOK(o, made, end, d)
  PROVE  OpOK(o, more, later, d)
<1>1. o \in Op
  BY DEF OpOK
<1>2. o.op = "circuit" => CircuitOK(o.snap, later.open[o.provider])
  <2> SUFFICES ASSUME o.op = "circuit" PROVE CircuitOK(o.snap, later.open[o.provider])
    OBVIOUS
  <2>1. o.provider \in Provider /\ CircuitOK(o.snap, end.open[o.provider])
    BY <1>1, OpIs DEF OpOK
  <2>2. /\ end.open[o.provider] \in Nat /\ later.open[o.provider] \in Nat
        /\ end.open[o.provider] <= later.open[o.provider]
    BY <2>1, EndIs DEF Longer
  <2> QED BY <2>1, <2>2, CircuitOn
<1>3. o.op = "lanes" => \A k \in Key : LaneOK(o.rows[k], more, d + Slack, d)
  <2> SUFFICES ASSUME o.op = "lanes", NEW k \in Key
               PROVE  LaneOK(o.rows[k], more, d + Slack, d)
    OBVIOUS
  <2>1. LaneOK(o.rows[k], made, d + Slack, d)
    BY DEF OpOK
  <2>2. d + Slack \in Int /\ d \in Int /\ d + Slack <= d + Slack /\ d <= d
    BY Consts
  <2> QED BY <2>1, <2>2, LaneOn
<1>4. o.op = "cooldown" => o.until <= later.cool[o.provider][o.key] + d
  <2> SUFFICES ASSUME o.op = "cooldown"
               PROVE  o.until <= later.cool[o.provider][o.key] + d
    OBVIOUS
  <2>1. o.provider \in Provider /\ o.key \in Key /\ o.until \in Nat
    BY <1>1, OpIs
  <2> DEFINE a == end.cool[o.provider][o.key]
             b == later.cool[o.provider][o.key]
  <2>2. a \in Nat /\ b \in Nat /\ a <= b /\ o.until <= a + d
    BY <2>1, EndIs DEF Longer, OpOK
  <2> HIDE DEF a, b
  <2>3. o.until <= b + d
    BY <2>1, <2>2
  <2> QED BY <2>3 DEF b
<1> QED BY <1>1, <1>2, <1>3, <1>4 DEF OpOK

(* What a database row and a cell of memory are.                             *)
LEMMA DbIs ==
  ASSUME NEW x \in Database, NEW p \in Provider
  PROVE  /\ x.health \in [Provider -> BOOLEAN \cup {None}]
         /\ x.pin \in [Session -> Nat \cup {None}]
         /\ x.circuit \in [Provider -> Circuit \cup {None}]
         /\ x.sent \in [Provider -> [Key -> Rows]] /\ x.cool \in [Provider -> [Key -> Nat]]
         /\ \A k \in Key : x.cool[p][k] \in Nat
<1>1. /\ x.health \in [Provider -> BOOLEAN \cup {None}]
      /\ x.pin \in [Session -> Nat \cup {None}]
      /\ x.circuit \in [Provider -> Circuit \cup {None}]
      /\ x.sent \in [Provider -> [Key -> Rows]] /\ x.cool \in [Provider -> [Key -> Nat]]
  <2> DEFINE C == Circuit \cup {None}
             R == [Provider -> [Key -> Rows]]
  <2> HIDE DEF C, R
  <2>1. x \in [health : [Provider -> BOOLEAN \cup {None}], pin : [Session -> Nat \cup {None}],
               circuit : [Provider -> C], sent : R, cool : [Provider -> [Key -> Nat]]]
    BY DEF Database, C, R
  <2>2. /\ x.health \in [Provider -> BOOLEAN \cup {None}] /\ x.pin \in [Session -> Nat \cup {None}]
        /\ x.circuit \in [Provider -> C] /\ x.sent \in R
        /\ x.cool \in [Provider -> [Key -> Nat]]
    BY <2>1
  <2> QED BY <2>2 DEF C, R
<1> QED BY <1>1

(* The database.                                                            *)
LEMMA DbOn ==
  ASSUME NEW made \in Seq(Nat), NEW more, Grown(made, more),
         NEW end \in Ends, NEW later \in Ends, Longer(end, later),
         NEW lo \in Int, NEW hi \in Int, NEW lower \in Int, NEW higher \in Int,
         lo <= lower, hi <= higher, NEW x, DbOK(x, made, end, lo, hi)
  PROVE  DbOK(x, more, later, lower, higher)
<1>1. x \in Database
  BY DEF DbOK
<1>2. ASSUME NEW p \in Provider
      PROVE  x.circuit[p] # None => CircuitOK(x.circuit[p], later.open[p])
  <2>1. /\ end.open[p] \in Nat /\ later.open[p] \in Nat /\ end.open[p] <= later.open[p]
    BY EndIs DEF Longer
  <2> QED BY <2>1, CircuitOn DEF DbOK
<1>3. ASSUME NEW p \in Provider, NEW k \in Key
      PROVE  /\ LaneOK(x.sent[p][k], more, lower, higher)
             /\ x.cool[p][k] = 0 \/ x.cool[p][k] <= later.cool[p][k] + higher
  <2>1. LaneOK(x.sent[p][k], more, lower, higher)
    BY LaneOn DEF DbOK
  <2> DEFINE a == end.cool[p][k]
             b == later.cool[p][k]
             u == x.cool[p][k]
  <2>2. a \in Nat /\ b \in Nat /\ a <= b /\ u \in Nat
    BY <1>1, EndIs, DbIs DEF Longer
  <2>3. u = 0 \/ u <= a + hi
    BY DEF DbOK
  <2> HIDE DEF a, b, u
  <2>4. u = 0 \/ u <= b + higher
    BY <2>2, <2>3
  <2> QED BY <2>1, <2>4 DEF b, u
<1> QED BY <1>1, <1>2, <1>3 DEF DbOK

(* The database with one table changed.                                      *)
LEMMA DbWith ==
  ASSUME NEW x \in Database
  PROVE  /\ \A v \in [Provider -> BOOLEAN \cup {None}] : LET y == [x EXCEPT !.health = v] IN
              /\ y \in Database /\ y.circuit = x.circuit /\ y.sent = x.sent
              /\ y.cool = x.cool
         /\ \A v \in [Session -> Nat \cup {None}] : LET y == [x EXCEPT !.pin = v] IN
              /\ y \in Database /\ y.circuit = x.circuit /\ y.sent = x.sent
              /\ y.cool = x.cool /\ y.pin = v
         /\ \A v \in [Provider -> Circuit \cup {None}] : LET y == [x EXCEPT !.circuit = v] IN
              /\ y \in Database /\ y.circuit = v /\ y.sent = x.sent
              /\ y.cool = x.cool
         /\ \A v \in [Provider -> [Key -> Rows]] : LET y == [x EXCEPT !.sent = v] IN
              /\ y \in Database /\ y.circuit = x.circuit /\ y.sent = v
              /\ y.cool = x.cool
         /\ \A v \in [Provider -> [Key -> Nat]] : LET y == [x EXCEPT !.cool = v] IN
              /\ y \in Database /\ y.circuit = x.circuit /\ y.sent = x.sent
              /\ y.cool = v
<1> DEFINE H == [Provider -> BOOLEAN \cup {None}]
           P == [Session -> Nat \cup {None}]
           C == [Provider -> Circuit \cup {None}]
           S == [Provider -> [Key -> Rows]]
           L == [Provider -> [Key -> Nat]]
<1> HIDE DEF H, P, C, S, L
<1>1. Database = [health : H, pin : P, circuit : C, sent : S, cool : L]
  BY DEF Database, H, P, C, S, L
<1>2. ASSUME NEW v \in H PROVE LET y == [x EXCEPT !.health = v] IN
        /\ y \in Database /\ y.circuit = x.circuit /\ y.sent = x.sent
        /\ y.cool = x.cool
  BY <1>1
<1>3. ASSUME NEW v \in P PROVE LET y == [x EXCEPT !.pin = v] IN
        /\ y \in Database /\ y.circuit = x.circuit /\ y.sent = x.sent
        /\ y.cool = x.cool /\ y.pin = v
  BY <1>1
<1>4. ASSUME NEW v \in C PROVE LET y == [x EXCEPT !.circuit = v] IN
        /\ y \in Database /\ y.circuit = v /\ y.sent = x.sent
        /\ y.cool = x.cool
  BY <1>1
<1>5. ASSUME NEW v \in S PROVE LET y == [x EXCEPT !.sent = v] IN
        /\ y \in Database /\ y.circuit = x.circuit /\ y.sent = v
        /\ y.cool = x.cool
  BY <1>1
<1>6. ASSUME NEW v \in L PROVE LET y == [x EXCEPT !.cool = v] IN
        /\ y \in Database /\ y.circuit = x.circuit /\ y.sent = x.sent
        /\ y.cool = v
  BY <1>1
<1> QED BY <1>2, <1>3, <1>4, <1>5, <1>6 DEF H, P, C, S, L

(* apply_op keeps the database good.                                        *)
LEMMA ApplyOK ==
  ASSUME NEW made, NEW end \in Ends, NEW d \in Nat, NEW x, NEW o,
         DbOK(x, made, end, d + Slack, d), OpOK(o, made, end, d)
  PROVE  DbOK(Apply(x, o), made, end, d + Slack, d)
<1> DEFINE y == Apply(x, o)
           Same(z) == z \in Database /\ z.circuit = x.circuit /\ z.sent = x.sent
                      /\ z.cool = x.cool
<1>1. x \in Database /\ o \in Op
  BY DEF DbOK, OpOK
<1>2. ASSUME NEW z, Same(z) PROVE DbOK(z, made, end, d + Slack, d)
  BY <1>2 DEF DbOK
<1> HIDE DEF Same
<1>3. CASE o.op = "health"
  <2> DEFINE v == [x.health EXCEPT ![o.provider] = o.healthy]
  <2>1. v \in [Provider -> BOOLEAN \cup {None}]
    BY <1>1, <1>3, OpIs, DbIs
  <2>2. y = [x EXCEPT !.health = v]
    BY <1>3 DEF Apply
  <2> HIDE DEF v, y
  <2>3. Same(y)
    BY <1>1, <2>1, <2>2, DbWith DEF Same
  <2> QED BY <1>2, <2>3 DEF y
<1>4. CASE o.op = "sticky"
  <2> DEFINE v == [x.pin EXCEPT ![o.session] = o.expires]
  <2>0. x.pin \in [Session -> Nat \cup {None}]
    BY <1>1 DEF Database
  <2>1. v \in [Session -> Nat \cup {None}]
    BY <1>1, <1>4, <2>0, OpIs
  <2>2. y = [x EXCEPT !.pin = v]
    BY <1>4 DEF Apply
  <2> HIDE DEF v, y
  <2>3. Same(y)
    BY <1>1, <2>1, <2>2, DbWith DEF Same
  <2> QED BY <1>2, <2>3 DEF y
<1>5. CASE o.op = "sweep"
  <2> DEFINE v == [s \in Session |->
                     IF x.pin[s] # None /\ x.pin[s] <= o.unix THEN None ELSE x.pin[s]]
  <2>0. x.pin \in [Session -> Nat \cup {None}]
    BY <1>1 DEF Database
  <2>1. v \in [Session -> Nat \cup {None}]
    BY <2>0
  <2>2. y = [x EXCEPT !.pin = v]
    BY <1>5 DEF Apply
  <2> HIDE DEF v, y
  <2>3. Same(y)
    BY <1>1, <2>1, <2>2, DbWith DEF Same
  <2> QED BY <1>2, <2>3 DEF y
<1>6. CASE o.op = "circuit"
  <2> DEFINE v == [x.circuit EXCEPT ![o.provider] = o.snap]
  <2>0. o.provider \in Provider /\ o.snap \in Circuit /\ CircuitOK(o.snap, end.open[o.provider])
    BY <1>1, <1>6, OpIs DEF OpOK
  <2>1. x.circuit \in [Provider -> Circuit \cup {None}]
    BY <1>1, <2>0, DbIs
  <2>2. v \in [Provider -> Circuit \cup {None}]
    BY <2>0, <2>1
  <2>3. y = [x EXCEPT !.circuit = v]
    BY <1>6 DEF Apply
  <2>4. \A p \in Provider : v[p] = IF p = o.provider THEN o.snap ELSE x.circuit[p]
    BY <2>1
  <2> HIDE DEF v, y
  <2>5. /\ y \in Database /\ y.circuit = v /\ y.sent = x.sent
        /\ y.cool = x.cool
    BY <1>1, <2>2, <2>3, DbWith
  <2>6. \A p \in Provider : y.circuit[p] # None => CircuitOK(y.circuit[p], end.open[p])
    <3> SUFFICES ASSUME NEW p \in Provider, y.circuit[p] # None
                 PROVE  CircuitOK(y.circuit[p], end.open[p])
      OBVIOUS
    <3>1. CASE p = o.provider
      BY <2>0, <2>4, <2>5, <3>1
    <3>2. CASE p # o.provider
      BY <2>4, <2>5, <3>2 DEF DbOK
    <3> QED BY <3>1, <3>2
  <2>7. DbOK(y, made, end, d + Slack, d)
    BY <2>5, <2>6 DEF DbOK
  <2> QED BY <2>7 DEF y
<1>7. CASE o.op = "lanes"
  <2> DEFINE row == [k \in Key |-> IF o.rows[k] = <<>> THEN x.sent[o.provider][k] ELSE o.rows[k]]
             v == [x.sent EXCEPT ![o.provider] = row]
  <2>0. /\ o.provider \in Provider /\ o.rows \in [Key -> Rows]
        /\ \A k \in Key : LaneOK(o.rows[k], made, d + Slack, d)
    BY <1>1, <1>7, OpIs DEF OpOK
  <2>1. x.sent \in [Provider -> [Key -> Rows]]
    BY <1>1, <2>0, DbIs
  <2>2. row \in [Key -> Rows] /\ v \in [Provider -> [Key -> Rows]]
    BY <2>0, <2>1
  <2>3. y = [x EXCEPT !.sent = v]
    BY <1>7 DEF Apply
  <2>4. \A p \in Provider : v[p] = IF p = o.provider THEN row ELSE x.sent[p]
    BY <2>1
  <2>5. \A k \in Key : LaneOK(row[k], made, d + Slack, d)
    BY <2>0 DEF DbOK
  <2> HIDE DEF v, y, row
  <2>6. /\ y \in Database /\ y.circuit = x.circuit /\ y.sent = v
        /\ y.cool = x.cool
    BY <1>1, <2>2, <2>3, DbWith
  <2>7. \A p \in Provider, k \in Key : LaneOK(y.sent[p][k], made, d + Slack, d)
    BY <2>4, <2>5, <2>6 DEF DbOK
  <2>8. DbOK(y, made, end, d + Slack, d)
    BY <2>6, <2>7 DEF DbOK
  <2> QED BY <2>8 DEF y
<1>8. CASE o.op = "cooldown"
  <2> DEFINE row == [x.cool[o.provider] EXCEPT ![o.key] = o.until]
             v == [x.cool EXCEPT ![o.provider] = row]
  <2>0. /\ o.provider \in Provider /\ o.key \in Key /\ o.until \in Nat
        /\ o.until <= end.cool[o.provider][o.key] + d
    BY <1>1, <1>8, OpIs DEF OpOK
  <2>1. x.cool \in [Provider -> [Key -> Nat]]
    BY <1>1, <2>0, DbIs
  <2>2. row \in [Key -> Nat] /\ v \in [Provider -> [Key -> Nat]]
    BY <2>0, <2>1
  <2>3. y = [x EXCEPT !.cool = v]
    BY <1>8 DEF Apply
  <2>4. /\ \A p \in Provider : v[p] = IF p = o.provider THEN row ELSE x.cool[p]
        /\ \A k \in Key : row[k] = IF k = o.key THEN o.until ELSE x.cool[o.provider][k]
    BY <2>0, <2>1
  <2> HIDE DEF v, y, row
  <2>5. /\ y \in Database /\ y.circuit = x.circuit /\ y.sent = x.sent
        /\ y.cool = v
    BY <1>1, <2>2, <2>3, DbWith
  <2>6. ASSUME NEW p \in Provider, NEW k \in Key
        PROVE  y.cool[p][k] = 0 \/ y.cool[p][k] <= end.cool[p][k] + d
    <3>1. x.cool[p][k] = 0 \/ x.cool[p][k] <= end.cool[p][k] + d
      BY DEF DbOK
    <3> QED BY <2>0, <2>4, <2>5, <3>1
  <2>7. DbOK(y, made, end, d + Slack, d)
    BY <2>5, <2>6 DEF DbOK
  <2> QED BY <2>7 DEF y
<1> QED BY <1>1, <1>3, <1>4, <1>5, <1>6, <1>7, <1>8, OpIs

-----------------------------------------------------------------------------
(* Memory, as the database above.                                           *)
LEMMA MemIs ==
  ASSUME NEW m \in Memory
  PROVE  /\ m.health \in [Provider -> BOOLEAN \cup {None}]
         /\ m.pin \in [Session -> Nat \cup {None}]
         /\ m.circuit \in [Provider -> Circuit]
         /\ m.sent \in [Provider -> [Key -> Rows]] /\ m.cool \in [Provider -> [Key -> Nat]]
         /\ \A p \in Provider : m.circuit[p] \in Circuit
         /\ \A p \in Provider, k \in Key : m.cool[p][k] \in Nat /\ m.sent[p][k] \in Rows
<1> DEFINE C == Circuit
           R == Rows
           H == BOOLEAN \cup {None}
           N == Nat \cup {None}
<1> HIDE DEF C, R, H, N
<1>1. m \in [health : [Provider -> H], pin : [Session -> N], circuit : [Provider -> C],
             sent : [Provider -> [Key -> R]], cool : [Provider -> [Key -> Nat]]]
  BY DEF Memory, C, R, H, N
<1>2. /\ m.health \in [Provider -> H] /\ m.pin \in [Session -> N]
      /\ m.circuit \in [Provider -> C] /\ m.sent \in [Provider -> [Key -> R]]
      /\ m.cool \in [Provider -> [Key -> Nat]]
  BY <1>1
<1>3. /\ \A p \in Provider : m.circuit[p] \in C
      /\ \A p \in Provider, k \in Key : m.cool[p][k] \in Nat /\ m.sent[p][k] \in R
  BY <1>2
<1> QED BY <1>2, <1>3 DEF C, R, H, N

(* Memory with one of its maps changed.                                      *)
LEMMA MemWith ==
  ASSUME NEW m \in Memory
  PROVE  /\ \A v \in [Provider -> BOOLEAN \cup {None}] : LET y == [m EXCEPT !.health = v] IN
              /\ y \in Memory /\ y.circuit = m.circuit /\ y.sent = m.sent
              /\ y.cool = m.cool
         /\ \A v \in [Session -> Nat \cup {None}] : LET y == [m EXCEPT !.pin = v] IN
              /\ y \in Memory /\ y.circuit = m.circuit /\ y.sent = m.sent
              /\ y.cool = m.cool
         /\ \A v \in [Provider -> Circuit] : LET y == [m EXCEPT !.circuit = v] IN
              /\ y \in Memory /\ y.circuit = v /\ y.sent = m.sent
              /\ y.cool = m.cool
         /\ \A v \in [Provider -> [Key -> Rows]] : LET y == [m EXCEPT !.sent = v] IN
              /\ y \in Memory /\ y.circuit = m.circuit /\ y.sent = v
              /\ y.cool = m.cool
         /\ \A v \in [Provider -> [Key -> Nat]] : LET y == [m EXCEPT !.cool = v] IN
              /\ y \in Memory /\ y.circuit = m.circuit /\ y.sent = m.sent
              /\ y.cool = v
<1> DEFINE H == [Provider -> BOOLEAN \cup {None}]
           P == [Session -> Nat \cup {None}]
           C == [Provider -> Circuit]
           S == [Provider -> [Key -> Rows]]
           L == [Provider -> [Key -> Nat]]
<1> HIDE DEF H, P, C, S, L
<1>1. Memory = [health : H, pin : P, circuit : C, sent : S, cool : L]
  BY DEF Memory, H, P, C, S, L
<1>2. ASSUME NEW v \in H PROVE LET y == [m EXCEPT !.health = v] IN
        /\ y \in Memory /\ y.circuit = m.circuit /\ y.sent = m.sent
        /\ y.cool = m.cool
  BY <1>1
<1>3. ASSUME NEW v \in P PROVE LET y == [m EXCEPT !.pin = v] IN
        /\ y \in Memory /\ y.circuit = m.circuit /\ y.sent = m.sent
        /\ y.cool = m.cool
  BY <1>1
<1>4. ASSUME NEW v \in C PROVE LET y == [m EXCEPT !.circuit = v] IN
        /\ y \in Memory /\ y.circuit = v /\ y.sent = m.sent
        /\ y.cool = m.cool
  BY <1>1
<1>5. ASSUME NEW v \in S PROVE LET y == [m EXCEPT !.sent = v] IN
        /\ y \in Memory /\ y.circuit = m.circuit /\ y.sent = v
        /\ y.cool = m.cool
  BY <1>1
<1>6. ASSUME NEW v \in L PROVE LET y == [m EXCEPT !.cool = v] IN
        /\ y \in Memory /\ y.circuit = m.circuit /\ y.sent = m.sent
        /\ y.cool = v
  BY <1>1
<1> QED BY <1>2, <1>3, <1>4, <1>5, <1>6 DEF H, P, C, S, L

(* A breaker in memory.                                                     *)
LEMMA BreakerOn ==
  ASSUME NEW c, NEW end \in Nat, NEW more \in Nat, end <= more, BreakerOK(c, end)
  PROVE  BreakerOK(c, more)
<1>1. CircuitOK(c, more)
  BY CircuitOn DEF BreakerOK
<1>2. c \in Circuit /\ c.last \in Int /\ Timeout \in Nat /\ Second \in Nat
  BY Consts DEF BreakerOK, CircuitOK, Circuit
<1>3. c.state = "open" => c.last + Timeout < more + Second
  BY <1>2 DEF BreakerOK
<1> QED BY <1>1, <1>3 DEF BreakerOK

(* Memory when a send, a penalty or an opening is added elsewhere.            *)
LEMMA MemOn ==
  ASSUME NEW made \in Seq(Nat), NEW more, Grown(made, more),
         NEW end \in Ends, NEW later \in Ends, Longer(end, later),
         NEW d \in Nat, NEW m, MemOK(m, made, end, d)
  PROVE  MemOK(m, more, later, d)
<1>1. m \in Memory
  BY DEF MemOK
<1>2. ASSUME NEW p \in Provider
      PROVE  BreakerOK(m.circuit[p], later.open[p])
  <2>1. /\ end.open[p] \in Nat /\ later.open[p] \in Nat /\ end.open[p] <= later.open[p]
    BY EndIs DEF Longer
  <2> QED BY <2>1, BreakerOn DEF MemOK
<1>3. ASSUME NEW p \in Provider, NEW k \in Key
      PROVE  LaneOK(m.sent[p][k], more, d, d) /\ m.cool[p][k] <= later.cool[p][k] + d
  <2>1. d \in Int /\ d <= d /\ LaneOK(m.sent[p][k], made, d, d)
    BY DEF MemOK
  <2>2. LaneOK(m.sent[p][k], more, d, d)
    BY <2>1, LaneOn
  <2> DEFINE a == end.cool[p][k]
             b == later.cool[p][k]
             u == m.cool[p][k]
  <2>3. a \in Nat /\ b \in Nat /\ u \in Nat /\ a <= b /\ u <= a + d
    BY <1>1, EndIs, MemIs DEF Longer, MemOK
  <2> HIDE DEF a, b, u
  <2>4. u <= b + d
    BY <2>3
  <2> QED BY <2>2, <2>4 DEF b, u
<1> QED BY <1>1, <1>2, <1>3 DEF MemOK

(* An attempt under way, when time passes and others go on.                   *)
LEMMA TaskOn ==
  ASSUME NEW made \in Seq(Nat), NEW more, Grown(made, more),
         NEW end \in Ends, NEW later \in Ends, Longer(end, later),
         NEW d \in Nat, NEW t \in Nat, NEW u \in Nat, t <= u,
         NEW x \in Tasks, TaskOK(x, made, end, d, t)
  PROVE  TaskOK(x, more, later, d, u)
<1>1. x.todo # None \/ x.op # None => OpOK(x.op, more, later, d)
  BY OpOn DEF TaskOK
<1>2. x.todo # None => x.todo.unix * Second <= u
  <2> SUFFICES ASSUME x.todo # None PROVE x.todo.unix * Second <= u
    OBVIOUS
  <2>1. x.todo \in Todo
    <3> DEFINE A == Todo \cup {None}
               B == Op \cup {None}
    <3> HIDE DEF A, B
    <3>1. x \in [todo : A, op : B]
      BY DEF Tasks, A, B
    <3>2. x.todo \in A
      BY <3>1
    <3> QED BY <3>2 DEF A
  <2>2. x.todo.unix \in Nat
    BY <2>1 DEF Todo
  <2> DEFINE a == x.todo.unix * Second
  <2>3. a \in Nat /\ a <= t
    BY <2>2, Consts DEF TaskOK
  <2> HIDE DEF a
  <2>4. a <= u
    BY <2>3
  <2> QED BY <2>3, <2>4 DEF a
<1> QED BY <1>1, <1>2 DEF TaskOK

-----------------------------------------------------------------------------
(* The sequences a tick is made of: SetToSeq lists a finite set, FlattenSeq   *)
(* and \o join lists, losing and adding nothing.                             *)
Lists(f, S) == f \in Seq(S) /\ \A x \in S : \E i \in 1..Len(f) : f[i] = x

(* A finite set is listed whole.                                             *)
LEMMA SetToSeqLists ==
  ASSUME NEW S, IsFiniteSet(S) PROVE Lists(SetToSeq(S), S)
<1> DEFINE n == Cardinality(S)
           f == SetToSeq(S)
<1>1. n \in Nat /\ ExistsBijection(1..n, S)
  BY FS_CardinalityType
<1>2. \E g \in [1..n -> S] : IsInjective(g)
  BY <1>1 DEF ExistsBijection, Bijection, Injection
<1>3. f \in [1..n -> S] /\ IsInjective(f)
  BY <1>2 DEF SetToSeq
<1>4. f \in Injection(1..n, S)
  BY <1>3 DEF Injection
<1>5. Cardinality(1..n) = n
  <2>1. 1 \in Int /\ n \in Int
    BY <1>1
  <2>2. Cardinality(1..n) = IF 1 > n THEN 0 ELSE n - 1 + 1
    BY <2>1, FS_Interval
  <2> QED BY <1>1, <2>2
<1> HIDE DEF n, f
<1>6. f \in Surjection(1..n, S)
  <2>1. Cardinality(1..n) = Cardinality(S) <=> f \in Surjection(1..n, S)
    BY <1>4, FS_Injection
  <2> QED BY <1>5, <2>1 DEF n
<1>7. f \in Seq(S) /\ Len(f) = n
  BY <1>1, <1>3
<1>8. \A x \in S : \E i \in 1..Len(f) : f[i] = x
  BY <1>6, <1>7 DEF Surjection
<1> QED BY <1>7, <1>8 DEF Lists, f

(* Concatenation.                                                           *)
LEMMA Concatenated ==
  ASSUME NEW S, NEW f \in Seq(S), NEW g \in Seq(S)
  PROVE  /\ f \o g \in Seq(S) /\ Len(f \o g) = Len(f) + Len(g)
         /\ \A i \in 1..Len(f) : i \in 1..Len(f \o g) /\ (f \o g)[i] = f[i]
         /\ \A i \in 1..Len(g) : Len(f) + i \in 1..Len(f \o g) /\ (f \o g)[Len(f) + i] = g[i]
         /\ \A a \in 1..Len(f \o g) : \/ a \in 1..Len(f) /\ (f \o g)[a] = f[a]
                                      \/ a - Len(f) \in 1..Len(g) /\ (f \o g)[a] = g[a - Len(f)]
<1>1. Len(f) \in Nat /\ Len(g) \in Nat
  OBVIOUS
<1>2. f \o g \in Seq(S) /\ Len(f \o g) = Len(f) + Len(g)
  OBVIOUS
<1>3. \A a \in 1..Len(f \o g) : (f \o g)[a] = IF a <= Len(f) THEN f[a] ELSE g[a - Len(f)]
  OBVIOUS
<1>4. ASSUME NEW i \in 1..Len(f) PROVE i \in 1..Len(f \o g) /\ (f \o g)[i] = f[i]
  <2>1. i \in 1..Len(f \o g) /\ i <= Len(f)
    BY <1>1, <1>2
  <2> QED BY <1>3, <2>1
<1>5. ASSUME NEW i \in 1..Len(g)
      PROVE  Len(f) + i \in 1..Len(f \o g) /\ (f \o g)[Len(f) + i] = g[i]
  <2>1. /\ Len(f) + i \in 1..Len(f \o g) /\ ~(Len(f) + i <= Len(f)) /\ (Len(f) + i) - Len(f) = i
    BY <1>1, <1>2
  <2> QED BY <1>3, <2>1
<1>6. ASSUME NEW a \in 1..Len(f \o g)
      PROVE  \/ a \in 1..Len(f) /\ (f \o g)[a] = f[a]
             \/ a - Len(f) \in 1..Len(g) /\ (f \o g)[a] = g[a - Len(f)]
  <2>1. a <= Len(f) => a \in 1..Len(f)
    BY <1>1, <1>2
  <2>2. ~(a <= Len(f)) => a - Len(f) \in 1..Len(g)
    BY <1>1, <1>2
  <2> QED BY <1>3, <2>1, <2>2
<1> QED BY <1>2, <1>4, <1>5, <1>6

(* One position of FlattenSeq.                                              *)
FlattenStep(ss, F, i) == IF i = 1 THEN ss[i] ELSE F[i - 1] \o ss[i]

(* The recursive function exists.                                           *)
LEMMA FlattenExists ==
  ASSUME NEW ss, NEW n \in Nat
  PROVE  \E F : F = [i \in 1..n |-> FlattenStep(ss, F, i)]
<1> DEFINE Bad == {m \in Nat : ~ \E F : F = [i \in 1..m |-> FlattenStep(ss, F, i)]}
<1> SUFFICES ASSUME Bad # {} PROVE FALSE
  OBVIOUS
<1>1. PICK m \in Bad : \A k \in Bad : m <= k
  <2> HIDE DEF Bad
  <2>1. Bad \in SUBSET Nat
    BY DEF Bad
  <2> QED BY <2>1, Least
<1>2. m # 0
  <2> SUFFICES ASSUME m = 0 PROVE FALSE
    OBVIOUS
  <2> DEFINE F == [i \in 1..0 |-> <<>>]
  <2>1. F = [i \in 1..0 |-> FlattenStep(ss, F, i)]
    OBVIOUS
  <2> HIDE DEF F
  <2> QED BY <1>1, <2>1
<1>3. m - 1 \in Nat /\ m - 1 \notin Bad
  BY <1>1, <1>2
<1>4. PICK G : G = [i \in 1..(m - 1) |-> FlattenStep(ss, G, i)]
  BY <1>3
<1> DEFINE H == [i \in 1..m |-> IF i = m THEN FlattenStep(ss, G, m) ELSE G[i]]
<1>5. ASSUME NEW i \in 1..m PROVE H[i] = FlattenStep(ss, H, i)
  <2>0. m \in Nat
    OBVIOUS
  <2>1. i # 1 => i - 1 \in 1..(m - 1) /\ H[i - 1] = G[i - 1]
    BY <2>0
  <2>2. CASE i = m
    BY <2>1, <2>2 DEF FlattenStep
  <2>3. CASE i # m
    <3>1. i \in 1..(m - 1)
      BY <2>0, <2>3
    <3>2. H[i] = G[i] /\ G[i] = FlattenStep(ss, G, i)
      BY <1>4, <2>3, <3>1
    <3> QED BY <2>1, <3>2 DEF FlattenStep
  <2> QED BY <2>2, <2>3
<1>6. H = [i \in 1..m |-> FlattenStep(ss, H, i)]
  BY <1>5
<1> HIDE DEF H
<1> QED BY <1>1, <1>6

(* f is made of the members of the first n sequences.                        *)
Flat(f, S, ss, n) ==
  /\ f \in Seq(S)
  /\ \A a \in 1..Len(f) : \E i \in 1..n : \E j \in 1..Len(ss[i]) : f[a] = ss[i][j]
  /\ \A i \in 1..n : \A j \in 1..Len(ss[i]) : \E a \in 1..Len(f) : f[a] = ss[i][j]

(* FlattenSeq is made of the members of all of them.                         *)
LEMMA FlattenIs ==
  ASSUME NEW S, NEW ss \in Seq(Seq(S))
  PROVE  Flat(FlattenSeq(ss), S, ss, Len(ss))
<1> DEFINE Q == Seq(S)
<1>0. /\ Len(ss) \in Nat /\ \A i \in 1..Len(ss) : ss[i] \in Q
  OBVIOUS
<1>1. CASE Len(ss) = 0
  <2>1. ss = <<>> /\ FlattenSeq(ss) = <<>>
    BY <1>1 DEF FlattenSeq
  <2>2. <<>> \in Seq(S) /\ Len(<<>>) = 0 /\ \A i : i \notin 1..0
    OBVIOUS
  <2> QED BY <2>1, <2>2 DEF Flat
<1>2. CASE Len(ss) # 0
  <2> DEFINE F == CHOOSE F : F = [i \in 1..Len(ss) |-> FlattenStep(ss, F, i)]
  <2>1. F = [i \in 1..Len(ss) |-> FlattenStep(ss, F, i)]
    BY <1>0, FlattenExists
  <2>2. FlattenSeq(ss) = F[Len(ss)]
    BY <1>2, Zenon DEF FlattenSeq, FlattenStep
  <2> HIDE DEF F
  <2>3. \A i \in 1..Len(ss) : F[i] = FlattenStep(ss, F, i)
    BY <2>1
  <2> DEFINE Bad == {m \in 1..Len(ss) : ~Flat(F[m], S, ss, m)}
  <2>4. Bad = {}
    <3> SUFFICES ASSUME Bad # {} PROVE FALSE
      OBVIOUS
    <3>1. PICK m \in Bad : \A k \in Bad : m <= k
      <4>1. Bad \in SUBSET Nat
        BY <1>0
      <4> HIDE DEF Bad
      <4> QED BY <4>1, Least
    <3>2. m # 1
      <4> SUFFICES ASSUME m = 1 PROVE FALSE
        OBVIOUS
      <4>1. F[1] = ss[1] /\ ss[1] \in Q
        BY <1>0, <1>2, <2>3, <3>1 DEF FlattenStep
      <4>2. \A i : i \in 1..1 <=> i = 1
        OBVIOUS
      <4>3. Flat(F[1], S, ss, 1)
        BY <4>1, <4>2 DEF Flat
      <4> QED BY <3>1, <4>3
    <3>3. m \in 1..Len(ss) /\ m \in Nat /\ m - 1 \in 1..Len(ss) /\ m - 1 \notin Bad
      BY <1>0, <3>1, <3>2
    <3>4. Flat(F[m - 1], S, ss, m - 1) /\ F[m] = F[m - 1] \o ss[m] /\ ss[m] \in Seq(S)
      BY <1>0, <2>3, <3>2, <3>3 DEF FlattenStep
    <3> DEFINE f == F[m - 1]
               g == ss[m]
               h == f \o g
    <3>5. /\ f \in Seq(S) /\ g \in Seq(S) /\ Flat(f, S, ss, m - 1)
      BY <3>4 DEF Flat
    <3>6. /\ h \in Seq(S)
          /\ \A i \in 1..Len(f) : i \in 1..Len(h) /\ h[i] = f[i]
          /\ \A i \in 1..Len(g) : Len(f) + i \in 1..Len(h) /\ h[Len(f) + i] = g[i]
          /\ \A a \in 1..Len(h) : \/ a \in 1..Len(f) /\ h[a] = f[a]
                                  \/ a - Len(f) \in 1..Len(g) /\ h[a] = g[a - Len(f)]
      <4> HIDE DEF f, g, Q, Bad
      <4> QED BY <3>5, Concatenated, SMTT(30)
    <3>7. F[m] = h /\ ss[m] = g
      BY <3>4
    <3> HIDE DEF f, g, h, Q
    <3>8. ASSUME NEW a \in 1..Len(h)
          PROVE  \E i \in 1..m : \E j \in 1..Len(ss[i]) : h[a] = ss[i][j]
      <4>1. CASE a \in 1..Len(f) /\ h[a] = f[a]
        <5>1. PICK i \in 1..(m - 1) : \E j \in 1..Len(ss[i]) : f[a] = ss[i][j]
          BY <3>5, <4>1 DEF Flat
        <5>2. i \in 1..m
          BY <3>3
        <5> QED BY <4>1, <5>1, <5>2
      <4>2. CASE a - Len(f) \in 1..Len(g) /\ h[a] = g[a - Len(f)]
        <5>1. m \in 1..m
          BY <3>3
        <5> QED BY <3>7, <4>2, <5>1
      <4> QED BY <3>6, <4>1, <4>2
    <3>9. ASSUME NEW i \in 1..m, NEW j \in 1..Len(ss[i])
          PROVE  \E a \in 1..Len(h) : h[a] = ss[i][j]
      <4>1. CASE i = m
        BY <3>6, <3>7, <4>1
      <4>2. CASE i # m
        <5>1. i \in 1..(m - 1)
          BY <3>3, <4>2
        <5>2. PICK a \in 1..Len(f) : f[a] = ss[i][j]
          BY <3>5, <5>1 DEF Flat
        <5> QED BY <3>6, <5>2
      <4> QED BY <4>1, <4>2
    <3>10. Flat(h, S, ss, m)
      BY <3>6, <3>8, <3>9 DEF Flat
    <3> QED BY <3>1, <3>7, <3>10
  <2>5. Len(ss) \in 1..Len(ss)
    BY <1>0, <1>2
  <2> QED BY <2>2, <2>4, <2>5
<1> QED BY <1>1, <1>2

-----------------------------------------------------------------------------
(* What a tick makes of memory: operations that are good, and current.        *)

(* Every send of s still counted at t is in f, at most a second older.        *)
Covers(f, s, t) ==
  \A i \in 1..Len(s) : t - s[i].at < Window =>
    \E a \in 1..Len(f) : f[a].id = s[i].id /\ f[a].at >= s[i].at - Slack

(* An operation that says what memory m holds at t.                          *)
Current(o, m, t) ==
  /\ o.op = "circuit" => o.snap = m.circuit[o.provider]
  /\ o.op = "lanes" => \A k \in Key : Covers(o.rows[k], m.sent[o.provider][k], t)
  /\ o.op = "cooldown" => o.until >= m.cool[o.provider][o.key] - Slack

Taken == {o \in Op : /\ OpOK(o, sends, ends, Drift) /\ Current(o, mem, now)
                     /\ o.op \notin {"sticky", "sweep"}}

(* What restarts have cost so far.                                           *)
LEMMA DriftIs ==
  ASSUME kills \in Nat PROVE Drift \in Nat
<1>1. Slack \in Nat /\ Drift = kills * Slack
  BY Consts DEF Drift
<1> QED BY <1>1

(* The clock and its whole seconds.                                          *)
LEMMA ClockIs ==
  ASSUME Clocks
  PROVE  /\ now \in Nat /\ now >= Second /\ sends \in Seq(Nat) /\ ends \in Ends
         /\ Unix \in Nat /\ Unix >= 1 /\ Floor \in Nat /\ Floor = Unix * Second
         /\ Floor <= now /\ now - Floor <= Slack /\ Drift \in Nat
<1>1. now \in Nat /\ now >= Second /\ kills \in Nat /\ sends \in Seq(Nat) /\ ends \in Ends
  BY DEF Clocks
<1>2. Drift \in Nat
  BY <1>1, DriftIs
<1> QED BY <1>1, <1>2, Division DEF Unix, Floor

(* Records that are operations.                                              *)
LEMMA OpMade ==
  ASSUME NEW p \in Provider
  PROVE  /\ \A c \in Circuit : [op |-> "circuit", provider |-> p, snap |-> c] \in Op
         /\ \A r \in [Key -> Rows] : [op |-> "lanes", provider |-> p, rows |-> r] \in Op
         /\ \A k \in Key, u \in Nat : CooldownOp(p, k, u) \in Op
         /\ \A g \in BOOLEAN : HealthOp(p, g) \in Op
<1> DEFINE C == Circuit
           R == [Key -> Rows]
<1> HIDE DEF C, R
<1>1. Op = [op : {"health"}, provider : Provider, healthy : BOOLEAN]
           \cup [op : {"sticky"}, session : Session, expires : Nat]
           \cup [op : {"sweep"}, unix : Nat]
           \cup [op : {"circuit"}, provider : Provider, snap : C]
           \cup [op : {"lanes"}, provider : Provider, rows : R]
           \cup [op : {"cooldown"}, provider : Provider, key : Key, until : Nat]
  BY DEF Op, C, R
<1>2. ASSUME NEW c \in C PROVE [op |-> "circuit", provider |-> p, snap |-> c] \in Op
  BY <1>1
<1>3. ASSUME NEW r \in R PROVE [op |-> "lanes", provider |-> p, rows |-> r] \in Op
  BY <1>1
<1>4. ASSUME NEW k \in Key, NEW u \in Nat PROVE CooldownOp(p, k, u) \in Op
  BY <1>1 DEF CooldownOp
<1>5. ASSUME NEW g \in BOOLEAN PROVE HealthOp(p, g) \in Op
  BY <1>1 DEF HealthOp
<1> QED BY <1>2, <1>3, <1>4, <1>5 DEF C, R

(* lane_window_rows: a row holds the window, at most a second older.          *)
LEMMA RowTaken ==
  ASSUME Clocks, NEW s, NEW d \in Nat, LaneOK(s, sends, d, d)
  PROVE  /\ LaneOK(LaneWindowRow(s), sends, d + Slack, d)
         /\ Covers(LaneWindowRow(s), s, now)
<1> DEFINE T == {stamp \in Range(s) : InWindow(stamp)}
           live == Filtered(s, T)
           f == LaneWindowRow(s)
           r == Floor - now
<1>1. /\ now \in Nat /\ Floor \in Nat /\ Floor <= now /\ now - Floor <= Slack
      /\ sends \in Seq(Nat) /\ Slack \in Nat
  BY ClockIs, Consts
<1>2. r \in Int /\ r <= 0 /\ 0 - r <= Slack
  BY <1>1
<1>3. /\ LaneOK(live, sends, d, d)
      /\ \A i \in 1..Len(s) : s[i] \in T => \E a \in 1..Len(live) : live[a] = s[i]
  <2> HIDE DEF T
  <2> QED BY LaneFiltered, SMTT(30)
<1>4. f = [i \in DOMAIN live |-> [id |-> live[i].id, at |-> Floor - (now - live[i].at)]]
  BY DEF LaneWindowRow, Saved, Pruned
<1> HIDE DEF live
<1>5. live \in Rows /\ DOMAIN live = 1..Len(live)
  BY <1>3 DEF LaneOK, Rows
<1>6. \A i \in 1..Len(live) : live[i].id \in Nat /\ live[i].at \in Int
  BY <1>5, RowIs
<1> HIDE DEF f, r
<1>7. \A i \in 1..Len(live) : Floor - (now - live[i].at) = live[i].at + r
  BY <1>1, <1>6 DEF r
<1>8. Shifted(f, live, r)
  BY <1>4, <1>5, <1>7 DEF Shifted
<1>9. /\ LaneOK(f, sends, d - r, d + r) /\ Len(f) = Len(live)
      /\ \A i \in 1..Len(live) : f[i].id = live[i].id
  <2>1. d \in Int
    OBVIOUS
  <2> HIDE DEF T
  <2>2. sends \in Seq(Nat) /\ r \in Int /\ LaneOK(live, sends, d, d)
    BY <1>1, <1>2, <1>3
  <2> QED BY <1>8, <2>1, <2>2, LaneShifted
<1>10. LaneOK(f, sends, d + Slack, d)
  <2>1. /\ d - r \in Int /\ d + r \in Int /\ d + Slack \in Int /\ d \in Int
        /\ d - r <= d + Slack /\ d + r <= d
    BY <1>1, <1>2
  <2> QED BY <1>1, <1>9, <2>1, LaneWider
<1>11. Covers(f, s, now)
  <2> SUFFICES ASSUME NEW i \in 1..Len(s), now - s[i].at < Window
               PROVE  \E a \in 1..Len(f) : f[a].id = s[i].id /\ f[a].at >= s[i].at - Slack
    BY DEF Covers
  <2>1. s \in Rows /\ DOMAIN s = 1..Len(s)
    BY DEF LaneOK, Rows
  <2>2. s[i] \in T
    BY <2>1 DEF Range, InWindow
  <2>3. PICK a \in 1..Len(live) : live[a] = s[i]
    BY <1>3, <2>2
  <2>4. f[a].id = s[i].id /\ f[a].at = s[i].at + r /\ a \in 1..Len(f) /\ s[i].at \in Int
    BY <1>6, <1>8, <1>9, <2>3 DEF Shifted
  <2>5. s[i].at + r >= s[i].at - Slack
    BY <1>1, <1>2, <2>4
  <2> QED BY <2>4, <2>5
<1> QED BY <1>10, <1>11 DEF f

(* cooldown_rows: no later than memory, and at most a second earlier.         *)
LEMMA UntilTaken ==
  ASSUME Clocks, NEW until \in Nat, until > now
  PROVE  /\ CooldownRow(until) \in Nat /\ CooldownRow(until) <= until
         /\ CooldownRow(until) >= until - Slack
<1>1. /\ now \in Nat /\ Floor \in Nat /\ Floor <= now /\ now - Floor <= Slack /\ Slack \in Nat
  BY ClockIs, Consts
<1> QED BY <1>1 DEF CooldownRow

(* A list of operations that saves all of a provider.                         *)
Whole(f, p) ==
  /\ \E i \in 1..Len(f) : f[i].op = "circuit" /\ f[i].provider = p
  /\ \E i \in 1..Len(f) : f[i].op = "lanes" /\ f[i].provider = p
  /\ \A k \in Key : mem.cool[p][k] > now =>
       \E i \in 1..Len(f) : f[i].op = "cooldown" /\ f[i].provider = p /\ f[i].key = k

(* ProviderRuntime::snapshot.                                                *)
LEMMA SnapshotIs ==
  ASSUME Clocks, MemOK(mem, sends, ends, Drift), NEW p \in Provider
  PROVE  SnapshotOps(p) \in Seq(Taken) /\ Whole(SnapshotOps(p), p)
<1> DEFINE a == [op |-> "circuit", provider |-> p, snap |-> mem.circuit[p]]
           rows == [k \in Key |-> LaneWindowRow(mem.sent[p][k])]
           b == [op |-> "lanes", provider |-> p, rows |-> rows]
           K == {k \in Key : mem.cool[p][k] > now}
           CoolOf(k) == CooldownOp(p, k, CooldownRow(mem.cool[p][k]))
           CC == {CoolOf(k) : k \in K}
<1>1. /\ now \in Nat /\ sends \in Seq(Nat) /\ ends \in Ends /\ Drift \in Nat /\ mem \in Memory
      /\ Slack \in Nat /\ Second \in Nat
  BY ClockIs, Consts DEF MemOK
<1>2. a \in Taken
  <2>1. a.op = "circuit" /\ a.provider = p /\ a.snap = mem.circuit[p]
    OBVIOUS
  <2>2. a \in Op
    BY <1>1, MemIs, OpMade
  <2>3. CircuitOK(mem.circuit[p], ends.open[p])
    BY DEF MemOK, BreakerOK
  <2> HIDE DEF a
  <2>4. OpOK(a, sends, ends, Drift) /\ Current(a, mem, now)
    BY <2>1, <2>2, <2>3 DEF OpOK, Current
  <2> QED BY <2>1, <2>2, <2>4 DEF Taken
<1>3. b \in Taken
  <2>1. b.op = "lanes" /\ b.provider = p /\ b.rows = rows
    OBVIOUS
  <2>2. ASSUME NEW k \in Key
        PROVE  /\ LaneOK(rows[k], sends, Drift + Slack, Drift)
               /\ Covers(rows[k], mem.sent[p][k], now)
    <3>1. LaneOK(mem.sent[p][k], sends, Drift, Drift)
      BY DEF MemOK
    <3>2. rows[k] = LaneWindowRow(mem.sent[p][k])
      OBVIOUS
    <3> HIDE DEF rows
    <3> QED BY <1>1, <3>1, <3>2, RowTaken
  <2>3. rows \in [Key -> Rows]
    <3>1. \A k \in Key : rows[k] \in Rows
      BY <2>2 DEF LaneOK
    <3> QED BY <3>1
  <2>4. b \in Op
    <3> HIDE DEF rows
    <3> QED BY <2>3, OpMade
  <2> HIDE DEF b, rows
  <2>5. OpOK(b, sends, ends, Drift)
    BY <2>1, <2>2, <2>4 DEF OpOK
  <2>6. Current(b, mem, now)
    BY <2>1, <2>2 DEF Current
  <2> QED BY <2>1, <2>4, <2>5, <2>6 DEF Taken
<1>4. ASSUME NEW k \in K
      PROVE  /\ CoolOf(k) \in Taken /\ CoolOf(k).op = "cooldown"
             /\ CoolOf(k).provider = p /\ CoolOf(k).key = k
  <2> DEFINE u == mem.cool[p][k]
             o == CoolOf(k)
  <2>1. k \in Key /\ u \in Nat /\ u > now /\ u <= ends.cool[p][k] + Drift
    BY <1>1, MemIs DEF MemOK
  <2>2. o.op = "cooldown" /\ o.provider = p /\ o.key = k /\ o.until = CooldownRow(u)
    BY DEF CooldownOp
  <2>3. CooldownRow(u) \in Nat /\ CooldownRow(u) <= u /\ CooldownRow(u) >= u - Slack
    <3> HIDE DEF u
    <3> QED BY <2>1, UntilTaken
  <2>4. o \in Op
    BY <2>1, <2>3, OpMade
  <2>5. ends.cool[p][k] \in Nat
    BY <1>1, <2>1, EndIs
  <2> HIDE DEF o
  <2>6. o.until <= ends.cool[p][k] + Drift /\ o.until >= mem.cool[p][k] - Slack
    BY <1>1, <2>1, <2>2, <2>3, <2>5, SMTT(30)
  <2>7. OpOK(o, sends, ends, Drift) /\ Current(o, mem, now)
    BY <2>2, <2>4, <2>6 DEF OpOK, Current
  <2>8. o \in Taken
    BY <2>2, <2>4, <2>7 DEF Taken
  <2> QED BY <2>2, <2>8 DEF o
<1>5. CC \in SUBSET Taken
  BY <1>4
<1>6. IsFiniteSet(CC)
  <2> DEFINE f == [k \in K |-> CoolOf(k)]
  <2>1. IsFiniteSet(K)
    <3>1. K \in SUBSET Key /\ IsFiniteSet(Key)
      BY ConstantsAssumption
    <3> HIDE DEF K
    <3> QED BY <3>1, FS_Subset
  <2>2. f \in [K -> CC] /\ \A t \in CC : \E s \in K : f[s] = t
    <3> HIDE DEF K
    <3> QED OBVIOUS
  <2>3. f \in Surjection(K, CC)
    BY <2>2 DEF Surjection
  <2> HIDE DEF f, K, CC
  <2> QED BY <2>1, <2>3, FS_Surjection
<1> DEFINE c == SetToSeq(CC)
<1>7. Lists(c, CC)
  <2> HIDE DEF CC
  <2> QED BY <1>6, SetToSeqLists
<1>8. SnapshotOps(p) = <<a, b>> \o c
  BY DEF SnapshotOps
<1>9. /\ a.op = "circuit" /\ a.provider = p /\ b.op = "lanes" /\ b.provider = p
  OBVIOUS
<1> DEFINE h == <<a, b>>
           f == h \o c
<1>10. h \in Seq(Taken) /\ Len(h) = 2 /\ h[1] = a /\ h[2] = b
  <2> HIDE DEF a, b
  <2> QED BY <1>2, <1>3
<1>11. c \in Seq(Taken)
  <2>1. c \in Seq(CC)
    BY <1>7 DEF Lists
  <2> HIDE DEF c, CC
  <2> QED BY <1>5, <2>1
<1> HIDE DEF a, b, CC, c, h
<1>12. /\ f \in Seq(Taken)
       /\ \A i \in 1..Len(h) : i \in 1..Len(f) /\ f[i] = h[i]
       /\ \A i \in 1..Len(c) : Len(h) + i \in 1..Len(f) /\ f[Len(h) + i] = c[i]
  <2>1. h \in Seq(Taken)
    BY <1>10
  <2> QED BY <1>11, <2>1, Concatenated
<1> HIDE DEF f
<1>13. 1 \in 1..Len(h) /\ 2 \in 1..Len(h)
  BY <1>10
<1>14. /\ \E i \in 1..Len(f) : f[i].op = "circuit" /\ f[i].provider = p
       /\ \E i \in 1..Len(f) : f[i].op = "lanes" /\ f[i].provider = p
  <2>1. 1 \in 1..Len(f) /\ f[1] = a /\ 2 \in 1..Len(f) /\ f[2] = b
    BY <1>10, <1>12, <1>13
  <2>2. f[1].op = "circuit" /\ f[1].provider = p /\ f[2].op = "lanes" /\ f[2].provider = p
    BY <1>9, <2>1
  <2> QED BY <2>1, <2>2
<1>15. ASSUME NEW k \in Key, mem.cool[p][k] > now
       PROVE  \E i \in 1..Len(f) : f[i].op = "cooldown" /\ f[i].provider = p /\ f[i].key = k
  <2>1. k \in K /\ CoolOf(k) \in CC
    BY <1>15 DEF CC
  <2>2. /\ CoolOf(k).op = "cooldown" /\ CoolOf(k).provider = p /\ CoolOf(k).key = k
    BY <1>4, <2>1
  <2> HIDE DEF K, CoolOf
  <2>3. PICK i \in 1..Len(c) : c[i] = CoolOf(k)
    BY <1>7, <2>1 DEF Lists
  <2> QED BY <1>12, <2>2, <2>3
<1>16. f \in Seq(Taken) /\ Whole(f, p)
  BY <1>12, <1>14, <1>15 DEF Whole
<1> QED BY <1>8, <1>16 DEF f, h

(* persist_once: the operations of all providers.                            *)
LEMMA TickIs ==
  ASSUME Clocks, MemOK(mem, sends, ends, Drift), NEW f,
         f = FlattenSeq(SetToSeq({SnapshotOps(p) : p \in Provider}))
  PROVE  f \in Seq(Taken) /\ \A p \in Provider : Whole(f, p)
<1> DEFINE D == {SnapshotOps(p) : p \in Provider}
           ss == SetToSeq(D)
           g == [p \in Provider |-> SnapshotOps(p)]
<1>1. IsFiniteSet(D)
  <2>1. g \in [Provider -> D] /\ \A t \in D : \E s \in Provider : g[s] = t
    OBVIOUS
  <2>2. g \in Surjection(Provider, D)
    BY <2>1 DEF Surjection
  <2>3. IsFiniteSet(Provider)
    BY ConstantsAssumption
  <2> HIDE DEF D, g
  <2> QED BY <2>2, <2>3, FS_Surjection
<1>2. \A p \in Provider : SnapshotOps(p) \in D /\ Whole(SnapshotOps(p), p)
  BY SnapshotIs
<1>3. D \in SUBSET Seq(Taken)
  BY SnapshotIs
<1>4. f = FlattenSeq(ss)
  OBVIOUS
<1> HIDE DEF D
<1>5. Lists(ss, D)
  BY <1>1, SetToSeqLists
<1> HIDE DEF ss
<1>6. ss \in Seq(Seq(Taken))
  BY <1>3, <1>5 DEF Lists
<1>7. Flat(f, Taken, ss, Len(ss))
  BY <1>4, <1>6, FlattenIs
<1>8. ASSUME NEW p \in Provider PROVE Whole(f, p)
  <2>1. PICK n \in 1..Len(ss) : ss[n] = SnapshotOps(p)
    BY <1>2, <1>5 DEF Lists
  <2>2. Whole(ss[n], p)
    BY <1>2, <2>1
  <2>3. \A j \in 1..Len(ss[n]) : \E a \in 1..Len(f) : f[a] = ss[n][j]
    BY <1>7 DEF Flat
  <2> DEFINE s == ss[n]
  <2> HIDE DEF s
  <2>4. Whole(s, p) /\ \A j \in 1..Len(s) : \E a \in 1..Len(f) : f[a] = s[j]
    BY <2>2, <2>3 DEF s
  <2>5. \E i \in 1..Len(f) : f[i].op = "circuit" /\ f[i].provider = p
    <3>1. PICK j \in 1..Len(s) : s[j].op = "circuit" /\ s[j].provider = p
      BY <2>4 DEF Whole
    <3> QED BY <2>4, <3>1
  <2>6. \E i \in 1..Len(f) : f[i].op = "lanes" /\ f[i].provider = p
    <3>1. PICK j \in 1..Len(s) : s[j].op = "lanes" /\ s[j].provider = p
      BY <2>4 DEF Whole
    <3> QED BY <2>4, <3>1
  <2>7. ASSUME NEW k \in Key, mem.cool[p][k] > now
        PROVE  \E i \in 1..Len(f) : f[i].op = "cooldown" /\ f[i].provider = p /\ f[i].key = k
    <3>1. PICK j \in 1..Len(s) : s[j].op = "cooldown" /\ s[j].provider = p /\ s[j].key = k
      BY <2>4, <2>7 DEF Whole
    <3> QED BY <2>4, <3>1
  <2> QED BY <2>5, <2>6, <2>7 DEF Whole
<1> QED BY <1>7, <1>8 DEF Flat

-----------------------------------------------------------------------------
(* Breakers: each outcome leaves a good one, that ends with its last opening.  *)

(* A breaker that opens now.                                                 *)
LEMMA OpenedOK ==
  ASSUME Clocks, NEW c \in Circuit, c.failures <= MaxFailures
  PROVE  Opened(c).state = "open" /\ BreakerOK(Opened(c), now + Timeout)
<1>1. /\ now \in Nat /\ Unix \in Nat /\ Unix >= 1 /\ Floor \in Nat /\ Floor <= now
      /\ Floor = Unix * Second /\ Timeout \in Nat /\ Second \in Nat /\ Second >= 1
  BY ClockIs, Consts
<1> DEFINE e == Opened(c)
<1> HIDE DEF Unix
<1>2. /\ e \in Circuit /\ e.state = "open" /\ e.last = now /\ e.unix = Unix
      /\ e.failures = c.failures
  <2> DEFINE u == Unix
             t == now
  <2>1. u \in Nat /\ t \in Int /\ e = [c EXCEPT !.state = "open", !.last = t, !.unix = u, !.good = 0]
    BY <1>1 DEF Opened
  <2> HIDE DEF u, t, e
  <2>2. /\ e \in Circuit /\ e.state = "open" /\ e.last = t /\ e.unix = u
        /\ e.failures = c.failures
    BY <2>1 DEF Circuit
  <2> QED BY <2>2 DEF u, t
<1> HIDE DEF e
<1>3. Floor + Timeout <= now + Timeout /\ now + Timeout < (now + Timeout) + Second
  BY <1>1
<1>4. CircuitOK(e, now + Timeout)
  BY <1>1, <1>2, <1>3 DEF CircuitOK
<1>5. BreakerOK(e, now + Timeout)
  BY <1>2, <1>3, <1>4 DEF BreakerOK
<1> QED BY <1>2, <1>5 DEF e

(* record_failure, record_success and allow.                                 *)
LEMMA CircuitMoves ==
  ASSUME Clocks, NEW c, NEW end \in Nat, BreakerOK(c, end)
  PROVE  \A e \in {RecordFailure(c), RecordSuccess(c), c, [c EXCEPT !.state = "half", !.good = 0]} :
           e \in Circuit /\
           BreakerOK(e, IF e.state = "open" /\ c.state # "open" THEN now + Timeout ELSE end)
<1>1. /\ c \in Circuit /\ c.failures <= MaxFailures
      /\ (c.state = "closed" => c.failures < MaxFailures)
  BY DEF BreakerOK, CircuitOK
<1>2. c.state \in {"closed", "half", "open"} /\ c.failures \in Nat /\ c.good \in Nat
  BY <1>1 DEF Circuit
<1>3. MaxFailures \in Nat \ {0} /\ now \in Nat
  BY Consts, ClockIs
<1> DEFINE Good(e) == e \in Circuit /\
      BreakerOK(e, IF e.state = "open" /\ c.state # "open" THEN now + Timeout ELSE end)
<1>4. ASSUME NEW e, e \in Circuit, e.state # "open", e.failures <= MaxFailures,
             e.state = "closed" => e.failures < MaxFailures
      PROVE  Good(e)
  BY <1>4 DEF BreakerOK, CircuitOK
<1>5. Good(c)
  BY <1>1 DEF BreakerOK
<1>6. ASSUME NEW b \in Circuit, b.failures <= MaxFailures, c.state # "open"
      PROVE  Good(Opened(b))
  <2>1. Opened(b).state = "open" /\ BreakerOK(Opened(b), now + Timeout)
    BY <1>6, OpenedOK
  <2> QED BY <1>6, <2>1 DEF BreakerOK, CircuitOK
<1> HIDE DEF Good
<1>7. Good(RecordFailure(c))
  <2> DEFINE b == [c EXCEPT !.failures = @ + 1]
  <2>1. b \in Circuit /\ b.state = c.state /\ b.failures = c.failures + 1
    BY <1>1 DEF Circuit
  <2>2. CASE c.state = "closed" /\ c.failures + 1 >= MaxFailures
    <3>1. RecordFailure(c) = Opened(b)
      BY <2>2 DEF RecordFailure
    <3> HIDE DEF b
    <3>2. b.failures <= MaxFailures
      BY <1>1, <1>2, <1>3, <2>1, <2>2
    <3> QED BY <1>6, <2>1, <2>2, <3>1, <3>2
  <2>3. CASE c.state = "closed" /\ ~(c.failures + 1 >= MaxFailures)
    <3>1. RecordFailure(c) = b
      BY <2>3 DEF RecordFailure
    <3> HIDE DEF b
    <3>2. b.failures < MaxFailures /\ b.failures <= MaxFailures
      BY <1>2, <1>3, <2>1, <2>3
    <3> QED BY <1>4, <2>1, <2>3, <3>1, <3>2
  <2>4. CASE c.state = "half"
    <3>1. RecordFailure(c) = Opened(c)
      BY <2>4 DEF RecordFailure
    <3> QED BY <1>1, <1>6, <2>4, <3>1
  <2>5. CASE c.state = "open"
    BY <1>5, <2>5 DEF RecordFailure
  <2> QED BY <1>2, <2>2, <2>3, <2>4, <2>5
<1>8. Good(RecordSuccess(c))
  <2>1. CASE c.state = "closed"
    <3> DEFINE b == [c EXCEPT !.failures = 0]
    <3>1. RecordSuccess(c) = b /\ b \in Circuit /\ b.state = "closed" /\ b.failures = 0
      BY <1>1, <2>1 DEF RecordSuccess, Circuit
    <3> HIDE DEF b
    <3>2. b.failures < MaxFailures /\ b.failures <= MaxFailures
      BY <1>3, <3>1
    <3> QED BY <1>4, <3>1, <3>2
  <2>2. CASE c.state = "half" /\ c.good + 1 >= HalfOpenMax
    <3> DEFINE b == [c EXCEPT !.state = "closed", !.failures = 0, !.good = 0]
    <3>1. RecordSuccess(c) = b /\ b \in Circuit /\ b.state = "closed" /\ b.failures = 0
      BY <1>1, <2>2 DEF RecordSuccess, Circuit
    <3> HIDE DEF b
    <3>2. b.failures < MaxFailures /\ b.failures <= MaxFailures
      BY <1>3, <3>1
    <3> QED BY <1>4, <3>1, <3>2
  <2>3. CASE c.state = "half" /\ ~(c.good + 1 >= HalfOpenMax)
    <3> DEFINE b == [c EXCEPT !.good = @ + 1]
    <3>1. RecordSuccess(c) = b /\ b \in Circuit /\ b.state = "half" /\ b.failures = c.failures
      BY <1>1, <2>3 DEF RecordSuccess, Circuit
    <3> HIDE DEF b
    <3> QED BY <1>1, <1>4, <3>1
  <2>4. CASE c.state = "open"
    BY <1>5, <2>4 DEF RecordSuccess
  <2> QED BY <1>2, <2>1, <2>2, <2>3, <2>4
<1>9. Good([c EXCEPT !.state = "half", !.good = 0])
  <2> DEFINE b == [c EXCEPT !.state = "half", !.good = 0]
  <2>1. b \in Circuit /\ b.state = "half" /\ b.failures = c.failures
    BY <1>1 DEF Circuit
  <2> HIDE DEF b
  <2>2. Good(b)
    BY <1>1, <1>4, <2>1
  <2> QED BY <2>2 DEF b
<1> QED BY <1>5, <1>7, <1>8, <1>9 DEF Good

(* The later of two ends.                                                   *)
LEMMA MaxIs ==
  ASSUME NEW a \in Nat, NEW b \in Nat
  PROVE  /\ Max({a, b}) \in Nat /\ Max({a, b}) >= a /\ Max({a, b}) >= b
         /\ Max({a, b}) = a \/ Max({a, b}) = b
<1>1. \E x \in {a, b} : \A y \in {a, b} : x >= y
  OBVIOUS
<1>2. Max({a, b}) \in {a, b} /\ \A y \in {a, b} : Max({a, b}) >= y
  BY <1>1 DEF Max
<1> QED BY <1>2

(* The ends of penalties when one is added.                                  *)
OpenSet(y, end, p, v) == y = [end EXCEPT !.open[p] = v]
CoolSet(y, end, p, k, v) == y = [end EXCEPT !.cool[p][k] = v]

(* A later end of an open circuit moves that end alone.                      *)
LEMMA OpenMoved ==
  ASSUME NEW end \in Ends, NEW p \in Provider, NEW v \in Nat, v >= end.open[p], NEW y,
         OpenSet(y, end, p, v)
  PROVE  /\ y \in Ends /\ Longer(end, y) /\ y.cool = end.cool
         /\ \A q \in Provider : y.open[q] = IF q = p THEN v ELSE end.open[q]
<1>1. \A q \in Provider : /\ end.open[q] \in Nat
                          /\ \A k \in Key : end.cool[q][k] \in Nat
  BY EndIs
<1>2. /\ y \in Ends /\ y.cool = end.cool
      /\ \A q \in Provider : y.open[q] = IF q = p THEN v ELSE end.open[q]
  BY DEF Ends, OpenSet
<1>3. Longer(end, y)
  BY <1>1, <1>2 DEF Longer
<1> QED BY <1>2, <1>3

(* The use of a session moves the end of its pin alone.                       *)
LEMMA UsedIs ==
  ASSUME NEW end \in Ends, NEW then \in Todo \cup {None}
  PROVE  /\ Used(end, then) \in Ends /\ Used(end, then).cool = end.cool
         /\ Used(end, then).open = end.open
         /\ \A s \in Session : Used(end, then).pin[s] >= end.pin[s]
         /\ then # None /\ then.do = "pin" =>
              Used(end, then).pin[then.session] >= then.unix + Ttl
<1>1. /\ end.pin \in [Session -> Nat] /\ \A s \in Session : end.pin[s] \in Nat
  BY DEF Ends
<1>2. CASE then # None /\ then.do = "pin"
  <2>1. then.session \in Session /\ then.unix \in Nat
    BY <1>2 DEF Todo
  <2> DEFINE v == Max({end.pin[then.session], then.unix + Ttl})
  <2>2. v \in Nat /\ v >= end.pin[then.session] /\ v >= then.unix + Ttl
    BY <1>1, <2>1, MaxIs, Consts
  <2>3. Used(end, then) = [end EXCEPT !.pin[then.session] = v]
    BY <1>2 DEF Used
  <2> HIDE DEF v
  <2> QED BY <1>1, <2>1, <2>2, <2>3 DEF Ends
<1>3. CASE ~(then # None /\ then.do = "pin")
  BY <1>1, <1>3 DEF Used
<1> QED BY <1>2, <1>3

(* A later end of a cooldown moves that end alone.                           *)
LEMMA CoolMoved ==
  ASSUME NEW end \in Ends, NEW p \in Provider, NEW k \in Key, NEW v \in Nat,
         v >= end.cool[p][k], NEW y,
         CoolSet(y, end, p, k, v)
  PROVE  /\ y \in Ends /\ Longer(end, y) /\ y.open = end.open
         /\ \A q \in Provider, j \in Key :
              y.cool[q][j] = IF q = p /\ j = k THEN v ELSE end.cool[q][j]
<1>1. \A q \in Provider : /\ end.open[q] \in Nat
                          /\ \A j \in Key : end.cool[q][j] \in Nat
  BY EndIs
<1>2. /\ y \in Ends /\ y.open = end.open
      /\ \A q \in Provider, j \in Key :
           y.cool[q][j] = IF q = p /\ j = k THEN v ELSE end.cool[q][j]
  BY DEF Ends, CoolSet
<1>3. Longer(end, y)
  BY <1>1, <1>2 DEF Longer
<1> QED BY <1>2, <1>3

-----------------------------------------------------------------------------
(* Queues of good operations.                                                *)
LEMMA QueueMoves ==
  ASSUME NEW made, NEW end, NEW d, NEW q, QueueOK(q, made, end, d)
  PROVE  /\ \A o : OpOK(o, made, end, d) => QueueOK(Append(q, o), made, end, d)
         /\ q # <<>> => OpOK(Head(q), made, end, d) /\ QueueOK(Tail(q), made, end, d)
         /\ \A r : QueueOK(r, made, end, d) => QueueOK(q \o r, made, end, d)
<1>1. q \in Seq(Op) /\ Len(q) \in Nat /\ \A i \in 1..Len(q) : OpOK(q[i], made, end, d)
  BY DEF QueueOK
<1>2. ASSUME NEW o, OpOK(o, made, end, d) PROVE QueueOK(Append(q, o), made, end, d)
  <2> DEFINE e == Append(q, o)
  <2>0. o \in Op
    BY <1>2 DEF OpOK
  <2>1. /\ e \in Seq(Op) /\ Len(e) = Len(q) + 1 /\ e[Len(q) + 1] = o
        /\ \A i \in 1..Len(q) : e[i] = q[i]
    BY <1>1, <2>0
  <2> HIDE DEF e
  <2>2. ASSUME NEW i \in 1..Len(e) PROVE OpOK(e[i], made, end, d)
    <3>1. i = Len(q) + 1 \/ i \in 1..Len(q)
      BY <1>1, <2>1
    <3> QED BY <1>1, <1>2, <2>1, <3>1
  <2>3. QueueOK(e, made, end, d)
    BY <2>1, <2>2 DEF QueueOK
  <2> QED BY <2>3 DEF e
<1>3. ASSUME q # <<>> PROVE OpOK(Head(q), made, end, d) /\ QueueOK(Tail(q), made, end, d)
  <2> DEFINE e == Tail(q)
  <2>1. 1 \in 1..Len(q) /\ Head(q) = q[1]
    BY <1>1, <1>3
  <2>2. e \in Seq(Op) /\ Len(e) = Len(q) - 1 /\ \A i \in 1..Len(e) : e[i] = q[i + 1]
    BY <1>1, <1>3
  <2> HIDE DEF e
  <2>3. ASSUME NEW i \in 1..Len(e) PROVE OpOK(e[i], made, end, d)
    <3>1. i + 1 \in 1..Len(q)
      BY <1>1, <2>2
    <3> QED BY <1>1, <2>2, <3>1
  <2>4. QueueOK(e, made, end, d)
    BY <2>2, <2>3 DEF QueueOK
  <2> QED BY <1>1, <2>1, <2>4 DEF e
<1>4. ASSUME NEW r, QueueOK(r, made, end, d) PROVE QueueOK(q \o r, made, end, d)
  <2> DEFINE h == q \o r
  <2>1. r \in Seq(Op) /\ \A i \in 1..Len(r) : OpOK(r[i], made, end, d)
    BY <1>4 DEF QueueOK
  <2>2. /\ h \in Seq(Op)
        /\ \A a \in 1..Len(h) : \/ a \in 1..Len(q) /\ h[a] = q[a]
                                \/ a - Len(q) \in 1..Len(r) /\ h[a] = r[a - Len(q)]
    BY <1>1, <2>1, Concatenated
  <2> HIDE DEF h
  <2>3. QueueOK(h, made, end, d)
    BY <1>1, <2>1, <2>2 DEF QueueOK
  <2> QED BY <2>3 DEF h
<1> QED BY <1>2, <1>3, <1>4

(* A queue when a send or a penalty is added.                                *)
LEMMA QueueOn ==
  ASSUME NEW made \in Seq(Nat), NEW more, Grown(made, more),
         NEW end \in Ends, NEW later \in Ends, Longer(end, later),
         NEW d \in Nat, NEW q, QueueOK(q, made, end, d)
  PROVE  QueueOK(q, more, later, d)
<1>1. \A i \in 1..Len(q) : OpOK(q[i], more, later, d)
  BY OpOn DEF QueueOK
<1> QED BY <1>1 DEF QueueOK

(* Nothing longer than it was.                                               *)
LEMMA LongerSame ==
  ASSUME NEW end \in Ends PROVE Longer(end, end)
<1>1. \A p \in Provider : /\ end.open[p] \in Nat
                          /\ \A k \in Key : end.cool[p][k] \in Nat
  BY EndIs
<1> QED BY <1>1 DEF Longer

(* The invariant's parts while the process lives on: whatever a step does not  *)
(* touch stays good.                                                         *)
LEMMA Onward ==
  ASSUME IInv, Grown(sends, sends'), ends' \in Ends, Longer(ends, ends'),
         kills' = kills, now' \in Nat, now <= now'
  PROVE  /\ Drift' = Drift /\ Drift \in Nat /\ sends' \in Seq(Nat)
         /\ MemOK(mem, sends', ends', Drift')
         /\ \A t \in Task : TaskOK(task[t], sends', ends', Drift', now')
         /\ QueueOK(queue, sends', ends', Drift')
         /\ batch # None => QueueOK(batch, sends', ends', Drift')
         /\ \A o : OpOK(o, sends, ends, Drift) => OpOK(o, sends', ends', Drift')
         /\ db # None \/ up # "down" => DbOK(db, sends', ends', IF up = "up" THEN Drift' + Slack ELSE Drift',
                                                 IF up = "up" THEN Drift' ELSE Drift' - Slack)
<1>1. Clocks /\ Process /\ Stored
  BY DEF IInv
<1>2. /\ sends \in Seq(Nat) /\ ends \in Ends /\ Drift \in Nat /\ now \in Nat
      /\ Slack \in Nat
  BY <1>1, ClockIs, Consts
<1>3. Drift' = Drift
  BY DEF Drift
<1>4. sends' \in Seq(Nat)
  <2>1. CASE sends' = sends
    BY <1>2, <2>1
  <2>2. ASSUME NEW t \in Nat, sends' = Append(sends, t) PROVE sends' \in Seq(Nat)
    BY <1>2, <2>2
  <2> QED BY <2>1, <2>2 DEF Grown
<1>5. MemOK(mem, sends', ends', Drift)
  BY <1>1, <1>2, MemOn DEF Process
<1>6. ASSUME NEW t \in Task PROVE TaskOK(task[t], sends', ends', Drift, now')
  <2>1. task[t] \in Tasks /\ TaskOK(task[t], sends, ends, Drift, now)
    BY <1>1 DEF Process
  <2> QED BY <1>2, <2>1, TaskOn
<1>7. QueueOK(queue, sends', ends', Drift) /\ (batch # None => QueueOK(batch, sends', ends', Drift))
  BY <1>1, <1>2, QueueOn DEF Process
<1>8. \A o : OpOK(o, sends, ends, Drift) => OpOK(o, sends', ends', Drift)
  BY <1>2, OpOn
<1>9. db # None \/ up # "down" => DbOK(db, sends', ends', IF up = "up" THEN Drift + Slack ELSE Drift,
                                           IF up = "up" THEN Drift ELSE Drift - Slack)
  <2> DEFINE lo == IF up = "up" THEN Drift + Slack ELSE Drift
             hi == IF up = "up" THEN Drift ELSE Drift - Slack
  <2>1. lo \in Int /\ hi \in Int
    BY <1>2
  <2>2. db # None \/ up # "down" => DbOK(db, sends, ends, lo, hi)
    BY <1>1 DEF Stored
  <2> HIDE DEF lo, hi
  <2>3. lo <= lo /\ hi <= hi
    BY <2>1
  <2>4. db # None \/ up # "down" => DbOK(db, sends', ends', lo, hi)
    BY <1>2, <2>1, <2>2, <2>3, DbOn
  <2> QED BY <2>4 DEF lo, hi
<1> QED BY <1>2, <1>3, <1>4, <1>5, <1>6, <1>7, <1>8, <1>9

(* The invariant after a step of a serving process, from its parts.            *)
LEMMA Served ==
  ASSUME IInv, up = "up", up' = up, left' = left, now' = now, kills' = kills,
         Grown(sends, sends'), ends' \in Ends, Longer(ends, ends'),
         \A p \in Provider : ends'.open[p] <= now + Timeout,
         MemOK(mem', sends', ends', Drift'), task' \in [Task -> Tasks],
         \A t \in Task : TaskOK(task'[t], sends', ends', Drift', now'),
         QueueOK(queue', sends', ends', Drift'),
         batch' # None => QueueOK(batch', sends', ends', Drift'),
         DbOK(db', sends', ends', Drift' + Slack, Drift'),
         KeptCounted'
  PROVE  IInv'
<1>1. now \in Nat /\ now >= Second /\ kills \in Nat
  BY DEF IInv, Clocks
<1>2. now' \in Nat /\ now <= now'
  BY <1>1
<1>3. sends' \in Seq(Nat)
  BY <1>2, Onward
<1>4. Clocks'
  BY <1>1, <1>3 DEF Clocks
<1>5. Places'
  BY DEF IInv, Places, DbOK
<1>6. Process'
  BY DEF Process
<1>7. Stored'
  BY DEF Stored
<1> QED BY <1>4, <1>5, <1>6, <1>7 DEF IInv

(* The lanes a step leaves alone stay counted.                                *)
LEMMA KeptSame ==
  ASSUME IInv, kept' = kept, sends' = sends, kills' = kills, now' \in Nat, now <= now',
         mem'.sent = mem.sent
  PROVE  KeptCounted'
<1>1. Drift' = Drift
  BY DEF Drift
<1>2. KeptCounted /\ now \in Nat /\ sends \in Seq(Nat) /\ Drift \in Nat /\ Window \in Nat
  BY ClockIs, Consts DEF IInv
<1>3. ASSUME NEW x \in kept, now' - sends[x.id] < Window - Drift
      PROVE  Holds(mem.sent[x.provider][x.key], x.id)
  <2>1. x.id \in 1..Len(sends)
    BY <1>2 DEF KeptCounted
  <2>2. sends[x.id] \in Nat
    BY <1>2, <2>1
  <2>3. now - sends[x.id] < Window - Drift
    BY <1>2, <1>3, <2>2
  <2> QED BY <1>2, <2>3 DEF KeptCounted
<1> QED BY <1>1, <1>2, <1>3 DEF KeptCounted

(* The parts of the invariant of a serving process.                           *)
Standing ==
  /\ Clocks /\ MemOK(mem, sends, ends, Drift) /\ mem \in Memory
  /\ task \in [Task -> Tasks] /\ ends \in Ends /\ sends \in Seq(Nat)
  /\ now \in Nat /\ now <= now /\ Drift \in Nat
  /\ \A p \in Provider : ends.open[p] <= now + Timeout
  /\ DbOK(db, sends, ends, Drift + Slack, Drift)
  /\ Grown(sends, sends) /\ Longer(ends, ends)
  /\ \A t \in Task : TaskOK(task[t], sends, ends, Drift, now)
  /\ QueueOK(queue, sends, ends, Drift)
  /\ batch # None => QueueOK(batch, sends, ends, Drift)

(* The invariant gives them.                                                 *)
LEMMA Parts ==
  ASSUME IInv, up = "up" PROVE Standing
<1>1. Clocks /\ Process /\ Stored
  BY DEF IInv
<1>2. ends \in Ends /\ sends \in Seq(Nat) /\ now \in Nat /\ Drift \in Nat
  BY <1>1, ClockIs
<1>3. /\ MemOK(mem, sends, ends, Drift) /\ task \in [Task -> Tasks]
      /\ \A t \in Task : TaskOK(task[t], sends, ends, Drift, now)
      /\ QueueOK(queue, sends, ends, Drift)
      /\ batch # None => QueueOK(batch, sends, ends, Drift)
  BY <1>1 DEF Process
<1>4. DbOK(db, sends, ends, Drift + Slack, Drift)
  BY <1>1 DEF Stored
<1>5. now <= now /\ Grown(sends, sends) /\ Longer(ends, ends) /\ mem \in Memory
  BY <1>2, <1>3, LongerSame DEF Grown, MemOK
<1>6. \A p \in Provider : ends.open[p] <= now + Timeout
  BY <1>1 DEF Clocks
<1> QED BY <1>1, <1>2, <1>3, <1>4, <1>5, <1>6 DEF Standing

(* An attempt that ends leaves nothing.                                      *)
LEMMA IdleIs ==
  Idle \in Tasks /\ Idle.todo = None /\ Idle.op = None
  /\ \A made, end, d, t : TaskOK(Idle, made, end, d, t)
BY DEF Tasks, TaskOK, Idle

(* The operation after the last memory change.                               *)
LEMMA LastOpOK ==
  ASSUME IInv, NEW t \in Task, LastOp(t) PROVE IInv'
<1>1. /\ up = "up" /\ task[t].op # None /\ queue' = Append(queue, task[t].op)
      /\ task' = [task EXCEPT ![t] = Idle]
      /\ UNCHANGED <<now, up, left, mem, db, batch, sends, kept, ends, kills>>
  BY DEF LastOp, history
<1>2. Standing
  BY <1>1, Parts
<1>3. Drift' = Drift
  BY <1>1 DEF Drift
<1>4. OpOK(task[t].op, sends, ends, Drift)
  BY <1>1, <1>2 DEF TaskOK, Standing
<1>5. QueueOK(queue', sends, ends, Drift)
  BY <1>1, <1>2, <1>4, QueueMoves DEF Standing
<1>6. task' \in [Task -> Tasks] /\ \A s \in Task : TaskOK(task'[s], sends, ends, Drift, now)
  BY <1>1, <1>2, IdleIs DEF Standing
<1>7. KeptCounted'
  BY <1>1, <1>2, KeptSame DEF Standing
<1> QED BY <1>1, <1>2, <1>3, <1>5, <1>6, <1>7, Served DEF Standing

(* Where an attempt stands.                                                  *)
LEMMA TaskMade ==
  ASSUME NEW a \in Todo \cup {None}, NEW o \in Op \cup {None}
  PROVE  LET x == [todo |-> a, op |-> o] IN x \in Tasks /\ x.todo = a /\ x.op = o
<1> DEFINE A == Todo \cup {None}
           B == Op \cup {None}
<1>1. Tasks = [todo : A, op : B]
  BY DEF Tasks
<1> HIDE DEF A, B
<1>2. a \in A /\ o \in B
  BY DEF A, B
<1> QED BY <1>1, <1>2

(* Begin, for an outcome c of the provider's breaker.                         *)
Begun(t, p, good, c, then) ==
  /\ up = "up"
  /\ mem' = [[mem EXCEPT !.health = [@ EXCEPT ![p] = good]]
               EXCEPT !.circuit = [@ EXCEPT ![p] = c]]
  /\ task' = [task EXCEPT ![t] = [todo |-> then, op |-> HealthOp(p, good)]]
  /\ ends' = Used(IF c.state = "open" /\ mem.circuit[p].state # "open"
                  THEN [ends EXCEPT !.open[p] = now + Timeout] ELSE ends, then)
  /\ UNCHANGED <<now, up, left, db, queue, batch, sends, kept, kills>>

(* The first step of an attempt's bookkeeping keeps the invariant.           *)
LEMMA BegunOK ==
  ASSUME IInv, NEW t \in Task, NEW p \in Provider, NEW good \in BOOLEAN,
         NEW then \in Todo \cup {None}, then # None => then.unix = Unix,
         NEW c \in Circuit,
         BreakerOK(c, IF c.state = "open" /\ mem.circuit[p].state # "open"
                      THEN now + Timeout ELSE ends.open[p]),
         Begun(t, p, good, c, then)
  PROVE  IInv'
<1>1. Standing
  BY Parts DEF Begun
<1>2. /\ now' = now /\ up = "up" /\ up' = up /\ left' = left /\ db' = db /\ queue' = queue
      /\ batch' = batch /\ sends' = sends /\ kept' = kept /\ kills' = kills
  BY DEF Begun
<1>3. now \in Nat /\ ends \in Ends /\ Timeout \in Nat /\ Drift' = Drift /\ Drift \in Nat
  BY <1>1, <1>2, Consts DEF Standing, Drift
<1> DEFINE opens == c.state = "open" /\ mem.circuit[p].state # "open"
           e == IF opens THEN [ends EXCEPT !.open[p] = now + Timeout] ELSE ends
<1>0. /\ e \in Ends /\ Longer(ends, e) /\ e.cool = ends.cool
      /\ \A q \in Provider : e.open[q] = IF opens /\ q = p THEN now + Timeout ELSE ends.open[q]
  <2>1. CASE opens
    <3>1. e = [ends EXCEPT !.open[p] = now + Timeout]
      BY <2>1
    <3>2. now + Timeout \in Nat /\ now + Timeout >= ends.open[p]
      <4>1. ends.open[p] \in Nat /\ ends.open[p] <= now + Timeout
        BY <1>1, <1>3, EndIs DEF Standing
      <4> QED BY <1>3, <4>1
    <3> DEFINE v == now + Timeout
    <3> HIDE DEF v, e
    <3>3. v \in Nat /\ v >= ends.open[p] /\ OpenSet(e, ends, p, v)
      BY <3>1, <3>2 DEF v, OpenSet
    <3>4. /\ e \in Ends /\ Longer(ends, e) /\ e.cool = ends.cool
          /\ \A q \in Provider : e.open[q] = IF q = p THEN v ELSE ends.open[q]
      BY <1>3, <3>3, OpenMoved
    <3> QED BY <2>1, <3>4 DEF v
  <2>2. CASE ~opens
    BY <1>1, <1>3, <2>2 DEF Standing
  <2> QED BY <2>1, <2>2
<1>4. /\ ends' \in Ends /\ Longer(ends, ends')
      /\ ends'.cool = ends.cool
      /\ \A q \in Provider : ends'.open[q] = IF opens /\ q = p THEN now + Timeout ELSE ends.open[q]
  <2>1. ends' = Used(e, then)
    BY DEF Begun
  <2> HIDE DEF e, opens
  <2>2. ends' \in Ends /\ ends'.cool = e.cool /\ ends'.open = e.open
    BY <1>0, <2>1, UsedIs
  <2> QED BY <1>0, <2>2 DEF Longer
<1> HIDE DEF opens
<1>5. \A q \in Provider : ends'.open[q] <= now + Timeout
  <2>1. now + Timeout <= now + Timeout
    BY <1>3
  <2> QED BY <1>1, <1>4, <2>1 DEF Standing
<1>6. /\ MemOK(mem, sends, ends', Drift)
      /\ \A s \in Task : TaskOK(task[s], sends, ends', Drift, now)
      /\ QueueOK(queue, sends, ends', Drift)
      /\ batch # None => QueueOK(batch, sends, ends', Drift)
      /\ DbOK(db, sends, ends', Drift + Slack, Drift)
  BY <1>1, <1>2, <1>3, <1>4, Onward DEF Standing
<1>7. MemOK(mem', sends, ends', Drift) /\ mem'.sent = mem.sent
  <2> DEFINE h == [mem.health EXCEPT ![p] = good]
             cs == [mem.circuit EXCEPT ![p] = c]
             m == [mem EXCEPT !.health = h]
  <2>1. mem \in Memory
    BY <1>1 DEF Standing
  <2>2. /\ h \in [Provider -> BOOLEAN \cup {None}] /\ cs \in [Provider -> Circuit]
        /\ \A q \in Provider : cs[q] = IF q = p THEN c ELSE mem.circuit[q]
    BY <2>1, MemIs
  <2> HIDE DEF h
  <2>3. /\ m \in Memory /\ m.circuit = mem.circuit /\ m.sent = mem.sent
        /\ m.cool = mem.cool
    BY <2>1, <2>2, MemWith
  <2>4. mem' = [m EXCEPT !.circuit = cs]
    BY <2>1, <2>3 DEF Begun, h
  <2> HIDE DEF m, cs
  <2>5. /\ mem' \in Memory /\ mem'.circuit = cs /\ mem'.sent = mem.sent
        /\ mem'.cool = mem.cool
    BY <2>2, <2>3, <2>4, MemWith
  <2>6. ASSUME NEW q \in Provider PROVE BreakerOK(mem'.circuit[q], ends'.open[q])
    <3>1. CASE q = p
      BY <1>4, <2>2, <2>5, <3>1 DEF opens
    <3>2. CASE q # p
      BY <1>6, <2>2, <2>5, <3>2 DEF MemOK
    <3> QED BY <3>1, <3>2
  <2> QED BY <1>6, <2>5, <2>6 DEF MemOK
<1>8. task' \in [Task -> Tasks] /\ \A s \in Task : TaskOK(task'[s], sends, ends', Drift, now)
  <2> DEFINE o == HealthOp(p, good)
             x == [todo |-> then, op |-> o]
  <2>1. o \in Op /\ o.op = "health"
    BY OpMade DEF HealthOp
  <2>2. OpOK(o, sends, ends', Drift)
    <3> HIDE DEF o
    <3> QED BY <2>1 DEF OpOK
  <2>3. task' = [task EXCEPT ![t] = x]
    BY DEF Begun
  <2> HIDE DEF o
  <2>4. x \in Tasks /\ x.todo = then /\ x.op = o
    BY <2>1, TaskMade
  <2>5. Unix * Second <= now
    BY <1>1, ClockIs DEF Standing
  <2> HIDE DEF x
  <2>6. TaskOK(x, sends, ends', Drift, now)
    BY <2>2, <2>4, <2>5 DEF TaskOK
  <2> QED BY <1>1, <1>6, <2>3, <2>4, <2>6 DEF Standing
<1>9. KeptCounted'
  BY <1>1, <1>2, <1>3, <1>7, KeptSame DEF Standing
<1> QED BY <1>1, <1>2, <1>3, <1>4, <1>5, <1>6, <1>7, <1>8, <1>9, Served DEF Standing

(* finish_success, finish_failure, record_attempt and probe_once.              *)
LEMMA AttemptOK ==
  ASSUME IInv, NEW t \in Task,
         FinishSuccess(t) \/ FinishFailure(t) \/ RecordAttempt(t) \/ ProbeOnce(t)
  PROVE  IInv'
<1>1. up = "up"
  BY DEF FinishSuccess, FinishFailure, RecordAttempt, ProbeOnce, Begin
<1>2. Standing
  BY <1>1, Parts
<1>3. mem \in Memory /\ Clocks /\ Unix \in Nat
  BY <1>2, ClockIs DEF Standing
<1>4. ASSUME NEW p \in Provider
      PROVE  \A e \in {RecordFailure(mem.circuit[p]), RecordSuccess(mem.circuit[p]), mem.circuit[p]} :
               /\ e \in Circuit
               /\ BreakerOK(e, IF e.state = "open" /\ mem.circuit[p].state # "open"
                               THEN now + Timeout ELSE ends.open[p])
  <2>1. BreakerOK(mem.circuit[p], ends.open[p]) /\ ends.open[p] \in Nat
    BY <1>2, EndIs DEF Standing, MemOK
  <2> DEFINE c == mem.circuit[p]
             n == ends.open[p]
  <2> HIDE DEF c, n
  <2>2. BreakerOK(c, n) /\ n \in Nat
    BY <2>1 DEF c, n
  <2>3. \A e \in {RecordFailure(c), RecordSuccess(c), c, [c EXCEPT !.state = "half", !.good = 0]} :
          e \in Circuit /\
          BreakerOK(e, IF e.state = "open" /\ c.state # "open" THEN now + Timeout ELSE n)
    BY <1>3, <2>2, CircuitMoves
  <2> QED BY <2>3 DEF c, n
<1>5. \A s \in Session : Pin(s) \in Todo \cup {None} /\ Pin(s).unix = Unix
  BY <1>3 DEF Pin, Todo
<1>6. \A p \in Provider, k \in Key, b \in Backoffs :
        Cool(p, k, b) \in Todo \cup {None} /\ Cool(p, k, b).unix = Unix
  BY <1>3, Consts DEF Cool, Todo
<1>7. None \in Todo \cup {None}
  OBVIOUS
<1>8. ASSUME NEW p \in Provider, NEW good \in BOOLEAN, NEW then \in Todo \cup {None},
             then # None => then.unix = Unix,
             \/ Begin(t, p, good, RecordSuccess, then) \/ Begin(t, p, good, RecordFailure, then)
             \/ Begin(t, p, good, Unmoved, then)
      PROVE  IInv'
  <2> DEFINE Made(c) == Begun(t, p, good, c, then)
  <2>0. /\ mem.health \in [Provider -> BOOLEAN \cup {None}]
        /\ mem.circuit \in [Provider -> Circuit]
        /\ DOMAIN mem = {"health", "pin", "circuit", "sent", "cool"}
    BY <1>3, MemIs DEF Memory
  <2>1. CASE Begin(t, p, good, RecordSuccess, then)
    <3> DEFINE c == RecordSuccess(mem.circuit[p])
    <3>1. mem' = [mem EXCEPT !.health[p] = good, !.circuit[p] = c] /\ mem'.circuit[p] = c
      BY <2>0, <2>1 DEF Begin
    <3>2. Made(c)
      <4> HIDE DEF c
      <4> QED BY <2>0, <2>1, <3>1 DEF Begin, Begun
    <3>3. c \in Circuit /\ BreakerOK(c, IF c.state = "open" /\ mem.circuit[p].state # "open"
                                        THEN now + Timeout ELSE ends.open[p])
      BY <1>4
    <3> HIDE DEF c
    <3> QED BY <1>8, <3>2, <3>3, BegunOK
  <2>2. CASE Begin(t, p, good, RecordFailure, then)
    <3> DEFINE c == RecordFailure(mem.circuit[p])
    <3>1. mem' = [mem EXCEPT !.health[p] = good, !.circuit[p] = c] /\ mem'.circuit[p] = c
      BY <2>0, <2>2 DEF Begin
    <3>2. Made(c)
      <4> HIDE DEF c
      <4> QED BY <2>0, <2>2, <3>1 DEF Begin, Begun
    <3>3. c \in Circuit /\ BreakerOK(c, IF c.state = "open" /\ mem.circuit[p].state # "open"
                                        THEN now + Timeout ELSE ends.open[p])
      BY <1>4
    <3> HIDE DEF c
    <3> QED BY <1>8, <3>2, <3>3, BegunOK
  <2>3. CASE Begin(t, p, good, Unmoved, then)
    <3> DEFINE c == mem.circuit[p]
    <3>1. mem' = [mem EXCEPT !.health[p] = good, !.circuit[p] = c] /\ mem'.circuit[p] = c
      BY <2>0, <2>3 DEF Begin, Unmoved
    <3>2. Made(c)
      <4> HIDE DEF c
      <4> QED BY <2>0, <2>3, <3>1 DEF Begin, Begun
    <3>3. c \in Circuit /\ BreakerOK(c, IF c.state = "open" /\ mem.circuit[p].state # "open"
                                        THEN now + Timeout ELSE ends.open[p])
      BY <1>4
    <3> HIDE DEF c
    <3> QED BY <1>8, <3>2, <3>3, BegunOK
  <2> QED BY <1>8, <2>1, <2>2, <2>3
<1>9. CASE FinishSuccess(t)
  <2>1. PICK p \in Provider, s \in Session : Begin(t, p, TRUE, RecordSuccess, Pin(s))
    BY <1>9 DEF FinishSuccess
  <2>2. Pin(s) \in Todo \cup {None} /\ Pin(s).unix = Unix
    BY <1>5
  <2> QED BY <1>8, <2>1, <2>2
<1>10. CASE FinishFailure(t)
  <2>1. PICK p \in Provider, k \in Key, b \in Backoffs :
          Begin(t, p, FALSE, RecordFailure, Cool(p, k, b))
    BY <1>10 DEF FinishFailure
  <2>2. Cool(p, k, b) \in Todo \cup {None} /\ Cool(p, k, b).unix = Unix
    BY <1>6
  <2> QED BY <1>8, <2>1, <2>2
<1>11. CASE RecordAttempt(t)
  <2>1. PICK p \in Provider : \/ Begin(t, p, TRUE, RecordSuccess, None)
                              \/ Begin(t, p, FALSE, RecordFailure, None)
    BY <1>11 DEF RecordAttempt
  <2> QED BY <1>7, <1>8, <2>1
<1>12. CASE ProbeOnce(t)
  <2>1. PICK p \in Provider, good \in BOOLEAN : Begin(t, p, good, Unmoved, None)
    BY <1>12 DEF ProbeOnce
  <2> QED BY <1>7, <1>8, <2>1
<1> QED BY <1>9, <1>10, <1>11, <1>12

(* A step of a serving process that only changes a provider's cooldown and the *)
(* history of its end.                                                       *)
LEMMA PenalizedOK ==
  ASSUME IInv, up = "up", NEW p \in Provider, NEW k \in Key, NEW b \in Nat,
         mem' = Penalized(mem, p, k, b), ends' = Penalized(ends, p, k, b),
         UNCHANGED <<now, up, left, db, sends, kept, kills>>
  PROVE  /\ ends' \in Ends /\ Longer(ends, ends') /\ MemOK(mem', sends', ends', Drift')
         /\ \A q \in Provider : ends'.open[q] <= now + Timeout
         /\ ends'.cool[p][k] >= now + b
         /\ KeptCounted'
<1>1. Standing
  BY Parts
<1>2. /\ mem \in Memory /\ ends \in Ends /\ now \in Nat /\ Drift \in Nat /\ Drift' = Drift
      /\ sends \in Seq(Nat)
  BY <1>1 DEF Standing, Drift
<1> DEFINE m == mem.cool[p][k]
           e == ends.cool[p][k]
           n == now + b
           vm == Max({m, n})
           ve == Max({e, n})
<1>3. m \in Nat /\ e \in Nat /\ n \in Nat /\ m <= e + Drift
  BY <1>1, <1>2, MemIs, EndIs DEF Standing, MemOK
<1>4. mem' = [mem EXCEPT !.cool[p][k] = vm] /\ ends' = [ends EXCEPT !.cool[p][k] = ve]
  BY DEF Penalized
<1> HIDE DEF m, e, n
<1>5. /\ vm \in Nat /\ vm >= n /\ (vm = m \/ vm = n)
      /\ ve \in Nat /\ ve >= n /\ ve >= e
  BY <1>3, MaxIs
<1> HIDE DEF vm, ve
<1>6. vm <= ve + Drift
  BY <1>2, <1>3, <1>5
<1>7. CoolSet(ends', ends, p, k, ve) /\ ve >= ends.cool[p][k]
  BY <1>4, <1>5 DEF CoolSet, e
<1>8. /\ ends' \in Ends /\ Longer(ends, ends') /\ ends'.open = ends.open
     
      /\ \A q \in Provider, j \in Key :
           ends'.cool[q][j] = IF q = p /\ j = k THEN ve ELSE ends.cool[q][j]
  BY <1>2, <1>5, <1>7, CoolMoved
<1>9. MemOK(mem, sends, ends', Drift)
  <2>1. Grown(sends, sends') /\ now' \in Nat /\ now <= now' /\ kills' = kills
    BY <1>1 DEF Standing
  <2> QED BY <1>2, <1>8, <2>1, Onward
<1> DEFINE v == [mem.cool EXCEPT ![p] = [mem.cool[p] EXCEPT ![k] = vm]]
<1>10. /\ v \in [Provider -> [Key -> Nat]]
       /\ \A q \in Provider, j \in Key :
            v[q][j] = IF q = p /\ j = k THEN vm ELSE mem.cool[q][j]
  <2>1. mem.cool \in [Provider -> [Key -> Nat]]
    BY <1>2, MemIs
  <2> QED BY <1>5, <2>1
<1>11. mem' = [mem EXCEPT !.cool = v]
  BY <1>4
<1> HIDE DEF v
<1>12. /\ mem' \in Memory /\ mem'.circuit = mem.circuit /\ mem'.sent = mem.sent
       /\ mem'.cool = v
  <2> DEFINE y == [mem EXCEPT !.cool = v]
  <2>1. /\ y \in Memory /\ y.circuit = mem.circuit /\ y.sent = mem.sent
        /\ y.cool = v
    BY <1>2, <1>10, MemWith
  <2> QED BY <1>11, <2>1
<1>13. ASSUME NEW q \in Provider, NEW j \in Key
       PROVE  mem'.cool[q][j] <= ends'.cool[q][j] + Drift
  <2>1. CASE q = p /\ j = k
    BY <1>6, <1>8, <1>10, <1>12, <2>1
  <2>2. CASE ~(q = p /\ j = k)
    <3>1. mem.cool[q][j] <= ends'.cool[q][j] + Drift
      BY <1>9 DEF MemOK
    <3> QED BY <1>10, <1>12, <2>2, <3>1
  <2> QED BY <2>1, <2>2
<1>14. MemOK(mem', sends, ends', Drift)
  BY <1>9, <1>12, <1>13 DEF MemOK
<1>15. ends'.cool[p][k] >= now + b
  BY <1>5, <1>8 DEF n
<1>16. KeptCounted'
  BY <1>1, <1>2, <1>12, KeptSame DEF Standing
<1> QED BY <1>1, <1>2, <1>8, <1>14, <1>15, <1>16 DEF Standing

(* enter_cooldown.                                                          *)
LEMMA EnterCooldownOK ==
  ASSUME IInv, NEW p \in Provider, NEW k \in Key, NEW b \in Backoffs, EnterCooldown(p, k, b)
  PROVE  IInv'
<1>1. /\ up = "up" /\ mem' = Penalized(mem, p, k, b) /\ ends' = Penalized(ends, p, k, b)
      /\ UNCHANGED <<now, up, left, db, queue, task, batch, sends, kept, kills>>
  BY DEF EnterCooldown
<1>2. Standing
  BY <1>1, Parts
<1>3. b \in Nat
  BY Consts
<1>4. /\ ends' \in Ends /\ Longer(ends, ends') /\ MemOK(mem', sends', ends', Drift')
      /\ \A q \in Provider : ends'.open[q] <= now + Timeout
      /\ KeptCounted'
  BY <1>1, <1>3, PenalizedOK
<1>5. /\ Drift' = Drift /\ \A s \in Task : TaskOK(task[s], sends, ends', Drift, now)
      /\ QueueOK(queue, sends, ends', Drift)
      /\ batch # None => QueueOK(batch, sends, ends', Drift)
      /\ DbOK(db, sends, ends', Drift + Slack, Drift)
  BY <1>1, <1>2, <1>4, Onward DEF Standing
<1> QED BY <1>1, <1>2, <1>4, <1>5, Served DEF Standing

(* What an attempt has to do, by its kind.                                    *)
LEMMA TodoIs ==
  ASSUME NEW x \in Tasks, x.todo # None
  PROVE  /\ x.todo.unix \in Nat
         /\ x.todo.do = "pin" => x.todo.session \in Session
         /\ x.todo.do = "cool" => x.todo.provider \in Provider /\ x.todo.key \in Key
                                  /\ x.todo.backoff \in Nat
<1> DEFINE A == Todo \cup {None}
           B == Op \cup {None}
<1> HIDE DEF A, B
<1>1. x \in [todo : A, op : B]
  BY DEF Tasks, A, B
<1>2. x.todo \in A
  BY <1>1
<1>3. x.todo \in Todo
  BY <1>2 DEF A
<1> QED BY <1>3 DEF Todo

(* Pins and sweeps as operations.                                            *)
LEMMA PinOpMade ==
  /\ \A s \in Session, n \in Nat : StickyOp(s, n) \in Op /\ StickyOp(s, n).op = "sticky"
  /\ \A n \in Nat : [op |-> "sweep", unix |-> n] \in Op
<1> DEFINE C == Circuit
           R == [Key -> Rows]
<1> HIDE DEF C, R
<1>1. Op = [op : {"health"}, provider : Provider, healthy : BOOLEAN]
           \cup [op : {"sticky"}, session : Session, expires : Nat]
           \cup [op : {"sweep"}, unix : Nat]
           \cup [op : {"circuit"}, provider : Provider, snap : C]
           \cup [op : {"lanes"}, provider : Provider, rows : R]
           \cup [op : {"cooldown"}, provider : Provider, key : Key, until : Nat]
  BY DEF Op, C, R
<1>2. ASSUME NEW s \in Session, NEW n \in Nat
      PROVE  StickyOp(s, n) \in Op /\ StickyOp(s, n).op = "sticky"
  BY <1>1 DEF StickyOp
<1>3. ASSUME NEW n \in Nat PROVE [op |-> "sweep", unix |-> n] \in Op
  BY <1>1
<1> QED BY <1>2, <1>3

(* set_sticky.                                                              *)
LEMMA SetStickyOK ==
  ASSUME IInv, NEW t \in Task, SetSticky(t) PROVE IInv'
<1> DEFINE s == task[t].todo.session
           n == task[t].todo.unix + Ttl
           o == StickyOp(s, n)
           x == [todo |-> None, op |-> o]
           v == [mem.pin EXCEPT ![s] = n]
<1>1. /\ up = "up" /\ task[t].todo # None /\ task[t].todo.do = "pin"
      /\ mem' = [mem EXCEPT !.pin[s] = n] /\ task' = [task EXCEPT ![t] = x]
      /\ queue' = Append(queue, task[t].op)
      /\ UNCHANGED <<now, up, left, db, batch, sends, kept, ends, kills>>
  BY DEF SetSticky
<1>2. Standing
  BY <1>1, Parts
<1>3. Drift' = Drift /\ mem \in Memory /\ task[t] \in Tasks
  BY <1>1, <1>2 DEF Drift, Standing
<1>4. s \in Session /\ n \in Nat
  <2>1. task[t].todo # None /\ task[t].todo.do = "pin"
    BY <1>1
  <2>2. task[t].todo.unix \in Nat /\ s \in Session
    BY <1>3, <2>1, TodoIs
  <2>3. Ttl \in Nat
    BY Consts
  <2> QED BY <2>2, <2>3
<1>5. mem' = [mem EXCEPT !.pin = v]
  BY <1>1
<1> HIDE DEF s, n
<1>6. v \in [Session -> Nat \cup {None}]
  BY <1>3, <1>4, MemIs
<1> HIDE DEF v
<1>7. /\ mem' \in Memory /\ mem'.circuit = mem.circuit /\ mem'.sent = mem.sent
      /\ mem'.cool = mem.cool
  BY <1>3, <1>5, <1>6, MemWith
<1>8. MemOK(mem', sends, ends, Drift)
  BY <1>2, <1>7 DEF MemOK, Standing
<1>9. QueueOK(queue', sends, ends, Drift)
  <2>1. OpOK(task[t].op, sends, ends, Drift)
    BY <1>1, <1>2 DEF TaskOK, Standing
  <2> QED BY <1>1, <1>2, <2>1, QueueMoves DEF Standing
<1>10. x \in Tasks /\ TaskOK(x, sends, ends, Drift, now)
  <2>1. o \in Op /\ o.op = "sticky"
    BY <1>4, PinOpMade
  <2> HIDE DEF o
  <2>2. OpOK(o, sends, ends, Drift)
    BY <2>1 DEF OpOK
  <2>3. x \in Tasks /\ x.todo = None /\ x.op = o
    BY <2>1, TaskMade
  <2> HIDE DEF x
  <2> QED BY <2>2, <2>3 DEF TaskOK
<1> HIDE DEF x
<1>11. task' \in [Task -> Tasks] /\ \A a \in Task : TaskOK(task'[a], sends, ends, Drift, now)
  BY <1>1, <1>2, <1>10 DEF Standing
<1>12. KeptCounted'
  BY <1>1, <1>2, <1>7, KeptSame DEF Standing
<1> QED BY <1>1, <1>2, <1>3, <1>8, <1>9, <1>11, <1>12, Served DEF Standing

(* penalize.                                                                *)
LEMMA PenalizeOK ==
  ASSUME IInv, NEW t \in Task, Penalize(t) PROVE IInv'
<1> DEFINE p == task[t].todo.provider
           k == task[t].todo.key
           b == task[t].todo.backoff
           u == task[t].todo.unix * Second
           o == CooldownOp(p, k, u + b)
           x == [todo |-> None, op |-> o]
<1>1. /\ up = "up" /\ task[t].todo # None /\ task[t].todo.do = "cool"
      /\ mem' = Penalized(mem, p, k, b) /\ ends' = Penalized(ends, p, k, b)
      /\ task' = [task EXCEPT ![t] = x] /\ queue' = Append(queue, task[t].op)
      /\ UNCHANGED <<now, up, left, db, batch, sends, kept, kills>>
  BY DEF Penalize
<1>2. Standing
  BY <1>1, Parts
<1>3. Drift' = Drift /\ Drift \in Nat /\ now \in Nat /\ task[t] \in Tasks
  BY <1>1, <1>2 DEF Drift, Standing
<1>4. p \in Provider /\ k \in Key /\ b \in Nat /\ task[t].todo.unix \in Nat
  BY <1>1, <1>3, TodoIs
<1>5. u \in Nat /\ u <= now
  <2>1. task[t].todo.unix * Second <= now
    BY <1>1, <1>2 DEF TaskOK, Standing
  <2> QED BY <1>4, <2>1, Consts
<1> HIDE DEF p, k, b, u
<1>6. /\ ends' \in Ends /\ Longer(ends, ends') /\ MemOK(mem', sends', ends', Drift')
      /\ \A q \in Provider : ends'.open[q] <= now + Timeout
      /\ ends'.cool[p][k] >= now + b /\ KeptCounted'
  BY <1>1, <1>4, PenalizedOK
<1>7. /\ \A s \in Task : TaskOK(task[s], sends, ends', Drift, now)
      /\ QueueOK(queue, sends, ends', Drift)
      /\ batch # None => QueueOK(batch, sends, ends', Drift)
      /\ DbOK(db, sends, ends', Drift + Slack, Drift)
  BY <1>1, <1>2, <1>6, Onward DEF Standing
<1>8. QueueOK(queue', sends, ends', Drift)
  <2>1. OpOK(task[t].op, sends, ends', Drift)
    BY <1>1, <1>7 DEF TaskOK
  <2> QED BY <1>1, <1>7, <2>1, QueueMoves
<1>9. x \in Tasks /\ TaskOK(x, sends, ends', Drift, now)
  <2>1. u + b \in Nat
    BY <1>4, <1>5
  <2>2. ends'.cool[p][k] \in Nat
    BY <1>4, <1>6, EndIs
  <2>3. o \in Op /\ o.op = "cooldown" /\ o.provider = p /\ o.key = k /\ o.until = u + b
    BY <1>4, <2>1, OpMade DEF CooldownOp
  <2>4. u + b <= ends'.cool[p][k] + Drift
    BY <1>3, <1>4, <1>5, <1>6, <2>2
  <2> HIDE DEF o
  <2>5. OpOK(o, sends, ends', Drift)
    BY <2>3, <2>4 DEF OpOK
  <2>6. x \in Tasks /\ x.todo = None /\ x.op = o
    BY <2>3, TaskMade
  <2> HIDE DEF x
  <2> QED BY <2>5, <2>6 DEF TaskOK
<1> HIDE DEF x
<1>10. task' \in [Task -> Tasks] /\ \A a \in Task : TaskOK(task'[a], sends, ends', Drift, now)
  BY <1>1, <1>2, <1>7, <1>9 DEF Standing
<1> QED BY <1>1, <1>2, <1>3, <1>6, <1>7, <1>8, <1>10, Served DEF Standing

(* allow.                                                                   *)
LEMMA AllowOK ==
  ASSUME IInv, NEW p \in Provider, Allow(p) PROVE IInv'
<1> DEFINE c == mem.circuit[p]
           e == [c EXCEPT !.state = "half", !.good = 0]
           v == [mem.circuit EXCEPT ![p] = e]
<1>1. /\ up = "up"
      /\ mem' = [mem EXCEPT !.circuit[p].state = "half", !.circuit[p].good = 0]
      /\ UNCHANGED <<now, up, left, db, queue, task, batch, sends, kept, ends, kills>>
  BY DEF Allow
<1>2. Standing
  BY <1>1, Parts
<1>3. Drift' = Drift /\ mem \in Memory /\ Clocks /\ ends.open[p] \in Nat
  BY <1>1, <1>2, EndIs DEF Drift, Standing
<1>4. BreakerOK(c, ends.open[p])
  BY <1>2 DEF Standing, MemOK
<1>5. e \in Circuit /\ e.state = "half" /\ BreakerOK(e, ends.open[p])
  <2>1. c \in Circuit
    BY <1>3, MemIs
  <2> HIDE DEF c
  <2>2. e.state = "half"
    BY <2>1 DEF Circuit
  <2> DEFINE n == ends.open[p]
  <2> HIDE DEF n
  <2>3. \A d \in {RecordFailure(c), RecordSuccess(c), c, e} :
          d \in Circuit /\
          BreakerOK(d, IF d.state = "open" /\ c.state # "open" THEN now + Timeout ELSE n)
    <3>1. n \in Nat /\ BreakerOK(c, n)
      BY <1>3, <1>4 DEF n
    <3> QED BY <1>3, <3>1, CircuitMoves
  <2>4. e \in Circuit /\ BreakerOK(e, n)
    BY <2>2, <2>3
  <2> QED BY <2>2, <2>4 DEF n
<1>6. mem.circuit \in [Provider -> Circuit]
  BY <1>3, MemIs
<1>7. mem' = [mem EXCEPT !.circuit = v]
  <2>1. DOMAIN mem = {"health", "pin", "circuit", "sent", "cool"}
    BY <1>3 DEF Memory
  <2>2. mem.circuit[p] \in Circuit
    BY <1>6
  <2> QED BY <1>1, <1>6, <2>1, <2>2
<1> HIDE DEF e
<1>8. /\ v \in [Provider -> Circuit]
      /\ \A q \in Provider : v[q] = IF q = p THEN e ELSE mem.circuit[q]
  BY <1>5, <1>6
<1> HIDE DEF v
<1>9. /\ mem' \in Memory /\ mem'.circuit = v /\ mem'.sent = mem.sent
      /\ mem'.cool = mem.cool
  BY <1>3, <1>7, <1>8, MemWith
<1>10. ASSUME NEW q \in Provider PROVE BreakerOK(mem'.circuit[q], ends.open[q])
  <2>1. CASE q = p
    BY <1>5, <1>8, <1>9, <2>1
  <2>2. CASE q # p
    BY <1>2, <1>8, <1>9, <2>2 DEF MemOK, Standing
  <2> QED BY <2>1, <2>2
<1>11. MemOK(mem', sends, ends, Drift)
  BY <1>2, <1>9, <1>10 DEF MemOK, Standing
<1>12. KeptCounted'
  BY <1>1, <1>2, <1>9, KeptSame DEF Standing
<1> QED BY <1>1, <1>2, <1>3, <1>11, <1>12, Served DEF Standing

(* What pruning leaves of a window.                                          *)
LEMMA PrunedIs ==
  ASSUME NEW made, NEW s, NEW d \in Nat, LaneOK(s, made, d, d)
  PROVE  /\ LaneOK(Pruned(s), made, d, d)
         /\ \A i \in 1..Len(s) : InWindow(s[i]) =>
              \E a \in 1..Len(Pruned(s)) : Pruned(s)[a] = s[i]
<1> DEFINE T == {stamp \in Range(s) : InWindow(stamp)}
           f == Filtered(s, T)
<1>1. f = Pruned(s)
  BY DEF Pruned
<1>2. s \in Rows /\ DOMAIN s = 1..Len(s)
  BY DEF LaneOK, Rows
<1>3. \A i \in 1..Len(s) : InWindow(s[i]) => s[i] \in T
  BY <1>2 DEF Range
<1> HIDE DEF T
<1>4. LaneOK(f, made, d, d)
  BY LaneFiltered
<1>5. \A i \in 1..Len(s) : s[i] \in T => \E a \in 1..Len(f) : f[a] = s[i]
  <2> DEFINE R == [id : Nat, at : Int]
  <2>1. s \in Seq(R)
    BY <1>2 DEF Rows
  <2> HIDE DEF R
  <2>2. Part(f, R, s, T, Len(s))
    BY <2>1, FilteredIs
  <2> QED BY <2>2 DEF Part
<1> HIDE DEF f
<1> QED BY <1>1, <1>3, <1>4, <1>5

(* A send that may still count survives the pruning of its window.            *)
LEMMA PrunedHolds ==
  ASSUME NEW made \in Seq(Nat), NEW s, NEW d \in Nat, LaneOK(s, made, d, d), now \in Nat,
         NEW id, Holds(s, id), now - made[id] < Window - d
  PROVE  Holds(Pruned(s), id)
<1>1. s \in Rows /\ Window \in Nat
  BY Consts DEF LaneOK
<1>2. PICK i \in 1..Len(s) : s[i].id = id
  BY DEF Holds
<1>3. id \in 1..Len(made) /\ made[id] - d <= s[i].at
  BY <1>2 DEF LaneOK
<1> DEFINE at == s[i].at
           m == made[id]
<1>4. at \in Int /\ m \in Nat
  <2>1. at \in Int
    BY <1>1, RowIs
  <2>2. m \in Nat
    BY <1>3
  <2> QED BY <2>1, <2>2
<1>5. now - s[i].at < Window
  <2>1. now - m < Window - d /\ m - d <= at
    BY <1>3
  <2> HIDE DEF at, m
  <2>2. now - at < Window
    BY <1>1, <1>4, <2>1
  <2> QED BY <2>2 DEF at
<1>6. PICK a \in 1..Len(Pruned(s)) : Pruned(s)[a] = s[i]
  BY <1>5, PrunedIs DEF InWindow
<1> QED BY <1>2, <1>6 DEF Holds

(* try_take.                                                                *)
LEMMA SendOK ==
  ASSUME IInv, NEW p \in Provider, NEW k \in Key, Send(p, k) PROVE IInv'
<1> DEFINE s == mem.sent[p][k]
           live == Pruned(s)
           e == Append(live, [id |-> Len(sends) + 1, at |-> now])
           row == [mem.sent[p] EXCEPT ![k] = e]
           v == [mem.sent EXCEPT ![p] = row]
           new == [id |-> Len(sends) + 1, provider |-> p, key |-> k]
<1>1. /\ up = "up" /\ Len(live) < Rpm /\ mem' = [mem EXCEPT !.sent[p][k] = e]
      /\ sends' = Append(sends, now) /\ kept' = kept \cup {new}
      /\ UNCHANGED <<now, up, left, db, queue, task, batch, ends, kills>>
  BY DEF Send
<1>2. Standing
  BY <1>1, Parts
<1>3. /\ Drift' = Drift /\ Drift \in Nat /\ mem \in Memory /\ now \in Nat /\ sends \in Seq(Nat)
      /\ ends \in Ends /\ Len(sends) \in Nat
  BY <1>1, <1>2 DEF Drift, Standing
<1>4. Grown(sends, sends') /\ Longer(ends, ends) /\ now <= now
  BY <1>1, <1>2, <1>3 DEF Grown, Standing
<1>5. /\ \A t \in Task : TaskOK(task[t], sends', ends, Drift, now)
      /\ QueueOK(queue, sends', ends, Drift) /\ MemOK(mem, sends', ends, Drift)
      /\ batch # None => QueueOK(batch, sends', ends, Drift)
      /\ DbOK(db, sends', ends, Drift + Slack, Drift)
  BY <1>1, <1>3, <1>4, Onward
<1>6. LaneOK(s, sends, Drift, Drift)
  BY <1>2 DEF MemOK, Standing
<1>7. LaneOK(live, sends, Drift, Drift)
  <2> HIDE DEF s
  <2> QED BY <1>3, <1>6, PrunedIs
<1>8. mem' = [mem EXCEPT !.sent = v]
  BY <1>1
<1>9. mem.sent \in [Provider -> [Key -> Rows]]
  BY <1>3, MemIs
<1> HIDE DEF live
<1>10. /\ LaneOK(e, sends', Drift, Drift) /\ Holds(e, Len(sends) + 1)
       /\ \A id : Holds(live, id) => Holds(e, id)
  <2>1. Joined(e, live, sends, now)
    BY DEF Joined
  <2> HIDE DEF e
  <2> QED BY <1>1, <1>3, <1>7, <2>1, LaneJoined
<1> HIDE DEF e
<1>11. /\ v \in [Provider -> [Key -> Rows]]
       /\ \A q \in Provider, j \in Key : v[q][j] = IF q = p /\ j = k THEN e ELSE mem.sent[q][j]
  <2>1. e \in Rows
    BY <1>10 DEF LaneOK
  <2> QED BY <1>9, <2>1
<1> HIDE DEF v
<1>12. /\ mem' \in Memory /\ mem'.circuit = mem.circuit /\ mem'.sent = v
       /\ mem'.cool = mem.cool
  <2> DEFINE y == [mem EXCEPT !.sent = v]
  <2>1. /\ y \in Memory /\ y.circuit = mem.circuit /\ y.sent = v
        /\ y.cool = mem.cool
    BY <1>3, <1>11, MemWith
  <2> QED BY <1>8, <2>1
<1>13. ASSUME NEW q \in Provider, NEW j \in Key
       PROVE  LaneOK(mem'.sent[q][j], sends', Drift, Drift)
  <2>1. CASE q = p /\ j = k
    BY <1>10, <1>11, <1>12, <2>1
  <2>2. CASE ~(q = p /\ j = k)
    BY <1>5, <1>11, <1>12, <2>2 DEF MemOK
  <2> QED BY <2>1, <2>2
<1>14. MemOK(mem', sends', ends, Drift)
  BY <1>5, <1>12, <1>13 DEF MemOK
<1>15. /\ kept \subseteq [id : 1..Len(sends), provider : Provider, key : Key]
       /\ \A x \in kept : now - sends[x.id] < Window - Drift =>
            Holds(mem.sent[x.provider][x.key], x.id)
  BY DEF IInv, KeptCounted
<1>16. /\ Len(sends') = Len(sends) + 1 /\ \A i \in 1..Len(sends) : sends'[i] = sends[i]
       /\ 1..Len(sends) \subseteq 1..Len(sends') /\ Len(sends) + 1 \in 1..Len(sends')
  BY <1>1, <1>3
<1>17. kept' \subseteq [id : 1..Len(sends'), provider : Provider, key : Key]
  <2>1. new \in [id : 1..Len(sends'), provider : Provider, key : Key]
    BY <1>16
  <2>2. \A x \in kept : x \in [id : 1..Len(sends'), provider : Provider, key : Key]
    BY <1>15, <1>16
  <2> HIDE DEF new
  <2> QED BY <1>1, <2>1, <2>2
<1>18. ASSUME NEW x \in kept', now - sends'[x.id] < Window - Drift
       PROVE  Holds(mem'.sent[x.provider][x.key], x.id)
  <2>1. CASE x = new
    <3>1. x.id = Len(sends) + 1 /\ x.provider = p /\ x.key = k
      BY <2>1
    <3> QED BY <1>10, <1>11, <1>12, <3>1
  <2>2. CASE x \in kept
    <3>1. x.id \in 1..Len(sends) /\ x.provider \in Provider /\ x.key \in Key
      BY <1>15, <2>2
    <3>2. now - sends[x.id] < Window - Drift
      BY <1>16, <1>18, <3>1
    <3>3. Holds(mem.sent[x.provider][x.key], x.id)
      BY <1>15, <2>2, <3>2
    <3>4. CASE x.provider = p /\ x.key = k
      <4>1. Holds(s, x.id)
        BY <3>3, <3>4
      <4> HIDE DEF s
      <4>2. Holds(Pruned(s), x.id)
        BY <1>3, <1>6, <3>2, <4>1, PrunedHolds
      <4>3. Holds(e, x.id)
        BY <1>10, <4>2 DEF live
      <4> QED BY <1>11, <1>12, <3>4, <4>3
    <3>5. CASE ~(x.provider = p /\ x.key = k)
      BY <1>11, <1>12, <3>1, <3>3, <3>5
    <3> QED BY <3>4, <3>5
  <2> QED BY <1>1, <2>1, <2>2
<1>19. KeptCounted'
  BY <1>1, <1>3, <1>17, <1>18 DEF KeptCounted
<1> QED BY <1>1, <1>2, <1>3, <1>4, <1>5, <1>14, <1>19, Served DEF Standing

(* The tick is built.                                                        *)
LEMMA SnapshotOK ==
  ASSUME IInv, Snapshot PROVE IInv'
<1>1. /\ up = "up" /\ batch' = FlattenSeq(SetToSeq({SnapshotOps(p) : p \in Provider}))
      /\ UNCHANGED <<now, up, left, mem, db, queue, task, sends, kept, ends, kills>>
  BY DEF Snapshot
<1>2. Standing
  BY <1>1, Parts
<1>3. Drift' = Drift
  BY <1>1 DEF Drift
<1>4. batch' \in Seq(Taken)
  BY <1>1, <1>2, TickIs DEF Standing
<1>5. QueueOK(batch', sends, ends, Drift)
  <2>1. Taken \subseteq Op /\ \A o \in Taken : OpOK(o, sends, ends, Drift)
    BY DEF Taken
  <2> HIDE DEF Taken
  <2>2. batch' \in Seq(Op) /\ \A i \in 1..Len(batch') : batch'[i] \in Taken
    BY <1>4, <2>1
  <2> QED BY <2>1, <2>2 DEF QueueOK
<1>6. KeptCounted'
  BY <1>1, <1>2, KeptSame DEF Standing
<1> QED BY <1>1, <1>2, <1>3, <1>5, <1>6, Served DEF Standing

(* The tick is sent and the pins are swept.                                   *)
LEMMA PersistOnceOK ==
  ASSUME IInv, PersistOnce PROVE IInv'
<1> DEFINE expired == {s \in Session : mem.pin[s] # None /\ ~Live(mem.pin[s])}
           sweep == [op |-> "sweep", unix |-> Unix]
           tail == IF expired = {} THEN <<>> ELSE <<sweep, sweep>>
           v == [s \in Session |-> IF s \in expired THEN None ELSE mem.pin[s]]
<1>1. /\ up = "up" /\ batch # None /\ batch' = None
      /\ mem' = [mem EXCEPT !.pin = v] /\ queue' = (queue \o batch) \o tail
      /\ UNCHANGED <<now, up, left, db, task, sends, kept, ends, kills>>
  BY DEF PersistOnce
<1>2. Standing
  BY <1>1, Parts
<1>3. Drift' = Drift /\ mem \in Memory /\ Unix \in Nat
  BY <1>1, <1>2, ClockIs DEF Drift, Standing
<1>4. v \in [Session -> Nat \cup {None}]
  <2>1. mem.pin \in [Session -> Nat \cup {None}]
    BY <1>3, MemIs
  <2> HIDE DEF expired
  <2> QED BY <2>1
<1> HIDE DEF v
<1>5. /\ mem' \in Memory /\ mem'.circuit = mem.circuit /\ mem'.sent = mem.sent
      /\ mem'.cool = mem.cool
  BY <1>1, <1>3, <1>4, MemWith
<1>6. MemOK(mem', sends, ends, Drift)
  BY <1>2, <1>5 DEF MemOK, Standing
<1>7. QueueOK(tail, sends, ends, Drift)
  <2>1. sweep \in Op /\ sweep.op = "sweep"
    BY <1>3, PinOpMade
  <2> HIDE DEF sweep, expired
  <2>2. OpOK(sweep, sends, ends, Drift)
    BY <2>1 DEF OpOK
  <2>3. CASE expired = {}
    <3>1. tail = <<>> /\ <<>> \in Seq(Op) /\ Len(<<>>) = 0
      BY <2>3
    <3> QED BY <3>1 DEF QueueOK
  <2>4. CASE expired # {}
    <3>1. tail = <<sweep, sweep>>
      BY <2>4
    <3>2. tail \in Seq(Op) /\ \A i \in 1..Len(tail) : tail[i] = sweep
      BY <2>1, <3>1
    <3> HIDE DEF tail
    <3> QED BY <2>2, <3>2 DEF QueueOK
  <2> QED BY <2>3, <2>4
<1> HIDE DEF tail
<1>8. QueueOK(queue \o batch, sends, ends, Drift)
  BY <1>1, <1>2, QueueMoves DEF Standing
<1>9. QueueOK(queue', sends, ends, Drift)
  BY <1>1, <1>7, <1>8, QueueMoves
<1>10. KeptCounted'
  BY <1>1, <1>2, <1>5, KeptSame DEF Standing
<1> QED BY <1>1, <1>2, <1>3, <1>6, <1>9, <1>10, Served DEF Standing

(* writer_loop, and a write that fails.                                      *)
LEMMA WriterOK ==
  ASSUME IInv, Write \/ WriteFails PROVE IInv'
<1>1. /\ up = "up" /\ queue # <<>> /\ queue' = Tail(queue)
      /\ db' = Apply(db, Head(queue)) \/ db' = db
      /\ UNCHANGED <<now, up, left, mem, task, batch, sends, kept, ends, kills>>
  BY DEF Write, WriteFails, history
<1>2. Standing
  BY <1>1, Parts
<1>3. Drift' = Drift
  BY <1>1 DEF Drift
<1>4. OpOK(Head(queue), sends, ends, Drift) /\ QueueOK(queue', sends, ends, Drift)
  BY <1>1, <1>2, QueueMoves DEF Standing
<1>5. DbOK(db', sends, ends, Drift + Slack, Drift)
  <2>1. DbOK(Apply(db, Head(queue)), sends, ends, Drift + Slack, Drift)
    BY <1>2, <1>4, ApplyOK DEF Standing
  <2> QED BY <1>1, <1>2, <2>1 DEF Standing
<1>6. KeptCounted'
  BY <1>1, <1>2, KeptSame DEF Standing
<1> QED BY <1>1, <1>2, <1>3, <1>4, <1>5, <1>6, Served DEF Standing

-----------------------------------------------------------------------------
(* A new process, and a new database.                                        *)
LEMMA BlankOK ==
  ASSUME NEW made, NEW end \in Ends, NEW d \in Nat PROVE MemOK(Blank, made, end, d)
<1>1. MaxFailures \in Nat \ {0}
  BY Consts
<1>2. Closed \in Circuit /\ Closed.failures = 0 /\ Closed.state = "closed"
  BY DEF Closed, Circuit
<1>3. \A e : BreakerOK(Closed, e)
  BY <1>1, <1>2 DEF BreakerOK, CircuitOK
<1>4. LaneOK(<<>>, made, d, d) /\ <<>> \in Rows
  BY LaneEmpty
<1>5. Lanes(<<>>) \in [Provider -> [Key -> Rows]] /\ Lanes(0) \in [Provider -> [Key -> Nat]]
  BY <1>4 DEF Lanes
<1>6. \A p \in Provider, k \in Key : Lanes(<<>>)[p][k] = <<>> /\ Lanes(0)[p][k] = 0
  BY DEF Lanes
<1> HIDE DEF Lanes
<1>7. Blank \in Memory
  BY <1>2, <1>5 DEF Blank, Memory
<1>8. /\ Blank.sent = Lanes(<<>>) /\ Blank.cool = Lanes(0)
      /\ \A p \in Provider : Blank.circuit[p] = Closed
  BY DEF Blank
<1>9. ASSUME NEW p \in Provider
      PROVE  \A k \in Key : 0 <= end.cool[p][k] + d
  <2>1. \A k \in Key : end.cool[p][k] \in Nat
    BY EndIs
  <2> QED BY <2>1
<1> HIDE DEF Blank
<1> QED BY <1>3, <1>4, <1>6, <1>7, <1>8, <1>9 DEF MemOK

(* The database the first boot creates claims nothing.                       *)
LEMMA EmptyOK ==
  ASSUME NEW made, NEW end, NEW lo, NEW hi PROVE DbOK(EmptyDb, made, end, lo, hi)
<1>1. LaneOK(<<>>, made, lo, hi) /\ <<>> \in Rows
  BY LaneEmpty
<1>2. Lanes(<<>>) \in [Provider -> [Key -> Rows]] /\ Lanes(0) \in [Provider -> [Key -> Nat]]
  BY <1>1 DEF Lanes
<1>3. \A p \in Provider, k \in Key : Lanes(<<>>)[p][k] = <<>> /\ Lanes(0)[p][k] = 0
  BY DEF Lanes
<1> HIDE DEF Lanes
<1>4. EmptyDb \in Database
  BY <1>2 DEF EmptyDb, Database
<1>5. /\ EmptyDb.sent = Lanes(<<>>) /\ EmptyDb.cool = Lanes(0)
      /\ \A p \in Provider : EmptyDb.circuit[p] = None
  BY DEF EmptyDb
<1> HIDE DEF EmptyDb
<1> QED BY <1>1, <1>3, <1>4, <1>5 DEF DbOK

(* The clocks as time passes and processes are killed.                        *)
LEMMA ClocksOn ==
  ASSUME Clocks, now' \in Nat, now <= now', kills' \in Nat, sends' = sends, ends' = ends
  PROVE  Clocks'
<1>1. now \in Nat /\ now >= Second /\ Second \in Nat /\ Timeout \in Nat /\ ends \in Ends
  BY Consts DEF Clocks
<1>2. ASSUME NEW p \in Provider
      PROVE  ends.open[p] <= now' + Timeout
  <2>1. ends.open[p] \in Nat
    BY <1>1, EndIs
  <2>2. ends.open[p] <= now + Timeout
    BY DEF Clocks
  <2> QED BY <1>1, <2>1, <2>2
<1>3. now' >= Second
  BY <1>1
<1> QED BY <1>1, <1>2, <1>3 DEF Clocks

(* A process that is not up has nothing to keep but the database.             *)
LEMMA Resting ==
  ASSUME IInv, up' # "up", up' \in {"down", "importing", "up"}, left' \subseteq LegacyRows,
         now' \in Nat, now <= now', kills' \in Nat, sends' = sends, ends' = ends,
         mem' = Blank, queue' = <<>>, batch' = None, task' \in [Task -> Tasks],
         \A t \in Task : task'[t] = Idle,
         db' # None \/ up' # "down" => DbOK(db', sends, ends, Drift', Drift' - Slack),
         KeptCounted'
  PROVE  IInv'
<1>1. Clocks'
  BY ClocksOn DEF IInv
<1>2. Places'
  <2>1. up' # "down" => db' \in Database
    BY DEF DbOK
  <2> QED BY <2>1 DEF Places
<1>3. Drift' \in Nat /\ ends \in Ends
  <2>1. Second - 1 \in Nat
    BY Consts
  <2> QED BY <2>1 DEF Drift, IInv, Clocks
<1>4. Process'
  <2>1. MemOK(mem', sends', ends', Drift')
    BY <1>3, BlankOK
  <2>2. \A t \in Task : TaskOK(task'[t], sends', ends', Drift', now')
    BY IdleIs
  <2>3. QueueOK(queue', sends', ends', Drift')
    <3>1. <<>> \in Seq(Op) /\ Len(<<>>) = 0
      OBVIOUS
    <3> QED BY <3>1 DEF QueueOK
  <2> QED BY <2>1, <2>2, <2>3 DEF Process
<1>5. Stored'
  BY DEF Stored
<1> QED BY <1>1, <1>2, <1>4, <1>5 DEF IInv

(* What is known of a process that is not up.                                *)
LEMMA Quiet ==
  ASSUME IInv, up # "up"
  PROVE  /\ mem = Blank /\ queue = <<>> /\ batch = None /\ task \in [Task -> Tasks]
         /\ \A t \in Task : task[t] = Idle
         /\ Clocks /\ sends \in Seq(Nat) /\ ends \in Ends /\ kills \in Nat
         /\ now \in Nat /\ now <= now /\ Drift \in Nat /\ left \subseteq LegacyRows
         /\ db # None \/ up # "down" => DbOK(db, sends, ends, Drift, Drift - Slack)
<1>1. Clocks /\ Places /\ Process /\ Stored
  BY DEF IInv
<1>2. now \in Nat /\ Drift \in Nat
  BY <1>1, ClockIs
<1> QED BY <1>1, <1>2 DEF Clocks, Places, Process, Stored

(* The first boot creates the database.                                      *)
LEMMA FirstBootOK ==
  ASSUME IInv, FirstBoot PROVE IInv'
<1>1. /\ up = "down" /\ up' = "importing" /\ db' = EmptyDb /\ left' = LegacyRows
      /\ UNCHANGED <<now, mem, queue, task, batch, sends, kept, ends, kills>>
  BY DEF FirstBoot, process, history
<1>2. /\ mem = Blank /\ queue = <<>> /\ batch = None /\ task \in [Task -> Tasks]
      /\ \A t \in Task : task[t] = Idle
      /\ now \in Nat /\ now <= now /\ kills \in Nat
  BY <1>1, Quiet
<1>3. DbOK(db', sends, ends, Drift', Drift' - Slack)
  BY <1>1, EmptyOK
<1>4. KeptCounted'
  BY <1>1, <1>2, KeptSame
<1> QED BY <1>1, <1>2, <1>3, <1>4, Resting

(* An import that fails.                                                    *)
LEMMA ImportFailsOK ==
  ASSUME IInv, ImportFails PROVE IInv'
<1>1. /\ up = "importing" /\ left' = {}
      /\ UNCHANGED <<now, up, db, mem, queue, task, batch, sends, kept, ends, kills>>
  BY DEF ImportFails, process, history
<1>2. /\ mem = Blank /\ queue = <<>> /\ batch = None /\ task \in [Task -> Tasks]
      /\ \A t \in Task : task[t] = Idle
      /\ now \in Nat /\ now <= now /\ kills \in Nat
      /\ DbOK(db, sends, ends, Drift, Drift - Slack) /\ Drift' = Drift
  BY <1>1, Quiet DEF Drift
<1>3. KeptCounted'
  BY <1>1, <1>2, KeptSame
<1> QED BY <1>1, <1>2, <1>3, Resting

(* A row of the import changes health or pins, nothing else.                  *)
LEMMA CopyOK ==
  ASSUME IInv, NEW table, NEW x, NEW before, Copy(table, x, before),
         \/ \E v \in [Provider -> BOOLEAN \cup {None}] : db' = [db EXCEPT !.health = v]
         \/ \E v \in [Session -> Nat \cup {None}] : db' = [db EXCEPT !.pin = v]
         \/ db' = db
  PROVE  IInv'
<1>1. /\ up = "importing" /\ left' \subseteq left
      /\ UNCHANGED <<now, up, mem, queue, task, batch, sends, kept, ends, kills>>
  BY DEF Copy, process, history
<1>2. /\ mem = Blank /\ queue = <<>> /\ batch = None /\ task \in [Task -> Tasks]
      /\ \A t \in Task : task[t] = Idle
      /\ now \in Nat /\ now <= now /\ kills \in Nat /\ left \subseteq LegacyRows
      /\ DbOK(db, sends, ends, Drift, Drift - Slack) /\ Drift' = Drift
  BY <1>1, Quiet DEF Drift
<1>3. KeptCounted'
  BY <1>1, <1>2, KeptSame
<1>4. db \in Database
  BY <1>2 DEF DbOK
<1>5. DbOK(db', sends, ends, Drift, Drift - Slack)
  <2>1. CASE db' = db
    BY <1>2, <2>1
  <2>2. CASE \E v \in [Provider -> BOOLEAN \cup {None}] : db' = [db EXCEPT !.health = v]
    <3>1. PICK v \in [Provider -> BOOLEAN \cup {None}] : db' = [db EXCEPT !.health = v]
      BY <2>2
    <3>2. /\ db' \in Database /\ db'.circuit = db.circuit /\ db'.sent = db.sent
          /\ db'.cool = db.cool
      BY <1>4, <3>1, DbWith
    <3> QED BY <1>2, <3>2 DEF DbOK
  <2>3. CASE \E v \in [Session -> Nat \cup {None}] : db' = [db EXCEPT !.pin = v]
    <3>1. PICK v \in [Session -> Nat \cup {None}] : db' = [db EXCEPT !.pin = v]
      BY <2>3
    <3>2. /\ db' \in Database /\ db'.circuit = db.circuit /\ db'.sent = db.sent
          /\ db'.cool = db.cool
      BY <1>4, <3>1, DbWith
    <3> QED BY <1>2, <3>2 DEF DbOK
  <2> QED BY <2>1, <2>2, <2>3
<1>6. left' \subseteq LegacyRows
  BY <1>1, <1>2
<1> QED BY <1>1, <1>2, <1>3, <1>5, <1>6, Resting

(* import_legacy.                                                            *)
LEMMA ImportOK ==
  ASSUME IInv, \/ \E p \in DOMAIN LegacyHealth : ImportHealth(p)
               \/ \E s \in DOMAIN Legacy : ImportPin(s)
               \/ \E s \in DOMAIN Affinity : ImportAffinity(s)
  PROVE  IInv'
<1>1. /\ \A p \in DOMAIN LegacyHealth : p \in Provider /\ LegacyHealth[p] \in BOOLEAN
      /\ \A s \in DOMAIN Legacy : s \in Session /\ Legacy[s] \in Nat
      /\ \A s \in DOMAIN Affinity : s \in Session /\ Affinity[s] + Ttl \in Nat
  <2>1. /\ DOMAIN LegacyHealth \subseteq Provider /\ Range(LegacyHealth) \subseteq BOOLEAN
        /\ DOMAIN Legacy \subseteq Session /\ Range(Legacy) \subseteq Nat
        /\ DOMAIN Affinity \subseteq Session /\ Range(Affinity) \subseteq Nat
    BY ConstantsAssumption
  <2>2. /\ \A p \in DOMAIN LegacyHealth : LegacyHealth[p] \in Range(LegacyHealth)
        /\ \A s \in DOMAIN Legacy : Legacy[s] \in Range(Legacy)
        /\ \A s \in DOMAIN Affinity : Affinity[s] \in Range(Affinity)
    BY DEF Range
  <2>3. \A s \in DOMAIN Affinity : Affinity[s] \in Nat
    BY <2>1, <2>2
  <2>4. Ttl \in Nat
    BY Consts
  <2>5. \A s \in DOMAIN Affinity : Affinity[s] + Ttl \in Nat
    BY <2>3, <2>4
  <2> QED BY <2>1, <2>2, <2>5
<1>2. up = "importing" => db \in Database
  BY DEF IInv, Places
<1>3. ASSUME NEW p \in DOMAIN LegacyHealth, ImportHealth(p) PROVE IInv'
  <2> DEFINE v == [db.health EXCEPT ![p] = LegacyHealth[p]]
  <2>1. Copy("health", p, {}) /\ db' = [db EXCEPT !.health = v]
    BY <1>3 DEF ImportHealth
  <2>2. v \in [Provider -> BOOLEAN \cup {None}]
    BY <1>1, <1>2, <2>1 DEF Copy, Database
  <2> HIDE DEF v
  <2> QED BY <2>1, <2>2, CopyOK
<1>4. ASSUME NEW s \in Session, NEW e \in Nat, NEW table, NEW before,
             Copy(table, s, before), db' = Carried(s, e)
      PROVE  IInv'
  <2> DEFINE v == [db.pin EXCEPT ![s] = e]
  <2>1. db' = [db EXCEPT !.pin = v] \/ db' = db
    BY <1>4 DEF Carried
  <2>2. v \in [Session -> Nat \cup {None}]
    BY <1>2, <1>4 DEF Copy, Database
  <2> HIDE DEF v
  <2> QED BY <1>4, <2>1, <2>2, CopyOK
<1>5. ASSUME NEW s \in DOMAIN Legacy, ImportPin(s) PROVE IInv'
  BY <1>1, <1>4, <1>5 DEF ImportPin
<1>6. ASSUME NEW s \in DOMAIN Affinity, ImportAffinity(s) PROVE IInv'
  BY <1>1, <1>4, <1>6 DEF ImportAffinity
<1> QED BY <1>3, <1>5, <1>6

(* Time passes.                                                             *)
LEMMA AdvanceOK ==
  ASSUME IInv, Advance PROVE IInv'
<1>1. /\ now' = now + 1
      /\ UNCHANGED <<up, left, db, mem, queue, task, batch, sends, kept, ends, kills>>
  BY DEF Advance, process, history
<1>2. /\ Clocks /\ now \in Nat /\ sends \in Seq(Nat) /\ ends \in Ends /\ kills \in Nat
      /\ task \in [Task -> Tasks] /\ Places
  BY DEF IInv, Clocks, Process
<1>3. now' \in Nat /\ now <= now' /\ Grown(sends, sends') /\ Longer(ends, ends')
  BY <1>1, <1>2, LongerSame DEF Grown
<1>4. Clocks'
  BY <1>1, <1>2, <1>3, ClocksOn
<1>5. KeptCounted'
  BY <1>1, <1>3, KeptSame
<1>6. /\ MemOK(mem, sends', ends', Drift')
      /\ \A t \in Task : TaskOK(task[t], sends', ends', Drift', now')
      /\ QueueOK(queue, sends', ends', Drift')
      /\ batch # None => QueueOK(batch, sends', ends', Drift')
      /\ db # None \/ up # "down" => DbOK(db, sends', ends', IF up = "up" THEN Drift' + Slack ELSE Drift',
                                                   IF up = "up" THEN Drift' ELSE Drift' - Slack)
  BY <1>1, <1>2, <1>3, Onward
<1>7. Process'
  BY <1>1, <1>2, <1>6 DEF Process
<1>8. Stored'
  BY <1>1, <1>6 DEF Stored
<1>9. Places'
  BY <1>1, <1>2 DEF Places
<1> QED BY <1>4, <1>5, <1>7, <1>8, <1>9 DEF IInv

(* A kill pays for what the stamps of the process may be off by.              *)
LEMMA KillOK ==
  ASSUME IInv, Kill PROVE IInv'
<1>1. /\ up # "down" /\ up' = "down" /\ left' = {} /\ mem' = Blank /\ queue' = <<>> /\ batch' = None
      /\ task' = [t \in Task |-> Idle] /\ kept' = {} /\ kills' = kills + 1
      /\ UNCHANGED <<now, db, sends, ends>>
  BY DEF Kill
<1>2. /\ Clocks /\ now \in Nat /\ sends \in Seq(Nat) /\ ends \in Ends /\ kills \in Nat /\ Drift \in Nat
      /\ now <= now
  BY ClockIs DEF IInv, Clocks
<1>3. Slack \in Nat
  BY Consts
<1>4. Drift' = Drift + Slack /\ kills' \in Nat
  <2>1. Slack = Second - 1
    BY Consts
  <2>2. (kills + 1) * Slack = kills * Slack + Slack
    BY <1>2, <1>3
  <2> QED BY <1>1, <1>2, <2>1, <2>2 DEF Drift
<1>5. Grown(sends, sends) /\ Longer(ends, ends)
  BY <1>2, LongerSame DEF Grown
<1>6. DbOK(db, sends, ends, Drift', Drift' - Slack)
  <2>1. CASE up = "up"
    <3>1. DbOK(db, sends, ends, Drift + Slack, Drift)
      BY <2>1 DEF IInv, Stored
    <3> QED BY <1>2, <1>3, <1>4, <3>1
  <2>2. CASE up # "up"
    <3>1. DbOK(db, sends, ends, Drift, Drift - Slack)
      BY <1>1, <2>2 DEF IInv, Stored
    <3>2. /\ Drift \in Int /\ Drift - Slack \in Int /\ Drift' \in Int /\ Drift' - Slack \in Int
          /\ Drift <= Drift' /\ Drift - Slack <= Drift' - Slack
      BY <1>2, <1>3, <1>4
    <3> QED BY <1>2, <1>5, <3>1, <3>2, DbOn
  <2> QED BY <2>1, <2>2
<1>7. KeptCounted'
  BY <1>1 DEF KeptCounted
<1>8. task' \in [Task -> Tasks] /\ \A t \in Task : task'[t] = Idle
  BY <1>1, IdleIs
<1> QED BY <1>1, <1>2, <1>4, <1>6, <1>7, <1>8, Resting

-----------------------------------------------------------------------------
(* restore_lane_window: rows younger than a window come back, and by less     *)
(* than a second too young.                                                  *)
LEMMA LaneRestored ==
  ASSUME Clocks, NEW s, NEW lo \in Int, NEW hi \in Int, LaneOK(s, sends, lo, hi)
  PROVE  /\ LaneOK(RestoreLane(s), sends, lo, hi + Slack)
         /\ \A i \in 1..Len(s) : Floor - s[i].at < Window => Holds(RestoreLane(s), s[i].id)
<1> DEFINE T == {r \in Range(s) : Recent(r) /\ Floor - r.at < Window}
           fresh == Filtered(s, T)
           f == RestoreLane(s)
           r == now - Floor
<1>1. /\ now \in Nat /\ Floor \in Nat /\ Floor <= now /\ now - Floor <= Slack
      /\ sends \in Seq(Nat) /\ Slack \in Nat /\ Window \in Nat /\ Grace \in Nat /\ Grace >= Window
  BY ClockIs, Consts
<1>2. r \in Int /\ r >= 0 /\ r <= Slack
  BY <1>1
<1>3. s \in Rows /\ DOMAIN s = 1..Len(s)
  BY DEF LaneOK, Rows
<1>4. \A i \in 1..Len(s) : Floor - s[i].at < Window => s[i] \in T
  <2> SUFFICES ASSUME NEW i \in 1..Len(s), Floor - s[i].at < Window PROVE s[i] \in T
    OBVIOUS
  <2>1. s[i] \in Range(s)
    BY <1>3 DEF Range
  <2>2. s[i].at \in Int
    BY <1>3, RowIs
  <2>3. Floor - s[i].at < Grace
    BY <1>1, <2>2
  <2> QED BY <2>1, <2>3 DEF Recent
<1>5. f = [i \in DOMAIN fresh |-> [id |-> fresh[i].id, at |-> now - (Floor - fresh[i].at)]]
  BY DEF RestoreLane, Restamped
<1> HIDE DEF T
<1>6. LaneOK(fresh, sends, lo, hi)
  BY LaneFiltered
<1>7. \A i \in 1..Len(s) : s[i] \in T => \E a \in 1..Len(fresh) : fresh[a] = s[i]
  <2> DEFINE R == [id : Nat, at : Int]
  <2>1. s \in Seq(R)
    BY <1>3 DEF Rows
  <2> HIDE DEF R
  <2>2. Part(fresh, R, s, T, Len(s))
    BY <2>1, FilteredIs
  <2> QED BY <2>2 DEF Part
<1> HIDE DEF fresh
<1>8. fresh \in Rows /\ DOMAIN fresh = 1..Len(fresh)
  BY <1>6 DEF LaneOK, Rows
<1>9. \A i \in 1..Len(fresh) : fresh[i].id \in Nat /\ fresh[i].at \in Int
  BY <1>8, RowIs
<1> HIDE DEF f, r
<1>10. \A i \in 1..Len(fresh) : now - (Floor - fresh[i].at) = fresh[i].at + r
  BY <1>1, <1>9 DEF r
<1>11. Shifted(f, fresh, r)
  BY <1>5, <1>8, <1>10 DEF Shifted
<1>12. /\ LaneOK(f, sends, lo - r, hi + r) /\ Len(f) = Len(fresh)
       /\ \A i \in 1..Len(fresh) : f[i].id = fresh[i].id
  BY <1>1, <1>2, <1>6, <1>11, LaneShifted
<1>13. LaneOK(f, sends, lo, hi + Slack)
  <2>1. /\ lo - r \in Int /\ hi + r \in Int /\ hi + Slack \in Int
        /\ lo - r <= lo /\ hi + r <= hi + Slack
    BY <1>1, <1>2
  <2> QED BY <1>1, <1>12, <2>1, LaneWider
<1>14. ASSUME NEW i \in 1..Len(s), Floor - s[i].at < Window PROVE Holds(f, s[i].id)
  <2>1. PICK a \in 1..Len(fresh) : fresh[a] = s[i]
    BY <1>4, <1>7, <1>14
  <2>2. a \in 1..Len(f) /\ f[a].id = s[i].id
    BY <1>12, <2>1
  <2> QED BY <2>2 DEF Holds
<1> QED BY <1>13, <1>14 DEF f

(* restore_cooldown, and the rows restore deletes.                            *)
LEMMA CoolRestored ==
  ASSUME Clocks, NEW u \in Nat, NEW e \in Nat, NEW d \in Nat, u = 0 \/ u <= e + (d - Slack)
  PROVE  /\ RestoreCooldown(u) \in Nat /\ RestoreCooldown(u) <= e + d
         /\ Lapsed(u) \in Nat /\ (Lapsed(u) = 0 \/ Lapsed(u) <= e + d)
<1>1. now \in Nat /\ Floor \in Nat /\ Floor <= now /\ now - Floor <= Slack /\ Slack \in Nat
  BY ClockIs, Consts
<1>2. CASE u <= Floor
  BY <1>1, <1>2 DEF RestoreCooldown, Lapsed
<1>3. CASE ~(u <= Floor)
  <2>1. RestoreCooldown(u) = now + (u - Floor) /\ Lapsed(u) = u
    BY <1>3 DEF RestoreCooldown, Lapsed
  <2>2. u # 0
    BY <1>1, <1>3
  <2> QED BY <1>1, <1>3, <2>1, <2>2
<1> QED BY <1>2, <1>3

(* CircuitBreaker::restore: an open circuit is over at most a second late.    *)
LEMMA CircuitRestored ==
  ASSUME Clocks, NEW c, NEW e \in Nat, c = None \/ CircuitOK(c, e)
  PROVE  /\ RestoreCircuit(c) \in Circuit /\ BreakerOK(RestoreCircuit(c), e)
         /\ c # None => /\ RestoreCircuit(c).state = c.state
                        /\ RestoreCircuit(c).failures = c.failures
<1>1. /\ now \in Nat /\ Floor \in Nat /\ Floor <= now /\ now - Floor <= Slack /\ Slack \in Nat
      /\ Unix \in Nat /\ Second \in Nat /\ Floor = Unix * Second /\ Slack = Second - 1
      /\ MaxFailures \in Nat \ {0} /\ Timeout \in Nat
  BY ClockIs, Consts
<1>2. CASE c = None
  <2>1. RestoreCircuit(c) = Closed
    BY <1>2 DEF RestoreCircuit
  <2>2. Closed \in Circuit /\ Closed.failures = 0 /\ Closed.state = "closed"
    BY DEF Closed, Circuit
  <2>3. BreakerOK(Closed, e)
    BY <1>1, <2>2 DEF BreakerOK, CircuitOK
  <2> QED BY <1>2, <2>1, <2>2, <2>3
<1>3. CASE c # None
  <2> DEFINE t == IF c.unix > 0 THEN now - (Unix - c.unix) * Second ELSE 0
             x == RestoreCircuit(c)
  <2>1. CircuitOK(c, e) /\ c \in Circuit
    BY <1>3 DEF CircuitOK
  <2>2. c.unix \in Nat /\ c.failures \in Nat
    BY <2>1 DEF Circuit
  <2>3. x = [c EXCEPT !.last = t]
    BY <1>3 DEF RestoreCircuit
  <2> DEFINE y == c.unix * Second
             z == (Unix - c.unix) * Second
  <2>4. z = Floor - y /\ y \in Nat /\ z \in Int
    <3>1. Unix - c.unix \in Int
      BY <1>1, <2>2
    <3> QED BY <1>1, <2>2, <3>1
  <2>5. t = IF c.unix > 0 THEN now - z ELSE 0
    OBVIOUS
  <2>6. c.state = "open" => c.unix >= 1 /\ y + Timeout <= e
    BY <2>1 DEF CircuitOK
  <2> HIDE DEF y, z, t
  <2>7. t \in Int
    BY <1>1, <2>4, <2>5
  <2>8. c.state = "open" => t + Timeout < e + Second
    BY <1>1, <2>2, <2>4, <2>5, <2>6
  <2>9. /\ x \in Circuit /\ x.state = c.state /\ x.failures = c.failures /\ x.unix = c.unix
        /\ x.last = t
    BY <2>1, <2>3, <2>7 DEF Circuit
  <2> HIDE DEF x
  <2>10. CircuitOK(x, e)
    BY <2>1, <2>9 DEF CircuitOK
  <2>11. BreakerOK(x, e)
    BY <2>8, <2>9, <2>10 DEF BreakerOK
  <2> QED BY <2>9, <2>11 DEF x
<1> QED BY <1>2, <1>3

(* The memory restore builds.                                                *)
LEMMA RestoredOK ==
  ASSUME Clocks, NEW d \in Nat, DbOK(db, sends, ends, d, d - Slack)
  PROVE  MemOK(Restored, sends, ends, d)
<1>1. db \in Database /\ ends \in Ends /\ d \in Int /\ d - Slack \in Int /\ (d - Slack) + Slack = d
  BY Consts DEF DbOK, Clocks
<1>2. ASSUME NEW p \in Provider
      PROVE  /\ RestoreCircuit(db.circuit[p]) \in Circuit
             /\ BreakerOK(RestoreCircuit(db.circuit[p]), ends.open[p])
  <2>1. ends.open[p] \in Nat
    BY <1>1, EndIs
  <2>2. db.circuit[p] = None \/ CircuitOK(db.circuit[p], ends.open[p])
    BY DEF DbOK
  <2> QED BY <2>1, <2>2, CircuitRestored
<1>4. ASSUME NEW p \in Provider, NEW k \in Key
      PROVE  /\ RestoreCooldown(db.cool[p][k]) \in Nat
             /\ RestoreCooldown(db.cool[p][k]) <= ends.cool[p][k] + d
  <2>1. ends.cool[p][k] \in Nat /\ db.cool[p][k] \in Nat
    BY <1>1, EndIs, DbIs
  <2>2. db.cool[p][k] = 0 \/ db.cool[p][k] <= ends.cool[p][k] + (d - Slack)
    BY DEF DbOK
  <2> QED BY <2>1, <2>2, CoolRestored
<1>5. ASSUME NEW p \in Provider, NEW k \in Key
      PROVE  RestoreLane(db.sent[p][k]) \in Rows /\ LaneOK(RestoreLane(db.sent[p][k]), sends, d, d)
  <2>1. LaneOK(db.sent[p][k], sends, d, d - Slack)
    BY DEF DbOK
  <2>2. LaneOK(RestoreLane(db.sent[p][k]), sends, d, (d - Slack) + Slack)
    BY <1>1, <2>1, LaneRestored
  <2>3. LaneOK(RestoreLane(db.sent[p][k]), sends, d, d)
    BY <1>1, <2>2
  <2> QED BY <2>3 DEF LaneOK
<1>6. /\ db.health \in [Provider -> BOOLEAN \cup {None}]
      /\ [s \in Session |-> Swept(db.pin[s])] \in [Session -> Nat \cup {None}]
  <2>1. /\ db.health \in [Provider -> BOOLEAN \cup {None}]
        /\ db.pin \in [Session -> Nat \cup {None}]
    BY <1>1 DEF Database
  <2> QED BY <2>1 DEF Swept
<1>7. /\ [p \in Provider |-> RestoreCircuit(db.circuit[p])] \in [Provider -> Circuit]
      /\ [p \in Provider |-> [k \in Key |-> RestoreLane(db.sent[p][k])]]
           \in [Provider -> [Key -> Rows]]
      /\ [p \in Provider |-> [k \in Key |-> RestoreCooldown(db.cool[p][k])]]
           \in [Provider -> [Key -> Nat]]
  BY <1>2, <1>4, <1>5
<1>8. Restored \in Memory
  BY <1>6, <1>7 DEF Restored, Memory
<1>9. \A p \in Provider :
        /\ Restored.circuit[p] = RestoreCircuit(db.circuit[p])
        /\ \A k \in Key : /\ Restored.sent[p][k] = RestoreLane(db.sent[p][k])
                          /\ Restored.cool[p][k] = RestoreCooldown(db.cool[p][k])
  BY DEF Restored
<1> HIDE DEF Restored
<1> QED BY <1>2, <1>4, <1>5, <1>8, <1>9 DEF MemOK

(* What the boot leaves of the database.                                      *)
LEMMA LapsedOK ==
  ASSUME Clocks, NEW d \in Nat, DbOK(db, sends, ends, d, d - Slack), Boot
  PROVE  DbOK(db', sends, ends, d + Slack, d)
<1> DEFINE pins == [s \in Session |-> Swept(db.pin[s])]
           cools == [p \in Provider |-> [k \in Key |-> Lapsed(db.cool[p][k])]]
           x == [db EXCEPT !.pin = pins]
<1>1. /\ db \in Database /\ ends \in Ends /\ sends \in Seq(Nat) /\ Slack \in Nat
  BY Consts DEF DbOK, Clocks
<1>2. DbOK(db, sends, ends, d + Slack, d)
  <2>1. /\ d \in Int /\ d - Slack \in Int /\ d + Slack \in Int
        /\ d <= d + Slack /\ d - Slack <= d
    BY <1>1
  <2>2. Grown(sends, sends) /\ Longer(ends, ends)
    BY <1>1, LongerSame DEF Grown
  <2> QED BY <1>1, <2>1, <2>2, DbOn
<1>3. ASSUME NEW p \in Provider, NEW k \in Key
      PROVE  /\ Lapsed(db.cool[p][k]) \in Nat
             /\ Lapsed(db.cool[p][k]) = 0 \/ Lapsed(db.cool[p][k]) <= ends.cool[p][k] + d
  <2>1. ends.cool[p][k] \in Nat /\ db.cool[p][k] \in Nat
    BY <1>1, EndIs, DbIs
  <2>2. db.cool[p][k] = 0 \/ db.cool[p][k] <= ends.cool[p][k] + (d - Slack)
    BY DEF DbOK
  <2> QED BY <2>1, <2>2, CoolRestored
<1>4. pins \in [Session -> Nat \cup {None}]
  <2>1. db.pin \in [Session -> Nat \cup {None}]
    BY <1>1 DEF Database
  <2> QED BY <2>1 DEF Swept
<1>5. cools \in [Provider -> [Key -> Nat]]
  BY <1>3
<1>6. \A p \in Provider, k \in Key : cools[p][k] = Lapsed(db.cool[p][k])
  OBVIOUS
<1>7. db' = [x EXCEPT !.cool = cools]
  BY DEF Boot
<1> HIDE DEF pins, cools
<1>8. /\ x \in Database /\ x.circuit = db.circuit /\ x.sent = db.sent
      /\ x.cool = db.cool
  BY <1>1, <1>4, DbWith
<1> HIDE DEF x
<1>9. /\ db' \in Database /\ db'.circuit = db.circuit /\ db'.sent = db.sent
      /\ db'.cool = cools
  BY <1>5, <1>7, <1>8, DbWith
<1> QED BY <1>2, <1>3, <1>6, <1>9 DEF DbOK

(* restore and apply_restored.                                               *)
LEMMA BootOK ==
  ASSUME IInv, Boot PROVE IInv'
<1>1. /\ up # "up" /\ (db # None \/ up # "down")
      /\ up' = "up" /\ mem' = Restored /\ kept' = InRows(db)
      /\ UNCHANGED <<now, left, queue, task, batch, sends, ends, kills>>
  BY DEF Boot
<1>2. /\ queue = <<>> /\ batch = None /\ task \in [Task -> Tasks]
      /\ \A t \in Task : task[t] = Idle
      /\ Clocks /\ sends \in Seq(Nat) /\ ends \in Ends /\ kills \in Nat
      /\ now \in Nat /\ now <= now /\ Drift \in Nat /\ left \subseteq LegacyRows
      /\ DbOK(db, sends, ends, Drift, Drift - Slack)
  BY <1>1, Quiet
<1>3. Drift' = Drift
  BY <1>1 DEF Drift
<1>4. Clocks'
  BY <1>1, <1>2, ClocksOn
<1>5. MemOK(mem', sends', ends', Drift')
  BY <1>1, <1>2, <1>3, RestoredOK
<1>6. DbOK(db', sends', ends', Drift' + Slack, Drift')
  BY <1>1, <1>2, <1>3, LapsedOK
<1>7. Process'
  <2>1. \A t \in Task : TaskOK(task'[t], sends', ends', Drift', now')
    BY <1>1, <1>2, IdleIs
  <2>2. QueueOK(queue', sends', ends', Drift')
    <3>1. <<>> \in Seq(Op) /\ Len(<<>>) = 0
      OBVIOUS
    <3> QED BY <1>1, <1>2, <3>1 DEF QueueOK
  <2> QED BY <1>1, <1>2, <1>5, <2>1, <2>2 DEF Process
<1>8. Stored'
  BY <1>1, <1>6 DEF Stored
<1>9. Places'
  BY <1>1, <1>2, <1>6 DEF Places, DbOK
<1>10. ASSUME NEW x \in InRows(db)
       PROVE  /\ x \in [id : 1..Len(sends), provider : Provider, key : Key]
              /\ now - sends[x.id] < Window - Drift =>
                   Holds(Restored.sent[x.provider][x.key], x.id)
  <2>0. PICK lane \in Provider \X Key :
          \E row \in Range(db.sent[lane[1]][lane[2]]) :
            x = [id |-> row.id, provider |-> lane[1], key |-> lane[2]]
    BY <1>10 DEF InRows
  <2>1. PICK row \in Range(db.sent[lane[1]][lane[2]]) :
          x = [id |-> row.id, provider |-> lane[1], key |-> lane[2]]
    BY <2>0
  <2> DEFINE p == lane[1]
             k == lane[2]
             s == db.sent[p][k]
  <2>2. p \in Provider /\ k \in Key
    OBVIOUS
  <2>3. x.provider = p /\ x.key = k /\ x.id = row.id
    BY <2>1
  <2>4. LaneOK(s, sends, Drift, Drift - Slack) /\ Restored.sent[p][k] = RestoreLane(s)
    BY <1>2, <2>2 DEF DbOK, Restored
  <2>5. row \in Range(s)
    OBVIOUS
  <2> HIDE DEF s, p, k
  <2>6. s \in Rows /\ DOMAIN s = 1..Len(s)
    BY <2>4 DEF LaneOK, Rows
  <2>7. PICK i \in 1..Len(s) : row = s[i]
    BY <2>5, <2>6 DEF Range
  <2>8. x.id \in 1..Len(sends) /\ sends[x.id] - Drift <= s[i].at
    BY <2>3, <2>4, <2>7 DEF LaneOK
  <2>9. x \in [id : 1..Len(sends), provider : Provider, key : Key]
    BY <2>1, <2>2, <2>3, <2>8 DEF p, k
  <2>10. ASSUME now - sends[x.id] < Window - Drift PROVE Holds(RestoreLane(s), x.id)
    <3> DEFINE m == sends[x.id]
               at == s[i].at
    <3>1. /\ m \in Nat /\ at \in Int /\ Window \in Nat /\ Floor \in Nat /\ Floor <= now
          /\ m - Drift <= at /\ now - m < Window - Drift
      <4>1. m \in Nat
        BY <1>2, <2>8
      <4>2. at \in Int
        BY <2>6, RowIs
      <4>3. Window \in Nat /\ Floor \in Nat /\ Floor <= now
        BY <1>2, ClockIs, Consts
      <4> QED BY <2>8, <2>10, <4>1, <4>2, <4>3
    <3> HIDE DEF m, at
    <3>2. Floor - at < Window
      BY <1>2, <3>1
    <3>3. Drift \in Int /\ Drift - Slack \in Int
      BY <1>2, Consts
    <3>4. \A j \in 1..Len(s) : Floor - s[j].at < Window => Holds(RestoreLane(s), s[j].id)
      BY <1>2, <2>4, <3>3, LaneRestored
    <3> QED BY <2>3, <2>7, <3>2, <3>4 DEF at
  <2> QED BY <2>3, <2>4, <2>9, <2>10
<1>11. KeptCounted'
  <2>1. /\ InRows(db) \subseteq [id : 1..Len(sends), provider : Provider, key : Key]
        /\ \A x \in InRows(db) : now - sends[x.id] < Window - Drift =>
             Holds(Restored.sent[x.provider][x.key], x.id)
    BY <1>10
  <2> HIDE DEF Restored, InRows
  <2> QED BY <1>1, <1>3, <2>1 DEF KeptCounted
<1> QED BY <1>4, <1>7, <1>8, <1>9, <1>11 DEF IInv

-----------------------------------------------------------------------------
(* What AstMatrix's rows are good for.                                       *)
LEMMA LegacyEndIs ==
  ASSUME NEW s \in Session
  PROVE  /\ LegacyEnd(s) \in Nat
         /\ s \in DOMAIN Legacy => Legacy[s] \in Nat /\ Legacy[s] <= LegacyEnd(s)
         /\ s \in DOMAIN Affinity =>
              Affinity[s] \in Nat /\ Affinity[s] + Ttl <= LegacyEnd(s)
<1> DEFINE a == IF s \in DOMAIN Legacy THEN Legacy[s] ELSE 0
           b == IF s \in DOMAIN Affinity THEN Affinity[s] + Ttl ELSE 0
<1>1. /\ s \in DOMAIN Legacy => Legacy[s] \in Nat
      /\ s \in DOMAIN Affinity => Affinity[s] \in Nat
  BY ConstantsAssumption DEF Range
<1>2. a \in Nat /\ b \in Nat
  BY <1>1, Consts
<1>3. LegacyEnd(s) = Max({a, b})
  BY DEF LegacyEnd
<1> HIDE DEF a, b
<1>4. LegacyEnd(s) \in Nat /\ LegacyEnd(s) >= a /\ LegacyEnd(s) >= b
  BY <1>2, <1>3, MaxIs
<1> QED BY <1>1, <1>4, Consts DEF a, b

(* The invariant at the start.                                               *)
LEMMA InitOK ==
  Init => IInv
<1> SUFFICES ASSUME Init PROVE IInv
  OBVIOUS
<1>1. /\ now = Second /\ up = "down" /\ left = {} /\ mem = Blank /\ db = None /\ queue = <<>>
      /\ batch = None /\ task = [t \in Task |-> Idle] /\ kills = 0 /\ sends = <<>> /\ kept = {}
      /\ ends = [cool |-> Lanes(0), open |-> [p \in Provider |-> 0],
                 pin |-> [s \in Session |-> LegacyEnd(s)]]
  BY DEF Init
<1>2. Second \in Nat /\ Timeout \in Nat
  BY Consts
<1>3. ends \in Ends /\ \A p \in Provider : ends.open[p] = 0
  <2>1. [s \in Session |-> LegacyEnd(s)] \in [Session -> Nat]
    BY LegacyEndIs
  <2>2. Lanes(0) \in [Provider -> [Key -> Nat]]
    BY DEF Lanes
  <2> HIDE DEF LegacyEnd, Lanes
  <2> QED BY <1>1, <2>1, <2>2 DEF Ends
<1>4. Clocks
  <2>1. sends \in Seq(Nat)
    BY <1>1
  <2>2. \A p \in Provider : ends.open[p] <= now + Timeout
    BY <1>1, <1>2, <1>3
  <2> QED BY <1>1, <1>2, <1>3, <2>1, <2>2 DEF Clocks
<1>5. Drift \in Nat
  BY <1>4, ClockIs
<1>6. Process
  <2>1. MemOK(mem, sends, ends, Drift)
    BY <1>1, <1>3, <1>5, BlankOK
  <2>2. task \in [Task -> Tasks] /\ \A t \in Task : TaskOK(task[t], sends, ends, Drift, now)
    BY <1>1, IdleIs
  <2>3. QueueOK(queue, sends, ends, Drift)
    <3>1. <<>> \in Seq(Op) /\ Len(<<>>) = 0
      OBVIOUS
    <3> QED BY <1>1, <3>1 DEF QueueOK
  <2> QED BY <1>1, <2>1, <2>2, <2>3 DEF Process
<1>7. Places /\ Stored /\ KeptCounted
  BY <1>1 DEF Places, Stored, KeptCounted
<1> QED BY <1>4, <1>6, <1>7 DEF IInv

(* Every step keeps the invariant.                                           *)
LEMMA StepOK ==
  ASSUME IInv, [Next]_vars PROVE IInv'
<1>1. CASE UNCHANGED vars
  <2>1. UNCHANGED <<now, up, left, mem, db, queue, task, batch, kills, sends, kept, ends>>
    BY <1>1 DEF vars, process, history
  <2>2. Clocks' /\ Places' /\ Process' /\ Stored' /\ KeptCounted'
    BY <2>1 DEF IInv, Clocks, Places, Process, Stored, KeptCounted, Drift
  <2> QED BY <2>2 DEF IInv
<1>2. CASE \E t \in Task :
        \/ FinishSuccess(t) \/ FinishFailure(t) \/ RecordAttempt(t) \/ ProbeOnce(t)
        \/ SetSticky(t) \/ Penalize(t) \/ LastOp(t)
  BY <1>2, AttemptOK, SetStickyOK, PenalizeOK, LastOpOK
<1>3. CASE \E p \in Provider : Allow(p)
  BY <1>3, AllowOK
<1>4. CASE \E p \in Provider, k \in Key : Send(p, k) \/ \E b \in Backoffs : EnterCooldown(p, k, b)
  BY <1>4, SendOK, EnterCooldownOK
<1>5. CASE Snapshot \/ PersistOnce \/ Write \/ WriteFails
  BY <1>5, SnapshotOK, PersistOnceOK, WriterOK
<1>6. CASE FirstBoot \/ ImportFails \/ Boot \/ Kill \/ Advance
  BY <1>6, FirstBootOK, ImportFailsOK, BootOK, KillOK, AdvanceOK
<1>7. CASE \/ \E p \in DOMAIN LegacyHealth : ImportHealth(p)
           \/ \E s \in DOMAIN Legacy : ImportPin(s)
           \/ \E s \in DOMAIN Affinity : ImportAffinity(s)
  BY <1>7, ImportOK
<1>8. CASE Next
  BY <1>2, <1>3, <1>4, <1>5, <1>6, <1>7, <1>8 DEF Next
<1> QED BY <1>1, <1>8

(* What the invariant says of the budgets.                                    *)
LEMMA BudgetsHold ==
  ASSUME IInv PROVE WindowsRestored
<1>1. /\ Clocks /\ Places /\ KeptCounted /\ MemOK(mem, sends, ends, Drift) /\ mem \in Memory
      /\ sends \in Seq(Nat) /\ now \in Nat /\ Drift \in Nat /\ Window \in Nat /\ Rpm \in Nat
      /\ MaxFailures \in Nat
  BY ClockIs, Consts DEF IInv, Process, MemOK
<1>2. ASSUME NEW p \in Provider, NEW k \in Key
      PROVE  /\ LaneOK(mem.sent[p][k], sends, Drift, Drift) /\ mem.sent[p][k] \in Rows
             /\ DOMAIN mem.sent[p][k] = 1..Len(mem.sent[p][k]) /\ Len(mem.sent[p][k]) \in 0..Rpm
  <2> DEFINE s == mem.sent[p][k]
  <2>1. LaneOK(s, sends, Drift, Drift)
    BY <1>1 DEF MemOK
  <2> HIDE DEF s
  <2>2. s \in Rows /\ DOMAIN s = 1..Len(s) /\ Len(s) \in 0..Rpm
    BY <1>1, <2>1 DEF LaneOK, Rows
  <2> QED BY <2>1, <2>2 DEF s
<1>3. TypeOK
  <2>1. /\ up \in {"down", "importing", "up"} /\ left \subseteq LegacyRows
        /\ up # "down" => db \in Database
        /\ up # "up" => mem = Blank /\ queue = <<>> /\ batch = None
                        /\ \A t \in Task : task[t] = Idle
    BY <1>1 DEF Places
  <2>2. \A s \in Session : mem.pin[s] # None => mem.pin[s] \in Nat
    BY <1>1, MemIs
  <2>3. ASSUME NEW p \in Provider
        PROVE  /\ mem.health[p] \in BOOLEAN \cup {None}
               /\ mem.circuit[p].state \in {"closed", "half", "open"}
               /\ mem.circuit[p].failures \in 0..MaxFailures
               /\ \A k \in Key : mem.cool[p][k] \in Nat /\ Len(mem.sent[p][k]) \in 0..Rpm
    <3>1. mem.circuit[p] \in Circuit /\ mem.circuit[p].failures <= MaxFailures
      BY <1>1 DEF MemOK, BreakerOK, CircuitOK
    <3>2. /\ mem.circuit[p].state \in {"closed", "half", "open"}
          /\ mem.circuit[p].failures \in 0..MaxFailures
      BY <1>1, <3>1 DEF Circuit
    <3>3. mem.health[p] \in BOOLEAN \cup {None}
      BY <1>1, MemIs
    <3>4. \A k \in Key : mem.cool[p][k] \in Nat
      BY <1>1, MemIs
    <3> QED BY <1>2, <3>2, <3>3, <3>4
  <2> QED BY <2>1, <2>2, <2>3 DEF TypeOK
<1>4. CountedAcrossRestarts
  <2> SUFFICES ASSUME NEW x \in kept, now - sends[x.id] < Window - Drift
               PROVE  \E r \in Counted(x.provider, x.key) : r.id = x.id
    BY DEF CountedAcrossRestarts, Age
  <2>1. x.id \in 1..Len(sends) /\ x.provider \in Provider /\ x.key \in Key
    BY <1>1 DEF KeptCounted
  <2> DEFINE s == mem.sent[x.provider][x.key]
  <2>2. Holds(s, x.id)
    BY <1>1 DEF KeptCounted
  <2>3. LaneOK(s, sends, Drift, Drift) /\ s \in Rows /\ DOMAIN s = 1..Len(s)
    BY <1>2, <2>1
  <2>4. Counted(x.provider, x.key) = {r \in Range(s) : InWindow(r)}
    BY DEF Counted
  <2> HIDE DEF s
  <2>5. PICK i \in 1..Len(s) : s[i].id = x.id
    BY <2>2 DEF Holds
  <2>6. now - s[i].at < Window
    <3> DEFINE m == sends[x.id]
               at == s[i].at
    <3>1. m \in Nat
      BY <1>1, <2>1
    <3>2. at \in Int
      BY <2>3, RowIs
    <3>3. m - Drift <= at
      BY <2>3, <2>5 DEF LaneOK
    <3>4. now - m < Window - Drift
      OBVIOUS
    <3> HIDE DEF m, at
    <3>5. now - at < Window
      BY <1>1, <3>1, <3>2, <3>3, <3>4
    <3> QED BY <3>5 DEF at
  <2>7. s[i] \in Range(s) /\ InWindow(s[i])
    BY <2>3, <2>6 DEF Range, InWindow
  <2> QED BY <2>4, <2>5, <2>7
<1>5. NotOverThrottled
  <2> SUFFICES ASSUME NEW p \in Provider, NEW k \in Key
               PROVE  /\ IsInjective([i \in DOMAIN mem.sent[p][k] |-> mem.sent[p][k][i].id])
                      /\ \A r \in Range(mem.sent[p][k]) : r.at <= sends[r.id] + Drift
    BY DEF NotOverThrottled
  <2> DEFINE s == mem.sent[p][k]
  <2>1. LaneOK(s, sends, Drift, Drift) /\ DOMAIN s = 1..Len(s)
    BY <1>2
  <2> HIDE DEF s
  <2>2. IsInjective([i \in DOMAIN s |-> s[i].id])
    BY <2>1 DEF IsInjective, LaneOK
  <2>3. \A r \in Range(s) : r.at <= sends[r.id] + Drift
    BY <2>1 DEF Range, LaneOK
  <2> QED BY <2>2, <2>3 DEF s
<1>6. PenaltiesNotLonger
  BY <1>1 DEF PenaltiesNotLonger, MemOK, BreakerOK
<1> QED BY <1>3, <1>4, <1>5, <1>6 DEF WindowsRestored

(* restore_lane_window, restore_cooldown and CircuitBreaker::restore: after    *)
(* any number of restarts no send a process made or found is forgotten before  *)
(* its window is over, none is counted twice or late, and no penalty or open   *)
(* circuit lasts longer than it would have, to within a second for each        *)
(* restart.                                                                  *)
THEOREM WindowsTheorem == Spec => []WindowsRestored
<1>1. Init => IInv
  BY InitOK
<1>2. IInv /\ [Next]_vars => IInv'
  BY StepOK
<1>3. IInv => WindowsRestored
  BY BudgetsHold
<1> QED BY <1>1, <1>2, <1>3, PTL DEF Spec

-----------------------------------------------------------------------------
(* A complete tick on its way to the database.  A slot is what one operation    *)
(* writes: a provider's circuit, a key's window or cooldown.                    *)
Kinds == {"circuit", "lanes", "cooldown"}
Slot(x, k) == x \in {"lanes", "cooldown"} => k \in Key

Writes(x, p, k) ==
  {o \in Op : /\ o.op = x /\ o.provider = p
              /\ x = "lanes" => o.rows[k] # <<>>
              /\ x = "cooldown" => o.key = k}

Fresh(m, t) == {o \in Op : Current(o, m, t)}

(* Memory holds nothing for the slot that matters after t.                     *)
Void(m, t, x, p, k) ==
  \/ x = "lanes" /\ \A i \in 1..Len(m.sent[p][k]) : ~(t - m.sent[p][k][i].at < Window)
  \/ x = "cooldown" /\ ~(m.cool[p][k] > t)

(* The database has the slot as memory has it.                                *)
Fits(d, m, t, x, p, k) ==
  /\ x = "circuit" => d.circuit[p] = m.circuit[p]
  /\ x = "lanes" => Covers(d.sent[p][k], m.sent[p][k], t)
  /\ x = "cooldown" => d.cool[p][k] >= m.cool[p][k] - Slack

(* The last operation of q in T, or the database if q has none, is good.        *)
Settles(q, T, G, b) ==
  \/ \E n \in 1..Len(q) :
       q[n] \in T /\ q[n] \in G /\ \A j \in 1..Len(q) : j > n /\ q[j] \in T => q[j] \in G
  \/ b /\ \A j \in 1..Len(q) : q[j] \in T => q[j] \in G

Complete ==
  /\ saved \in {"no", "built", "sent"}
  /\ saved # "no" => up = "up" /\ \A t \in Task : task[t] = Idle
  /\ saved = "built" =>
       /\ batch \in Seq(Fresh(mem, now))
       /\ \A x \in Kinds, p \in Provider, k \in Key \cup {None} : Slot(x, k) =>
            \/ Void(mem, now, x, p, k)
            \/ \E i \in 1..Len(batch) : batch[i] \in Writes(x, p, k)
  /\ saved = "sent" =>
       \A x \in Kinds, p \in Provider, k \in Key \cup {None} : Slot(x, k) =>
         \/ Void(mem, now, x, p, k)
         \/ Settles(queue, Writes(x, p, k), Fresh(mem, now), Fits(db, mem, now, x, p, k))

(* What apply_op writes, and where.                                          *)
LEMMA ApplyIs ==
  ASSUME NEW x \in Database, NEW o \in Op, NEW p \in Provider
  PROVE  /\ Apply(x, o).circuit[p]
              = IF o.op = "circuit" /\ o.provider = p THEN o.snap ELSE x.circuit[p]
         /\ \A k \in Key :
              /\ Apply(x, o).sent[p][k]
                   = IF o.op = "lanes" /\ o.provider = p /\ o.rows[k] # <<>>
                     THEN o.rows[k] ELSE x.sent[p][k]
              /\ Apply(x, o).cool[p][k]
                   = IF o.op = "cooldown" /\ o.provider = p /\ o.key = k
                     THEN o.until ELSE x.cool[p][k]
<1> DEFINE y == Apply(x, o)
<1>1. /\ x.health \in [Provider -> BOOLEAN \cup {None}] /\ x.pin \in [Session -> Nat \cup {None}]
      /\ x.circuit \in [Provider -> Circuit \cup {None}]
      /\ x.sent \in [Provider -> [Key -> Rows]] /\ x.cool \in [Provider -> [Key -> Nat]]
  BY DbIs
<1>2. CASE o.op = "health"
  <2> DEFINE v == [x.health EXCEPT ![o.provider] = o.healthy]
  <2>1. v \in [Provider -> BOOLEAN \cup {None}]
    BY <1>1, <1>2, OpIs
  <2>2. y = [x EXCEPT !.health = v]
    BY <1>2 DEF Apply
  <2> HIDE DEF v, y
  <2>3. y.circuit = x.circuit /\ y.sent = x.sent /\ y.cool = x.cool
    BY <2>1, <2>2, DbWith
  <2> QED BY <1>2, <2>3 DEF y
<1>3. CASE o.op = "sticky"
  <2> DEFINE v == [x.pin EXCEPT ![o.session] = o.expires]
  <2>1. v \in [Session -> Nat \cup {None}]
    BY <1>1, <1>3, OpIs
  <2>2. y = [x EXCEPT !.pin = v]
    BY <1>3 DEF Apply
  <2> HIDE DEF v, y
  <2>3. y.circuit = x.circuit /\ y.sent = x.sent /\ y.cool = x.cool
    BY <2>1, <2>2, DbWith
  <2> QED BY <1>3, <2>3 DEF y
<1>4. CASE o.op = "sweep"
  <2> DEFINE v == [s \in Session |->
                     IF x.pin[s] # None /\ x.pin[s] <= o.unix THEN None ELSE x.pin[s]]
  <2>1. v \in [Session -> Nat \cup {None}]
    BY <1>1
  <2>2. y = [x EXCEPT !.pin = v]
    BY <1>4 DEF Apply
  <2> HIDE DEF v, y
  <2>3. y.circuit = x.circuit /\ y.sent = x.sent /\ y.cool = x.cool
    BY <2>1, <2>2, DbWith
  <2> QED BY <1>4, <2>3 DEF y
<1>5. CASE o.op = "circuit"
  <2> DEFINE v == [x.circuit EXCEPT ![o.provider] = o.snap]
  <2>0. o.provider \in Provider /\ o.snap \in Circuit
    BY <1>5, OpIs
  <2>1. v \in [Provider -> Circuit \cup {None}]
    BY <1>1, <2>0
  <2>2. y = [x EXCEPT !.circuit = v]
    BY <1>5 DEF Apply
  <2>3. v[p] = IF p = o.provider THEN o.snap ELSE x.circuit[p]
    BY <1>1
  <2> HIDE DEF v, y
  <2>4. y.circuit = v /\ y.sent = x.sent /\ y.cool = x.cool
    BY <2>1, <2>2, DbWith
  <2> QED BY <1>5, <2>3, <2>4 DEF y
<1>6. CASE o.op = "lanes"
  <2> DEFINE row == [k \in Key |-> IF o.rows[k] = <<>> THEN x.sent[o.provider][k] ELSE o.rows[k]]
             v == [x.sent EXCEPT ![o.provider] = row]
  <2>0. o.provider \in Provider /\ o.rows \in [Key -> Rows]
    BY <1>6, OpIs
  <2>1. row \in [Key -> Rows] /\ v \in [Provider -> [Key -> Rows]]
    BY <1>1, <2>0
  <2>2. y = [x EXCEPT !.sent = v]
    BY <1>6 DEF Apply
  <2>3. v[p] = IF p = o.provider THEN row ELSE x.sent[p]
    BY <1>1
  <2>4. \A k \in Key : row[k] = IF o.rows[k] = <<>> THEN x.sent[o.provider][k] ELSE o.rows[k]
    OBVIOUS
  <2> HIDE DEF v, y, row
  <2>5. y.circuit = x.circuit /\ y.sent = v /\ y.cool = x.cool
    BY <2>1, <2>2, DbWith
  <2> QED BY <1>6, <2>3, <2>4, <2>5 DEF y
<1>7. CASE o.op = "cooldown"
  <2> DEFINE row == [x.cool[o.provider] EXCEPT ![o.key] = o.until]
             v == [x.cool EXCEPT ![o.provider] = row]
  <2>0. o.provider \in Provider /\ o.key \in Key /\ o.until \in Nat
    BY <1>7, OpIs
  <2>1. row \in [Key -> Nat] /\ v \in [Provider -> [Key -> Nat]]
    BY <1>1, <2>0
  <2>2. y = [x EXCEPT !.cool = v]
    BY <1>7 DEF Apply
  <2>3. /\ v[p] = IF p = o.provider THEN row ELSE x.cool[p]
        /\ \A k \in Key : row[k] = IF k = o.key THEN o.until ELSE x.cool[o.provider][k]
    BY <1>1, <2>0
  <2> HIDE DEF v, y, row
  <2>4. y.circuit = x.circuit /\ y.sent = x.sent /\ y.cool = v
    BY <2>1, <2>2, DbWith
  <2> QED BY <1>7, <2>3, <2>4 DEF y
<1> QED BY <1>2, <1>3, <1>4, <1>5, <1>6, <1>7, OpIs

(* A current operation of a slot makes it fit; the others leave it alone.        *)
LEMMA ApplyFits ==
  ASSUME NEW d \in Database, NEW o \in Op, NEW m, NEW t, NEW x \in Kinds, NEW p \in Provider,
         NEW k, Slot(x, k)
  PROVE  /\ o \in Writes(x, p, k) /\ o \in Fresh(m, t) => Fits(Apply(d, o), m, t, x, p, k)
         /\ o \notin Writes(x, p, k) /\ Fits(d, m, t, x, p, k) => Fits(Apply(d, o), m, t, x, p, k)
<1> DEFINE y == Apply(d, o)
<1>1. /\ y.circuit[p] = IF o.op = "circuit" /\ o.provider = p THEN o.snap ELSE d.circuit[p]
      /\ \A j \in Key :
           /\ y.sent[p][j] = IF o.op = "lanes" /\ o.provider = p /\ o.rows[j] # <<>>
                             THEN o.rows[j] ELSE d.sent[p][j]
           /\ y.cool[p][j] = IF o.op = "cooldown" /\ o.provider = p /\ o.key = j
                             THEN o.until ELSE d.cool[p][j]
  BY ApplyIs
<1> HIDE DEF y
<1>2. ASSUME o \in Writes(x, p, k), Current(o, m, t) PROVE Fits(y, m, t, x, p, k)
  <2>1. /\ o.op = x /\ o.provider = p
        /\ x = "lanes" => o.rows[k] # <<>>
        /\ x = "cooldown" => o.key = k
    BY <1>2 DEF Writes
  <2>2. CASE x = "circuit"
    BY <1>1, <1>2, <2>1, <2>2 DEF Fits, Current
  <2>3. CASE x = "lanes"
    <3>1. k \in Key /\ y.sent[p][k] = o.rows[k]
      BY <1>1, <2>1, <2>3 DEF Slot
    <3>2. Covers(o.rows[k], m.sent[p][k], t)
      BY <1>2, <2>1, <2>3, <3>1 DEF Current
    <3> QED BY <2>3, <3>1, <3>2 DEF Fits
  <2>4. CASE x = "cooldown"
    <3>1. k \in Key /\ y.cool[p][k] = o.until
      BY <1>1, <2>1, <2>4 DEF Slot
    <3>2. o.until >= m.cool[p][k] - Slack
      BY <1>2, <2>1, <2>4 DEF Current
    <3> QED BY <2>4, <3>1, <3>2 DEF Fits
  <2> QED BY <2>2, <2>3, <2>4 DEF Kinds
<1>3. ASSUME o \notin Writes(x, p, k), Fits(d, m, t, x, p, k) PROVE Fits(y, m, t, x, p, k)
  <2>1. ~ /\ o.op = x /\ o.provider = p
          /\ x = "lanes" => o.rows[k] # <<>>
          /\ x = "cooldown" => o.key = k
    BY <1>3 DEF Writes
  <2>2. x = "circuit" => y.circuit[p] = d.circuit[p]
    BY <1>1, <2>1
  <2>3. x = "lanes" => y.sent[p][k] = d.sent[p][k]
    BY <1>1, <2>1 DEF Slot
  <2>4. x = "cooldown" => y.cool[p][k] = d.cool[p][k]
    BY <1>1, <2>1 DEF Slot
  <2> QED BY <1>3, <2>2, <2>3, <2>4 DEF Fits
<1> QED BY <1>2, <1>3 DEF y, Fresh

(* The writer takes one operation of a queue that settles.                      *)
LEMMA SettlesTail ==
  ASSUME NEW q \in Seq(Op), q # <<>>, NEW T, NEW G, NEW b, NEW c, Settles(q, T, G, b),
         Head(q) \in T /\ Head(q) \in G => c, Head(q) \notin T /\ b => c
  PROVE  Settles(Tail(q), T, G, c)
<1> DEFINE r == Tail(q)
<1>1. /\ Len(q) \in Nat /\ Len(q) >= 1 /\ Len(r) = Len(q) - 1 /\ Head(q) = q[1]
      /\ \A j \in 1..Len(r) : r[j] = q[j + 1] /\ j + 1 \in 1..Len(q)
  OBVIOUS
<1> HIDE DEF r
<1>2. CASE b /\ \A j \in 1..Len(q) : q[j] \in T => q[j] \in G
  <2>1. 1 \in 1..Len(q)
    BY <1>1
  <2>2. c
    BY <1>1, <1>2, <2>1
  <2>3. \A j \in 1..Len(r) : r[j] \in T => r[j] \in G
    BY <1>1, <1>2
  <2> QED BY <2>2, <2>3 DEF Settles, r
<1>3. CASE \E n \in 1..Len(q) :
        q[n] \in T /\ q[n] \in G /\ \A j \in 1..Len(q) : j > n /\ q[j] \in T => q[j] \in G
  <2>1. PICK n \in 1..Len(q) :
          q[n] \in T /\ q[n] \in G /\ \A j \in 1..Len(q) : j > n /\ q[j] \in T => q[j] \in G
    BY <1>3
  <2>2. CASE n = 1
    <3>1. c
      BY <1>1, <2>1, <2>2
    <3>2. \A j \in 1..Len(r) : j + 1 > n
      BY <1>1, <2>2
    <3>3. \A j \in 1..Len(r) : r[j] \in T => r[j] \in G
      BY <1>1, <2>1, <3>2
    <3> QED BY <3>1, <3>3 DEF Settles, r
  <2>3. CASE n # 1
    <3>1. n - 1 \in 1..Len(r) /\ (n - 1) + 1 = n
      BY <1>1, <2>3
    <3>2. r[n - 1] = q[n]
      BY <1>1, <3>1
    <3>3. \A j \in 1..Len(r) : j > n - 1 => j + 1 > n
      BY <1>1, <3>1
    <3>4. \A j \in 1..Len(r) : j > n - 1 /\ r[j] \in T => r[j] \in G
      BY <1>1, <2>1, <3>3
    <3> QED BY <2>1, <3>1, <3>2, <3>4 DEF Settles, r
  <2> QED BY <2>2, <2>3
<1> QED BY <1>2, <1>3 DEF Settles

(* A tick of good operations, one of them in T, settles whatever is before it.  *)
LEMMA SettlesTick ==
  ASSUME NEW q \in Seq(Op), NEW f \in Seq(Op), NEW e \in Seq(Op), NEW T, NEW G, NEW b,
         \A i \in 1..Len(f) : f[i] \in G, \E i \in 1..Len(f) : f[i] \in T,
         \A i \in 1..Len(e) : e[i] \notin T
  PROVE  Settles((q \o f) \o e, T, G, b)
<1> DEFINE r == (q \o f) \o e
           n == Len(q)
           l == Len(f)
<1>1. /\ n \in Nat /\ l \in Nat /\ Len(e) \in Nat /\ Len(r) = n + l + Len(e)
      /\ \A j \in 1..Len(r) : r[j] = IF j <= n THEN q[j]
                                     ELSE IF j <= n + l THEN f[j - n] ELSE e[j - (n + l)]
  OBVIOUS
<1>2. PICK i \in 1..Len(f) : f[i] \in T
  OBVIOUS
<1> HIDE DEF r, n
<1>3. n + i \in 1..Len(r) /\ r[n + i] = f[i]
  BY <1>1
<1>4. ASSUME NEW j \in 1..Len(r), j > n + i, r[j] \in T PROVE r[j] \in G
  <2>1. CASE j <= n + l
    <3>1. j - n \in 1..Len(f) /\ r[j] = f[j - n]
      BY <1>1, <1>4, <2>1
    <3> QED BY <3>1
  <2>2. CASE j > n + l
    <3>1. j - (n + l) \in 1..Len(e) /\ r[j] = e[j - (n + l)]
      BY <1>1, <1>4, <2>2
    <3> QED BY <1>4, <3>1
  <2> QED BY <1>1, <2>1, <2>2
<1> QED BY <1>2, <1>3, <1>4 DEF Settles, r

(* It settles as well when more is good.                                      *)
LEMMA SettlesOn ==
  ASSUME NEW q \in Seq(Op), NEW T, NEW G, NEW H, NEW b, NEW c, Settles(q, T, G, b),
         \A o \in Op : o \in G => o \in H, b => c
  PROVE  Settles(q, T, H, c)
<1>1. \A j \in 1..Len(q) : q[j] \in G => q[j] \in H
  OBVIOUS
<1> QED BY <1>1 DEF Settles

(* What does not touch the persisted part of memory.                          *)
Alike(m, n) ==
  n.circuit = m.circuit /\ n.sent = m.sent /\ n.cool = m.cool

(* A slot as time passes.                                                   *)
LEMMA SlotOn ==
  ASSUME NEW m \in Memory, NEW n, Alike(m, n), NEW t \in Nat, NEW u \in Nat, t <= u
  PROVE  /\ \A o \in Op : o \in Fresh(m, t) => o \in Fresh(n, u)
         /\ \A x \in Kinds, p \in Provider : \A k : Slot(x, k) =>
              /\ Void(m, t, x, p, k) => Void(n, u, x, p, k)
              /\ \A d : Fits(d, m, t, x, p, k) => Fits(d, n, u, x, p, k)
<1>1. Window \in Nat
  BY Consts
<1>2. ASSUME NEW p \in Provider, NEW k \in Key, NEW i \in 1..Len(m.sent[p][k]),
             u - m.sent[p][k][i].at < Window
      PROVE  t - m.sent[p][k][i].at < Window
  <2>1. m.sent[p][k] \in Rows
    BY MemIs
  <2>2. m.sent[p][k][i].at \in Int
    BY <2>1, RowIs
  <2> QED BY <1>1, <1>2, <2>2, SMTT(30)
<1>3. ASSUME NEW p \in Provider, NEW k \in Key, NEW f, Covers(f, m.sent[p][k], t)
      PROVE  Covers(f, n.sent[p][k], u)
  <2>1. n.sent[p][k] = m.sent[p][k]
    BY DEF Alike
  <2> QED BY <1>2, <1>3, <2>1 DEF Covers
<1>5. ASSUME NEW o \in Op, Current(o, m, t) PROVE Current(o, n, u)
  <2>1. o.op = "circuit" => o.snap = n.circuit[o.provider]
    BY <1>5 DEF Current, Alike
  <2>2. o.op = "lanes" => \A k \in Key : Covers(o.rows[k], n.sent[o.provider][k], u)
    BY <1>3, <1>5, OpIs DEF Current
  <2>3. o.op = "cooldown" => o.until >= n.cool[o.provider][o.key] - Slack
    BY <1>5 DEF Current, Alike
  <2> QED BY <2>1, <2>2, <2>3 DEF Current
<1>6. ASSUME NEW x \in Kinds, NEW p \in Provider, NEW k, Slot(x, k), Void(m, t, x, p, k)
      PROVE  Void(n, u, x, p, k)
  <2>1. CASE x = "lanes"
    <3>1. k \in Key /\ n.sent[p][k] = m.sent[p][k]
      BY <1>6, <2>1 DEF Slot, Alike
    <3> QED BY <1>2, <1>6, <2>1, <3>1 DEF Void
  <2>2. CASE x = "cooldown"
    <3>1. k \in Key
      BY <1>6, <2>2 DEF Slot
    <3>2. n.cool[p][k] = m.cool[p][k] /\ m.cool[p][k] \in Nat
      <4>1. m.cool[p][k] \in Nat
        BY <3>1, MemIs
      <4> QED BY <4>1 DEF Alike
    <3> DEFINE c == m.cool[p][k]
    <3> HIDE DEF c
    <3>3. ~(c > t)
      BY <1>6, <2>2 DEF Void, c
    <3>4. ~(c > u)
      BY <3>2, <3>3 DEF c
    <3> QED BY <2>2, <3>2, <3>4 DEF Void, c
  <2>3. CASE x = "circuit"
    BY <1>6, <2>3 DEF Void
  <2> QED BY <2>1, <2>2, <2>3 DEF Kinds
<1>7. ASSUME NEW x \in Kinds, NEW p \in Provider, NEW k, Slot(x, k), NEW d, Fits(d, m, t, x, p, k)
      PROVE  Fits(d, n, u, x, p, k)
  <2>1. x = "circuit" => d.circuit[p] = n.circuit[p]
    BY <1>7 DEF Fits, Alike
  <2>2. x = "lanes" => Covers(d.sent[p][k], n.sent[p][k], u)
    BY <1>3, <1>7 DEF Fits, Slot
  <2>3. x = "cooldown" => d.cool[p][k] >= n.cool[p][k] - Slack
    BY <1>7 DEF Fits, Alike
  <2> QED BY <2>1, <2>2, <2>3 DEF Fits
<1> QED BY <1>5, <1>6, <1>7 DEF Fresh

(* A forgotten tick owes nothing.                                            *)
LEMMA Forgotten ==
  ASSUME saved' = "no" PROVE Complete'
BY DEF Complete

(* Only a serving process without open bookkeeping has one.                  *)
LEMMA SavedUp ==
  ASSUME Complete, up # "up" \/ \E t \in Task : task[t] # Idle PROVE saved = "no"
BY DEF Complete

(* What the invariant gives the tick.                                         *)
LEMMA SavedParts ==
  ASSUME IInv
  PROVE  /\ mem \in Memory /\ now \in Nat /\ now <= now /\ queue \in Seq(Op) /\ Alike(mem, mem)
         /\ up = "up" => db \in Database
BY ClockIs DEF IInv, Process, MemOK, QueueOK, Alike, Places

(* Time passes, or nothing does.                                              *)
LEMMA AdvanceSaved ==
  ASSUME IInv, Complete, now' \in Nat, now <= now',
         UNCHANGED <<up, mem, db, queue, task, batch, saved>>
  PROVE  Complete'
<1> DEFINE F == Fresh(mem, now)
           H == Fresh(mem, now')
<1>1. mem \in Memory /\ now \in Nat /\ queue \in Seq(Op) /\ Alike(mem, mem)
  BY SavedParts
<1>2. /\ \A o \in Op : o \in F => o \in H
      /\ \A x \in Kinds, p \in Provider : \A k : Slot(x, k) =>
           /\ Void(mem, now, x, p, k) => Void(mem, now', x, p, k)
           /\ \A d : Fits(d, mem, now, x, p, k) => Fits(d, mem, now', x, p, k)
  BY <1>1, SlotOn
<1>3. F \subseteq Op /\ F \subseteq H
  BY <1>2 DEF Fresh
<1> HIDE DEF F, H
<1>4. batch \in Seq(F) => batch \in Seq(H)
  BY <1>3
<1>5. ASSUME saved = "built"
      PROVE  /\ batch \in Seq(H)
             /\ \A x \in Kinds, p \in Provider, k \in Key \cup {None} : Slot(x, k) =>
                  \/ Void(mem, now', x, p, k)
                  \/ \E i \in 1..Len(batch) : batch[i] \in Writes(x, p, k)
  BY <1>2, <1>4, <1>5 DEF Complete, F
<1>6. ASSUME saved = "sent", NEW x \in Kinds, NEW p \in Provider, NEW k \in Key \cup {None},
             Slot(x, k)
      PROVE  \/ Void(mem, now', x, p, k)
             \/ Settles(queue, Writes(x, p, k), H, Fits(db, mem, now', x, p, k))
  <2>1. CASE Void(mem, now, x, p, k)
    BY <1>2, <1>6, <2>1
  <2>2. CASE Settles(queue, Writes(x, p, k), F, Fits(db, mem, now, x, p, k))
    <3> DEFINE b == Fits(db, mem, now, x, p, k)
               c == Fits(db, mem, now', x, p, k)
               T == Writes(x, p, k)
    <3>1. b => c
      BY <1>2, <1>6
    <3>2. Settles(queue, T, F, b)
      BY <2>2
    <3> HIDE DEF b, c, T
    <3>3. Settles(queue, T, H, c)
      BY <1>1, <1>2, <3>1, <3>2, SettlesOn
    <3> QED BY <3>3 DEF c, T
  <2> QED BY <1>6, <2>1, <2>2 DEF Complete, F
<1>7. saved \in {"no", "built", "sent"} /\ (saved # "no" => up = "up" /\ \A t \in Task : task[t] = Idle)
  BY DEF Complete
<1> QED BY <1>5, <1>6, <1>7 DEF Complete, H

(* The writer applies an operation.                                           *)
LEMMA WriteSaved ==
  ASSUME IInv, Complete, Write PROVE Complete'
<1> DEFINE F == Fresh(mem, now)
<1>1. /\ up = "up" /\ queue # <<>> /\ db' = Apply(db, Head(queue)) /\ queue' = Tail(queue)
      /\ UNCHANGED <<now, up, mem, task, batch, saved>>
  BY DEF Write, history
<1>2. queue \in Seq(Op) /\ db \in Database /\ Head(queue) \in Op
  BY <1>1, SavedParts
<1>3. ASSUME saved = "sent", NEW x \in Kinds, NEW p \in Provider, NEW k \in Key \cup {None},
             Slot(x, k)
      PROVE  \/ Void(mem, now, x, p, k)
             \/ Settles(queue', Writes(x, p, k), F, Fits(db', mem, now, x, p, k))
  <2>1. CASE Settles(queue, Writes(x, p, k), F, Fits(db, mem, now, x, p, k))
    <3> DEFINE b == Fits(db, mem, now, x, p, k)
               c == Fits(db', mem, now, x, p, k)
               T == Writes(x, p, k)
               h == Head(queue)
    <3>1. (h \in T /\ h \in F => c) /\ (h \notin T /\ b => c)
      BY <1>1, <1>2, <1>3, ApplyFits
    <3>2. Settles(queue, T, F, b)
      BY <2>1
    <3> HIDE DEF b, c, T, F
    <3>3. Settles(Tail(queue), T, F, c)
      BY <1>1, <1>2, <3>1, <3>2, SettlesTail
    <3> QED BY <1>1, <3>3 DEF c, T
  <2> QED BY <1>3, <2>1 DEF Complete
<1> QED BY <1>1, <1>3 DEF Complete

(* The tick is built from memory as it is.                                     *)
LEMMA SnapshotSaved ==
  ASSUME IInv, Snapshot PROVE Complete'
<1> DEFINE F == Fresh(mem, now)
           f == batch'
<1>1. /\ up = "up" /\ f = FlattenSeq(SetToSeq({SnapshotOps(p) : p \in Provider}))
      /\ saved' = IF \A t \in Task : task[t] = Idle THEN "built" ELSE "no"
      /\ UNCHANGED <<now, up, mem, db, queue, task>>
  BY DEF Snapshot
<1>2. Clocks /\ MemOK(mem, sends, ends, Drift) /\ mem \in Memory
  BY <1>1, Parts DEF Standing
<1>3. f \in Seq(Taken) /\ \A p \in Provider : Whole(f, p)
  BY <1>1, <1>2, TickIs
<1> HIDE DEF f
<1>4. Taken \subseteq F /\ Taken \subseteq Op
  BY DEF Taken, Fresh
<1>5. f \in Seq(F) /\ f \in Seq(Op) /\ \A i \in 1..Len(f) : f[i] \in F /\ f[i] \in Op
  <2> HIDE DEF F
  <2> QED BY <1>3, <1>4
<1>6. ASSUME NEW x \in Kinds, NEW p \in Provider, NEW k, Slot(x, k)
      PROVE  Void(mem, now, x, p, k) \/ \E i \in 1..Len(f) : f[i] \in Writes(x, p, k)
  <2>1. CASE x = "circuit"
    <3>1. PICK i \in 1..Len(f) : f[i].op = "circuit" /\ f[i].provider = p
      BY <1>3 DEF Whole
    <3>2. f[i] \in Writes(x, p, k)
      BY <1>5, <2>1, <3>1 DEF Writes
    <3> QED BY <3>2
  <2>2. CASE x = "lanes"
    <3>1. PICK i \in 1..Len(f) : f[i].op = "lanes" /\ f[i].provider = p
      BY <1>3 DEF Whole
    <3>2. CASE f[i].rows[k] # <<>>
      <4>1. f[i] \in Writes(x, p, k)
        BY <1>5, <2>2, <3>1, <3>2 DEF Writes
      <4> QED BY <4>1
    <3>3. CASE f[i].rows[k] = <<>>
      <4>1. k \in Key /\ Current(f[i], mem, now)
        BY <1>5, <1>6, <2>2 DEF Slot, Fresh
      <4>2. Covers(<<>>, mem.sent[p][k], now)
        BY <3>1, <3>3, <4>1 DEF Current
      <4>3. \A a : a \notin 1..Len(<<>>)
        OBVIOUS
      <4>4. \A j \in 1..Len(mem.sent[p][k]) : ~(now - mem.sent[p][k][j].at < Window)
        <5> DEFINE e == <<>>
        <5>1. Covers(e, mem.sent[p][k], now) /\ \A a : a \notin 1..Len(e)
          BY <4>2, <4>3
        <5> HIDE DEF e
        <5> QED BY <5>1 DEF Covers
      <4> QED BY <2>2, <4>4 DEF Void
    <3> QED BY <3>2, <3>3
  <2>3. CASE x = "cooldown"
    <3>1. k \in Key
      BY <1>6, <2>3 DEF Slot
    <3>2. CASE mem.cool[p][k] > now
      <4>1. PICK i \in 1..Len(f) : f[i].op = "cooldown" /\ f[i].provider = p /\ f[i].key = k
        BY <1>3, <3>1, <3>2 DEF Whole
      <4>2. f[i] \in Writes(x, p, k)
        BY <1>5, <2>3, <4>1 DEF Writes
      <4> QED BY <4>2
    <3> QED BY <2>3, <3>2 DEF Void
  <2> QED BY <2>1, <2>2, <2>3 DEF Kinds
<1> QED BY <1>1, <1>5, <1>6 DEF Complete, f

(* The tick is sent: its operations come last in the queue.                     *)
LEMMA PersistOnceSaved ==
  ASSUME IInv, Complete, PersistOnce PROVE Complete'
<1> DEFINE expired == {s \in Session : mem.pin[s] # None /\ ~Live(mem.pin[s])}
           sweep == [op |-> "sweep", unix |-> Unix]
           tail == IF expired = {} THEN <<>> ELSE <<sweep, sweep>>
           v == [s \in Session |-> IF s \in expired THEN None ELSE mem.pin[s]]
           F == Fresh(mem, now)
           H == Fresh(mem', now)
<1>1. /\ up = "up" /\ batch # None
      /\ mem' = [mem EXCEPT !.pin = v] /\ queue' = (queue \o batch) \o tail
      /\ saved' = IF saved = "built" THEN "sent" ELSE "no"
      /\ UNCHANGED <<now, up, db, task>>
  BY DEF PersistOnce
<1>2. mem \in Memory /\ now \in Nat /\ now <= now /\ queue \in Seq(Op)
  BY SavedParts
<1>3. v \in [Session -> Nat \cup {None}]
  <2>1. mem.pin \in [Session -> Nat \cup {None}]
    BY <1>2, MemIs
  <2> HIDE DEF expired
  <2> QED BY <2>1
<1> HIDE DEF v
<1>4. Alike(mem, mem')
  <2>1. /\ mem'.circuit = mem.circuit /\ mem'.sent = mem.sent
        /\ mem'.cool = mem.cool
    BY <1>1, <1>2, <1>3, MemWith
  <2> QED BY <2>1 DEF Alike
<1>5. /\ \A o \in Op : o \in F => o \in H
      /\ \A x \in Kinds, p \in Provider : \A k : Slot(x, k) =>
           (Void(mem, now, x, p, k) => Void(mem', now, x, p, k))
  BY <1>2, <1>4, SlotOn
<1>6. sweep \in Op /\ sweep.op = "sweep"
  <2>1. Unix \in Nat
    BY ClockIs DEF IInv
  <2> QED BY <2>1, PinOpMade
<1>7. tail \in Seq(Op) /\ \A i \in 1..Len(tail) : tail[i] = sweep
  <2> HIDE DEF sweep, expired
  <2>1. CASE expired = {}
    <3>1. tail = <<>> /\ <<>> \in Seq(Op) /\ Len(<<>>) = 0
      BY <2>1
    <3> QED BY <3>1
  <2>2. CASE expired # {}
    <3>1. tail = <<sweep, sweep>>
      BY <2>2
    <3> QED BY <1>6, <3>1
  <2> QED BY <2>1, <2>2
<1>8. \A x \in Kinds, p \in Provider : \A k : sweep \notin Writes(x, p, k)
  BY <1>6 DEF Writes, Kinds
<1> HIDE DEF tail, sweep, expired
<1>9. CASE saved = "built"
  <2>1. /\ batch \in Seq(F) /\ saved' = "sent"
        /\ \A x \in Kinds, p \in Provider, k \in Key \cup {None} : Slot(x, k) =>
             \/ Void(mem, now, x, p, k)
             \/ \E i \in 1..Len(batch) : batch[i] \in Writes(x, p, k)
    BY <1>1, <1>9 DEF Complete
  <2>2. F \subseteq Op
    BY DEF Fresh
  <2> HIDE DEF F, H
  <2>3. batch \in Seq(Op) /\ \A i \in 1..Len(batch) : batch[i] \in H
    BY <1>5, <2>1, <2>2
  <2>4. ASSUME NEW x \in Kinds, NEW p \in Provider, NEW k \in Key \cup {None}, Slot(x, k)
        PROVE  \/ Void(mem', now, x, p, k)
               \/ Settles(queue', Writes(x, p, k), H, Fits(db, mem', now, x, p, k))
    <3>1. CASE Void(mem, now, x, p, k)
      BY <1>5, <2>4, <3>1
    <3>2. CASE \E i \in 1..Len(batch) : batch[i] \in Writes(x, p, k)
      <4> DEFINE T == Writes(x, p, k)
                 c == Fits(db, mem', now, x, p, k)
      <4>1. \E i \in 1..Len(batch) : batch[i] \in T
        BY <3>2
      <4>2. \A i \in 1..Len(tail) : tail[i] \notin T
        BY <1>7, <1>8
      <4> HIDE DEF T, c
      <4>3. Settles((queue \o batch) \o tail, T, H, c)
        BY <1>2, <1>7, <2>3, <4>1, <4>2, SettlesTick
      <4> QED BY <1>1, <4>3 DEF T, c
    <3> QED BY <2>1, <2>4, <3>1, <3>2
  <2>5. \A t \in Task : task'[t] = Idle
    BY <1>1, <1>9 DEF Complete
  <2> QED BY <1>1, <2>1, <2>4, <2>5 DEF Complete, H
<1>10. CASE saved # "built"
  BY <1>1, <1>10, Forgotten
<1> QED BY <1>9, <1>10

(* Every step keeps it.                                                      *)
LEMMA CompleteStep ==
  ASSUME IInv, Complete, [Next]_vars PROVE Complete'
<1>0. now \in Nat /\ now <= now
  BY SavedParts
<1>1. CASE UNCHANGED vars
  BY <1>0, <1>1, AdvanceSaved DEF vars, process, history
<1>2. CASE \E t \in Task :
        \/ FinishSuccess(t) \/ FinishFailure(t) \/ RecordAttempt(t) \/ ProbeOnce(t)
        \/ SetSticky(t) \/ Penalize(t)
  <2>1. saved' = "no"
    BY <1>2, ZenonT(30)
       DEF FinishSuccess, FinishFailure, RecordAttempt, ProbeOnce, Begin, SetSticky, Penalize
  <2> QED BY <2>1, Forgotten
<1>3. CASE \E t \in Task : LastOp(t)
  <2>1. PICK t \in Task : LastOp(t)
    BY <1>3
  <2>2. task[t].op # None /\ saved' = saved
    BY <2>1 DEF LastOp, history
  <2>3. task[t] # Idle
    BY <2>2, IdleIs
  <2>4. saved' = "no"
    BY <2>2, <2>3, SavedUp
  <2> QED BY <2>4, Forgotten
<1>4. CASE \E p \in Provider : \/ Allow(p)
                               \/ \E k \in Key : \/ Send(p, k)
                                                 \/ \E b \in Backoffs : EnterCooldown(p, k, b)
  <2>1. saved' = "no"
    BY <1>4 DEF Allow, Send, EnterCooldown
  <2> QED BY <2>1, Forgotten
<1>5. CASE Snapshot \/ PersistOnce \/ Write
  BY <1>5, SnapshotSaved, PersistOnceSaved, WriteSaved
<1>6. CASE WriteFails \/ Kill
  <2>1. saved' = "no"
    BY <1>6 DEF WriteFails, Kill
  <2> QED BY <2>1, Forgotten
<1>7. CASE \/ FirstBoot \/ ImportFails \/ Boot
           \/ \E p \in DOMAIN LegacyHealth : ImportHealth(p)
           \/ \E s \in DOMAIN Legacy : ImportPin(s)
           \/ \E s \in DOMAIN Affinity : ImportAffinity(s)
  <2>1. up # "up" /\ saved' = saved
    BY <1>7 DEF FirstBoot, ImportFails, Boot, ImportHealth, ImportPin, ImportAffinity, Copy, history
  <2>2. saved' = "no"
    BY <2>1, SavedUp
  <2> QED BY <2>2, Forgotten
<1>8. CASE Advance
  <2>1. now' = now + 1 /\ UNCHANGED <<up, mem, db, queue, task, batch, saved>>
    BY <1>8 DEF Advance, process, history
  <2>2. now' \in Nat /\ now <= now'
    BY <1>0, <2>1
  <2> QED BY <2>1, <2>2, AdvanceSaved
<1>9. CASE Next
  BY <1>2, <1>3, <1>4, <1>5, <1>6, <1>7, <1>8, <1>9 DEF Next
<1> QED BY <1>1, <1>9

(* What a complete tick in the database gives back.                            *)
LEMMA RestartHolds ==
  ASSUME IInv, Complete PROVE RestartLosesNothing
<1> SUFFICES ASSUME saved = "sent", queue = <<>>, NEW p \in Provider
             PROVE  /\ Restored.circuit[p].state = mem.circuit[p].state
                    /\ Restored.circuit[p].failures = mem.circuit[p].failures
                    /\ \A k \in Key :
                         /\ \A r \in Counted(p, k) : r.at + Window - now > Slack =>
                              \E i \in DOMAIN Restored.sent[p][k] : Restored.sent[p][k][i].id = r.id
                         /\ mem.cool[p][k] - now > Slack =>
                              Restored.cool[p][k] >= mem.cool[p][k] - Slack
  BY DEF RestartLosesNothing, Slack
<1>1. up = "up"
  BY DEF Complete
<1>2. /\ Clocks /\ mem \in Memory /\ DbOK(db, sends, ends, Drift + Slack, Drift) /\ db \in Database
      /\ ends \in Ends /\ sends \in Seq(Nat) /\ now \in Nat /\ Drift \in Nat
  BY <1>1, Parts DEF Standing, DbOK
<1>3. /\ Slack \in Nat /\ Second \in Nat /\ Second >= 1 /\ Window \in Nat
      /\ Floor \in Nat /\ Floor <= now /\ now - Floor <= Slack /\ Unix \in Nat /\ Floor = Unix * Second
  BY <1>2, Consts, ClockIs
<1>4. ASSUME NEW x \in Kinds, NEW k \in Key \cup {None}, Slot(x, k), ~Void(mem, now, x, p, k)
      PROVE  Fits(db, mem, now, x, p, k)
  <2>1. Settles(queue, Writes(x, p, k), Fresh(mem, now), Fits(db, mem, now, x, p, k))
    BY <1>4 DEF Complete
  <2>2. \A n : n \notin 1..Len(queue)
    <3>1. Len(queue) = 0
      OBVIOUS
    <3> QED BY <3>1
  <2> QED BY <2>1, <2>2 DEF Settles
<1>5. /\ Restored.circuit[p] = RestoreCircuit(db.circuit[p])
      /\ \A k \in Key : /\ Restored.sent[p][k] = RestoreLane(db.sent[p][k])
                        /\ Restored.cool[p][k] = RestoreCooldown(db.cool[p][k])
  BY DEF Restored
<1> HIDE DEF Restored
<1>6. /\ Restored.circuit[p].state = mem.circuit[p].state
      /\ Restored.circuit[p].failures = mem.circuit[p].failures
  <2>1. db.circuit[p] = mem.circuit[p]
    <3>1. "circuit" \in Kinds /\ Slot("circuit", None) /\ ~Void(mem, now, "circuit", p, None)
      BY DEF Kinds, Slot, Void
    <3>2. Fits(db, mem, now, "circuit", p, None)
      BY <1>4, <3>1
    <3> QED BY <3>2 DEF Fits
  <2>2. db.circuit[p] # None
    <3>1. mem.circuit[p] \in Circuit
      BY <1>2, MemIs
    <3> QED BY <2>1, <3>1, ConstantsAssumption
  <2>3. CircuitOK(db.circuit[p], ends.open[p]) /\ ends.open[p] \in Nat
    BY <1>2, <2>2, EndIs DEF DbOK
  <2>4. /\ RestoreCircuit(db.circuit[p]).state = db.circuit[p].state
        /\ RestoreCircuit(db.circuit[p]).failures = db.circuit[p].failures
    BY <1>2, <2>2, <2>3, CircuitRestored
  <2> QED BY <1>5, <2>1, <2>4
<1>8. ASSUME NEW k \in Key, mem.cool[p][k] - now > Slack
      PROVE  Restored.cool[p][k] >= mem.cool[p][k] - Slack
  <2> DEFINE u == db.cool[p][k]
             w == mem.cool[p][k]
  <2>1. u \in Nat /\ w \in Nat
    <3>1. u \in Nat
      BY <1>2, DbIs
    <3>2. w \in Nat
      BY <1>2, MemIs
    <3> QED BY <3>1, <3>2
  <2>2. w > now
    <3>1. w - now > Slack
      BY <1>8
    <3> HIDE DEF w
    <3> QED BY <1>2, <1>3, <2>1, <3>1
  <2>3. u >= w - Slack
    <3>1. "cooldown" \in Kinds /\ Slot("cooldown", k) /\ ~Void(mem, now, "cooldown", p, k)
      BY <2>2 DEF Kinds, Slot, Void
    <3>2. Fits(db, mem, now, "cooldown", p, k)
      BY <1>4, <3>1
    <3> QED BY <3>2 DEF Fits
  <2>4. Restored.cool[p][k] = IF u <= Floor THEN 0 ELSE now + (u - Floor)
    BY <1>5 DEF RestoreCooldown
  <2>5. w - now > Slack
    BY <1>8
  <2> HIDE DEF u, w
  <2>6. Restored.cool[p][k] >= w - Slack
    BY <1>2, <1>3, <2>1, <2>3, <2>4, <2>5
  <2> QED BY <2>6 DEF w
<1>9. ASSUME NEW k \in Key, NEW r \in Counted(p, k), r.at + Window - now > Slack
      PROVE  \E i \in DOMAIN Restored.sent[p][k] : Restored.sent[p][k][i].id = r.id
  <2> DEFINE s == mem.sent[p][k]
             f == db.sent[p][k]
             g == RestoreLane(f)
  <2>1. s \in Rows /\ DOMAIN s = 1..Len(s)
    <3>1. s \in Rows
      BY <1>2, MemIs
    <3> HIDE DEF s
    <3> QED BY <3>1 DEF Rows
  <2>2. r \in Range(s) /\ now - r.at < Window
    BY <1>9 DEF Counted, InWindow
  <2>3. Restored.sent[p][k] = g
    BY <1>5
  <2>4. LaneOK(f, sends, Drift + Slack, Drift)
    BY <1>2 DEF DbOK
  <2>5. ~Void(mem, now, "lanes", p, k) => Covers(f, s, now)
    <3>1. "lanes" \in Kinds /\ Slot("lanes", k)
      BY DEF Kinds, Slot
    <3> QED BY <1>4, <3>1 DEF Fits
  <2>6. Void(mem, now, "lanes", p, k) => \A i \in 1..Len(s) : ~(now - s[i].at < Window)
    BY DEF Void
  <2> HIDE DEF s, f, g
  <2>7. PICK i \in 1..Len(s) : r = s[i]
    BY <2>1, <2>2 DEF Range
  <2>8. Covers(f, s, now)
    BY <2>2, <2>5, <2>6, <2>7
  <2>9. PICK a \in 1..Len(f) : f[a].id = s[i].id /\ f[a].at >= s[i].at - Slack
    BY <2>2, <2>7, <2>8 DEF Covers
  <2>10. f \in Rows
    BY <2>4 DEF LaneOK
  <2>11. Floor - f[a].at < Window
    <3> DEFINE y == f[a].at
               z == s[i].at
    <3>1. y \in Int /\ z \in Int
      BY <2>1, <2>10, RowIs
    <3>2. y >= z - Slack /\ z + Window - now > Slack
      BY <1>9, <2>7, <2>9
    <3> HIDE DEF y, z
    <3>3. Floor - y < Window
      BY <1>2, <1>3, <3>1, <3>2
    <3> QED BY <3>3 DEF y
  <2>12. Drift + Slack \in Int /\ Drift \in Int
    BY <1>2, <1>3
  <2>13. /\ LaneOK(g, sends, Drift + Slack, Drift + Slack)
         /\ \A j \in 1..Len(f) : Floor - f[j].at < Window => Holds(g, f[j].id)
    BY <1>2, <2>4, <2>12, LaneRestored DEF g
  <2>14. Holds(g, r.id)
    BY <2>7, <2>9, <2>11, <2>13
  <2>15. DOMAIN g = 1..Len(g)
    BY <2>13 DEF LaneOK, Rows
  <2> QED BY <2>3, <2>14, <2>15 DEF Holds
<1> QED BY <1>6, <1>8, <1>9

(* persist_once, writer_loop and restore: once the operations of a tick that    *)
(* saw all of memory are applied and nothing has changed since, a kill and a     *)
(* restart bring back the same circuits, every send that still counts, and       *)
(* cooldowns that end at most a second early.                                   *)
THEOREM RestartTheorem == Spec => []RestartLosesNothing
<1>1. Init => IInv /\ Complete
  <2>1. Init => Complete
    BY DEF Init, Complete
  <2> QED BY <2>1, InitOK
<1>2. (IInv /\ Complete) /\ [Next]_vars => (IInv /\ Complete)'
  BY StepOK, CompleteStep
<1>3. IInv /\ Complete => RestartLosesNothing
  BY RestartHolds
<1> QED BY <1>1, <1>2, <1>3, PTL DEF Spec

-----------------------------------------------------------------------------
(* Pins.                                                                    *)

(* An operation on a pin: a renewal that is no later than the session's last   *)
(* use allows, or a sweep with a clock that is not ahead.                     *)
PinOp(o, end, u) ==
  /\ o.op = "sticky" => o.expires <= end.pin[o.session]
  /\ o.op = "sweep" => o.unix <= u

PinsIn(pins, end) == \A s \in Session : pins[s] # None => pins[s] <= end.pin[s]
PinLegacy(end) == \A s \in Session : LegacyEnd(s) <= end.pin[s]
PinTask(x, end, u) ==
  /\ x.todo # None /\ x.todo.do = "pin" => x.todo.unix + Ttl <= end.pin[x.todo.session]
  /\ x.todo # None \/ x.op # None => PinOp(x.op, end, u)
PinTasks(ts, end, u) == \A t \in Task : PinTask(ts[t], end, u)
PinQueue(q, end, u) == \A i \in 1..Len(q) : PinOp(q[i], end, u)
Pinless(b) == \A i \in 1..Len(b) : b[i].op \notin {"sticky", "sweep"}

PinInv ==
  /\ PinLegacy(ends) /\ PinsIn(mem.pin, ends)
  /\ (db # None \/ up # "down" => PinsIn(db.pin, ends))
  /\ PinTasks(task, ends, Unix) /\ PinQueue(queue, ends, Unix)
  /\ (batch # None => Pinless(batch))

(* What the invariant says of the types that matter here.                      *)
LEMMA PinTypes ==
  ASSUME IInv
  PROVE  /\ mem.pin \in [Session -> Nat \cup {None}] /\ mem \in Memory
         /\ db # None \/ up # "down" => db \in Database /\ db.pin \in [Session -> Nat \cup {None}]
         /\ task \in [Task -> Tasks] /\ queue \in Seq(Op)
         /\ batch # None => batch \in Seq(Op)
         /\ \A t \in Task : task[t].todo # None \/ task[t].op # None => task[t].op \in Op
         /\ ends \in Ends /\ ends.pin \in [Session -> Nat] /\ Unix \in Nat /\ now \in Nat
         /\ \A s \in Session : ends.pin[s] \in Nat
<1>1. Clocks /\ Process /\ Stored
  BY DEF IInv
<1>2. mem \in Memory /\ task \in [Task -> Tasks]
  BY <1>1 DEF Process, MemOK
<1>3. queue \in Seq(Op) /\ (batch # None => batch \in Seq(Op))
  BY <1>1 DEF Process, QueueOK
<1>4. \A t \in Task : task[t].todo # None \/ task[t].op # None => task[t].op \in Op
  BY <1>1 DEF Process, TaskOK, OpOK
<1>5. ends \in Ends /\ Unix \in Nat /\ now \in Nat
  BY <1>1, ClockIs
<1>6. db # None \/ up # "down" => db \in Database
  BY <1>1 DEF Stored, DbOK
<1>7. ends.pin \in [Session -> Nat]
  BY <1>5 DEF Ends
<1>8. ASSUME db # None \/ up # "down" PROVE db.pin \in [Session -> Nat \cup {None}]
  <2> DEFINE H == [Provider -> BOOLEAN \cup {None}]
             C == [Provider -> Circuit \cup {None}]
             R == [Provider -> [Key -> Rows]]
             L == [Provider -> [Key -> Nat]]
  <2> HIDE DEF H, C, R, L
  <2>1. db \in [health : H, pin : [Session -> Nat \cup {None}], circuit : C, sent : R, cool : L]
    BY <1>6, <1>8 DEF Database, H, C, R, L
  <2> QED BY <2>1
<1> QED BY <1>2, <1>3, <1>4, <1>5, <1>6, <1>7, <1>8, MemIs

(* Later ends and a later clock keep what a step does not touch.               *)
LEMMA PinsOn ==
  ASSUME IInv, PinInv, NEW end \in Ends, NEW u \in Nat, Unix <= u,
         \A s \in Session : ends.pin[s] <= end.pin[s]
  PROVE  /\ PinLegacy(end) /\ PinsIn(mem.pin, end)
         /\ (db # None \/ up # "down" => PinsIn(db.pin, end))
         /\ PinTasks(task, end, u) /\ PinQueue(queue, end, u)
<1>1. \A s \in Session : ends.pin[s] \in Nat /\ end.pin[s] \in Nat
  BY PinTypes DEF Ends
<1>2. PinLegacy(end)
  BY <1>1, LegacyEndIs DEF PinInv, PinLegacy
<1>3. ASSUME NEW pins \in [Session -> Nat \cup {None}], PinsIn(pins, ends)
      PROVE  PinsIn(pins, end)
  <2> SUFFICES ASSUME NEW s \in Session, pins[s] # None PROVE pins[s] <= end.pin[s]
    BY DEF PinsIn
  <2>1. pins[s] \in Nat /\ pins[s] <= ends.pin[s]
    BY <1>3 DEF PinsIn
  <2> QED BY <1>1, <2>1
<1>4. ASSUME NEW o \in Op, PinOp(o, ends, Unix) PROVE PinOp(o, end, u)
  <2>1. o.op = "sticky" => o.expires <= end.pin[o.session]
    BY <1>1, <1>4, OpIs DEF PinOp
  <2>2. o.op = "sweep" => o.unix <= u
    <3>1. Unix \in Nat
      BY PinTypes
    <3> QED BY <1>4, <3>1, OpIs DEF PinOp
  <2> QED BY <2>1, <2>2 DEF PinOp
<1>5. PinQueue(queue, end, u)
  <2>1. \A i \in 1..Len(queue) : queue[i] \in Op
    BY PinTypes
  <2> QED BY <1>4, <2>1 DEF PinInv, PinQueue
<1>6. ASSUME NEW t \in Task PROVE PinTask(task[t], end, u)
  <2>1. PinTask(task[t], ends, Unix) /\ task[t] \in Tasks
    BY PinTypes DEF PinInv, PinTasks
  <2>2. task[t].todo # None \/ task[t].op # None => PinOp(task[t].op, end, u)
    BY <1>4, <2>1, PinTypes DEF PinTask
  <2>3. ASSUME task[t].todo # None, task[t].todo.do = "pin"
        PROVE  task[t].todo.unix + Ttl <= end.pin[task[t].todo.session]
    <3>1. task[t].todo.unix \in Nat /\ task[t].todo.session \in Session
      BY <2>1, <2>3, TodoIs
    <3>2. task[t].todo.unix + Ttl <= ends.pin[task[t].todo.session]
      BY <2>1, <2>3 DEF PinTask
    <3> QED BY <1>1, <3>1, <3>2, Consts
  <2> QED BY <2>2, <2>3 DEF PinTask
<1>7. PinsIn(mem.pin, end)
  BY <1>3, PinTypes DEF PinInv
<1>8. db # None \/ up # "down" => PinsIn(db.pin, end)
  BY <1>3, PinTypes DEF PinInv
<1> QED BY <1>2, <1>5, <1>6, <1>7, <1>8 DEF PinTasks

(* Whole seconds do not go back.                                               *)
LEMMA SecondsOn ==
  ASSUME NEW a \in Nat, NEW b \in Nat, a <= b PROVE a \div Second <= b \div Second
<1> DEFINE q == a \div Second
           r == b \div Second
<1>1. Second \in Nat /\ Second >= 1 /\ Slack = Second - 1
  BY Consts
<1>2. q \in Nat /\ q * Second \in Nat /\ q * Second <= a
  BY Division
<1>3. r \in Nat /\ r * Second \in Nat /\ b - r * Second <= Slack
  BY Division
<1> HIDE DEF q, r
<1>4. SUFFICES ASSUME q > r PROVE FALSE
  BY <1>2, <1>3 DEF q, r
<1>5. PICK d \in Nat : q = (r + 1) + d
  <2>1. q - (r + 1) \in Nat /\ q = (r + 1) + (q - (r + 1))
    BY <1>2, <1>3, <1>4
  <2> QED BY <2>1
<1>6. d * Second \in Nat
  BY <1>1
<1>7. q * Second = r * Second + Second + d * Second
  BY <1>1, <1>3, <1>5, SMTT(30)
<1> QED BY <1>1, <1>2, <1>3, <1>6, <1>7

(* A step keeps the invariant if what it changes is good.                       *)
LEMMA PinsKept ==
  ASSUME IInv, IInv', PinInv, now <= now', \A s \in Session : ends.pin[s] <= ends'.pin[s],
         mem'.pin = mem.pin \/ PinsIn(mem'.pin, ends'),
         \/ db' = db /\ (up' = up \/ up' = "down")
         \/ db'.pin = db.pin /\ (db # None \/ up # "down")
         \/ PinsIn(db'.pin, ends'),
         task' = task \/ PinTasks(task', ends', Unix'),
         queue' = queue \/ PinQueue(queue', ends', Unix'),
         batch' = batch \/ batch' = None \/ Pinless(batch')
  PROVE  PinInv'
<1>1. ends' \in Ends /\ Unix' \in Nat /\ now' \in Nat
  <2>1. Clocks'
    BY DEF IInv
  <2>2. ends' \in Ends /\ now' \in Nat
    BY <2>1 DEF Clocks
  <2> QED BY <2>2, Division DEF Unix
<1>2. Unix <= Unix'
  BY <1>1, PinTypes, SecondsOn DEF Unix
<1>3. /\ PinLegacy(ends') /\ PinsIn(mem.pin, ends')
      /\ (db # None \/ up # "down" => PinsIn(db.pin, ends'))
      /\ PinTasks(task, ends', Unix') /\ PinQueue(queue, ends', Unix')
  BY <1>1, <1>2, PinsOn
<1> QED BY <1>3 DEF PinInv

(* An attempt that changes its own entry.                                       *)
LEMMA PinTasksSet ==
  ASSUME IInv, NEW end, NEW u, PinTasks(task, end, u), NEW t \in Task, NEW x,
         PinTask(x, end, u), task' = [task EXCEPT ![t] = x]
  PROVE  PinTasks(task', end, u)
<1>1. task \in [Task -> Tasks]
  BY PinTypes
<1> QED BY <1>1 DEF PinTasks

(* An attempt that queues the operation it holds.                               *)
LEMMA PinQueued ==
  ASSUME IInv, PinInv, NEW t \in Task, task[t].todo # None \/ task[t].op # None,
         queue' = Append(queue, task[t].op)
  PROVE  PinQueue(queue', ends, Unix)
<1>1. PinOp(task[t].op, ends, Unix) /\ PinQueue(queue, ends, Unix)
  BY DEF PinInv, PinTasks, PinTask
<1>2. queue \in Seq(Op) /\ task[t].op \in Op
  BY PinTypes
<1> DEFINE q == queue
           o == task[t].op
<1> HIDE DEF q, o
<1>3. Len(Append(q, o)) = Len(q) + 1 /\ Len(q) \in Nat
      /\ \A i \in 1..Len(q) : Append(q, o)[i] = q[i]
      /\ Append(q, o)[Len(q) + 1] = o
  BY <1>2 DEF q, o
<1>4. ASSUME NEW i \in 1..Len(Append(q, o)) PROVE PinOp(Append(q, o)[i], ends, Unix)
  <2>1. i \in 1..Len(q) \/ i = Len(q) + 1
    BY <1>3
  <2> QED BY <1>1, <1>3, <2>1 DEF PinQueue, q, o
<1> QED BY <1>4 DEF PinQueue, q, o

(* finish_success, finish_failure, record_attempt and probe_once: the last use of  *)
(* the session is noted when its request succeeds.                              *)
LEMMA PinAttempt ==
  ASSUME IInv, IInv', PinInv, NEW t \in Task,
         FinishSuccess(t) \/ FinishFailure(t) \/ RecordAttempt(t) \/ ProbeOnce(t)
  PROVE  PinInv' /\ db' = db
<1> DEFINE Start(p, good, then) ==
      /\ mem'.pin = mem.pin
      /\ task' = [task EXCEPT ![t] = [todo |-> then, op |-> HealthOp(p, good)]]
      /\ \/ ends' = Used(ends, then)
         \/ ends' = Used([ends EXCEPT !.open[p] = now + Timeout], then)
      /\ UNCHANGED <<now, up, db, queue, batch>>
<1>1. /\ DOMAIN mem = {"health", "pin", "circuit", "sent", "cool"}
      /\ ends \in Ends /\ now \in Nat /\ Unix \in Nat /\ Timeout \in Nat
  BY PinTypes, Consts DEF Memory
<1>2. ASSUME NEW p \in Provider, NEW good \in BOOLEAN, NEW then \in Todo \cup {None},
             Start(p, good, then)
      PROVE  PinInv' /\ db' = db
  <2> DEFINE e == [ends EXCEPT !.open[p] = now + Timeout]
  <2>1. e \in Ends /\ e.pin = ends.pin
    <3>1. /\ ends.cool \in [Provider -> [Key -> Nat]] /\ ends.open \in [Provider -> Nat]
          /\ ends.pin \in [Session -> Nat] /\ DOMAIN ends = {"cool", "open", "pin"}
          /\ ends = [cool |-> ends.cool, open |-> ends.open, pin |-> ends.pin]
      BY <1>1 DEF Ends
    <3> DEFINE v == [ends.open EXCEPT ![p] = now + Timeout]
    <3>2. v \in [Provider -> Nat]
      BY <1>1, <3>1
    <3> HIDE DEF v
    <3>3. e = [ends EXCEPT !.open = v]
      BY <3>1 DEF v
    <3> HIDE DEF e
    <3>4. DOMAIN e = {"cool", "open", "pin"} /\ e.cool = ends.cool /\ e.open = v
          /\ e.pin = ends.pin
      BY <3>1, <3>3
    <3>5. e = [cool |-> ends.cool, open |-> v, pin |-> ends.pin]
      BY <3>1, <3>3
    <3> QED BY <3>1, <3>2, <3>4, <3>5 DEF Ends
  <2>2. PICK y \in Ends : y.pin = ends.pin /\ ends' = Used(y, then)
    BY <1>1, <1>2, <2>1
  <2>3. /\ \A s \in Session : ends.pin[s] <= ends'.pin[s]
        /\ then # None /\ then.do = "pin" => then.unix + Ttl <= ends'.pin[then.session]
    <3>1. /\ \A s \in Session : Used(y, then).pin[s] >= y.pin[s]
          /\ then # None /\ then.do = "pin" =>
               Used(y, then).pin[then.session] >= then.unix + Ttl
          /\ Used(y, then) \in Ends
      BY UsedIs
    <3>2. \A s \in Session : ends.pin[s] \in Nat /\ ends'.pin[s] \in Nat
      BY <1>1, <2>2, <3>1 DEF Ends
    <3>3. then # None /\ then.do = "pin" => then.unix \in Nat /\ then.session \in Session
      BY DEF Todo
    <3> QED BY <2>2, <3>1, <3>2, <3>3, Consts
  <2>4. now' = now /\ now <= now' /\ Unix' = Unix /\ Unix <= Unix
    BY <1>1, <1>2 DEF Unix
  <2>5. PinTasks(task', ends', Unix')
    <3> DEFINE x == [todo |-> then, op |-> HealthOp(p, good)]
    <3>1. x.todo = then /\ x.op = HealthOp(p, good) /\ x.op.op = "health"
      BY DEF HealthOp
    <3>2. PinTask(x, ends', Unix)
      <4> HIDE DEF x
      <4>1. PinOp(x.op, ends', Unix)
        BY <3>1 DEF PinOp
      <4> QED BY <2>3, <3>1, <4>1 DEF PinTask
    <3>3. ends' \in Ends
      BY DEF IInv, Clocks
    <3>4. PinTasks(task, ends', Unix)
      BY <1>1, <2>3, <2>4, <3>3, PinsOn
    <3>5. task' = [task EXCEPT ![t] = x]
      BY <1>2
    <3> HIDE DEF x
    <3>6. PinTasks(task', ends', Unix)
      BY <3>2, <3>4, <3>5, PinTasksSet
    <3> QED BY <2>4, <3>6
  <2>6. mem'.pin = mem.pin /\ db' = db /\ up' = up /\ queue' = queue /\ batch' = batch
    BY <1>2
  <2>7. \A s \in Session : ends.pin[s] <= ends'.pin[s]
    BY <2>3
  <2>8. PinInv'
    <3> HIDE DEF Start
    <3> QED BY <2>4, <2>5, <2>6, <2>7, PinsKept
  <2> QED BY <2>6, <2>8
<1>3. ASSUME NEW p \in Provider, NEW good \in BOOLEAN, NEW then \in Todo \cup {None},
             \/ Begin(t, p, good, RecordSuccess, then) \/ Begin(t, p, good, RecordFailure, then)
             \/ Begin(t, p, good, Unmoved, then)
      PROVE  PinInv' /\ db' = db
  <2>1. mem'.pin = mem.pin
    BY <1>1, <1>3 DEF Begin
  <2>2. Start(p, good, then)
    BY <1>3, <2>1 DEF Begin
  <2> HIDE DEF Start
  <2> QED BY <1>2, <2>2
<1> HIDE DEF Start
<1>4. /\ \A s \in Session : Pin(s) \in Todo
      /\ \A p \in Provider, k \in Key, b \in Backoffs : Cool(p, k, b) \in Todo
  BY <1>1, Consts DEF Pin, Cool, Todo
<1>5. CASE FinishSuccess(t)
  BY <1>3, <1>4, <1>5 DEF FinishSuccess
<1>6. CASE FinishFailure(t)
  <2>1. PICK p \in Provider, k \in Key, b \in Backoffs :
          Begin(t, p, FALSE, RecordFailure, Cool(p, k, b))
    BY <1>6 DEF FinishFailure
  <2>2. Cool(p, k, b) \in Todo
    BY <1>4
  <2> QED BY <1>3, <2>1, <2>2
<1>7. CASE RecordAttempt(t)
  BY <1>3, <1>7 DEF RecordAttempt
<1>8. CASE ProbeOnce(t)
  BY <1>3, <1>8 DEF ProbeOnce
<1> QED BY <1>5, <1>6, <1>7, <1>8

(* What a step without a new use keeps.                                         *)
LEMMA PinsStill ==
  ASSUME IInv, PinInv, now' = now, ends'.pin = ends.pin
  PROVE  /\ now <= now' /\ Unix' = Unix /\ \A s \in Session : ends.pin[s] <= ends'.pin[s]
         /\ \A o : PinOp(o, ends, Unix) => PinOp(o, ends', Unix')
         /\ \A q : PinQueue(q, ends, Unix) => PinQueue(q, ends', Unix')
         /\ \A ts : PinTasks(ts, ends, Unix) => PinTasks(ts, ends', Unix')
         /\ \A pins : PinsIn(pins, ends) => PinsIn(pins, ends')
<1>1. now \in Nat /\ \A s \in Session : ends.pin[s] \in Nat
  BY PinTypes
<1>2. now <= now' /\ Unix' = Unix /\ \A s \in Session : ends.pin[s] <= ends'.pin[s]
  BY <1>1 DEF Unix
<1>3. \A o : PinOp(o, ends, Unix) => PinOp(o, ends', Unix')
  BY <1>2 DEF PinOp
<1>4. \A q : PinQueue(q, ends, Unix) => PinQueue(q, ends', Unix')
  BY <1>3 DEF PinQueue
<1>5. \A x : PinTask(x, ends, Unix) => PinTask(x, ends', Unix')
  BY <1>3 DEF PinTask
<1>6. \A ts : PinTasks(ts, ends, Unix) => PinTasks(ts, ends', Unix')
  BY <1>5 DEF PinTasks
<1>7. \A pins : PinsIn(pins, ends) => PinsIn(pins, ends')
  BY DEF PinsIn
<1> QED BY <1>2, <1>3, <1>4, <1>6, <1>7

(* set_sticky: the expiry is that of the use it was computed for.                *)
LEMMA PinSetSticky ==
  ASSUME IInv, IInv', PinInv, NEW t \in Task, SetSticky(t) PROVE PinInv' /\ db' = db
<1> DEFINE s == task[t].todo.session
           n == task[t].todo.unix + Ttl
           o == StickyOp(s, n)
           x == [todo |-> None, op |-> o]
<1>1. /\ task[t].todo # None /\ task[t].todo.do = "pin"
      /\ mem' = [mem EXCEPT !.pin[s] = n] /\ task' = [task EXCEPT ![t] = x]
      /\ queue' = Append(queue, task[t].op)
      /\ UNCHANGED <<now, up, db, batch, ends>>
  BY DEF SetSticky
<1>2. PinTask(task[t], ends, Unix)
  BY DEF PinInv, PinTasks
<1>3. n <= ends.pin[s]
  BY <1>1, <1>2 DEF PinTask
<1>4. PinOp(o, ends, Unix)
  <2>1. o.op = "sticky" /\ o.session = s /\ o.expires = n
    BY DEF StickyOp
  <2> HIDE DEF o, s, n
  <2> QED BY <1>3, <2>1 DEF PinOp
<1>5. PinTask(x, ends, Unix)
  <2>1. x.todo = None /\ x.op = o
    OBVIOUS
  <2> HIDE DEF x, o
  <2> QED BY <1>4, <2>1 DEF PinTask
<1> HIDE DEF o, x
<1>6. PinTasks(task', ends, Unix)
  BY <1>1, <1>5, PinTasksSet DEF PinInv
<1>7. PinQueue(queue', ends, Unix)
  BY <1>1, PinQueued
<1>8. PinsIn(mem'.pin, ends)
  <2>1. mem.pin \in [Session -> Nat \cup {None}] /\ "pin" \in DOMAIN mem
    BY PinTypes DEF Memory
  <2>2. mem'.pin = [mem.pin EXCEPT ![s] = n]
    BY <1>1, <2>1
  <2> HIDE DEF s, n
  <2> QED BY <1>3, <2>1, <2>2 DEF PinInv, PinsIn
<1> QED BY <1>1, <1>6, <1>7, <1>8, PinsStill, PinsKept

(* penalize, and the operation after the last memory change.                     *)
LEMMA PinRest ==
  ASSUME IInv, IInv', PinInv, NEW t \in Task, Penalize(t) \/ LastOp(t) PROVE PinInv' /\ db' = db
<1>1. /\ task[t].todo # None \/ task[t].op # None
      /\ queue' = Append(queue, task[t].op) /\ UNCHANGED <<now, up, db, batch>>
  BY DEF Penalize, LastOp
<1>2. PinQueue(queue', ends, Unix)
  BY <1>1, PinQueued
<1>3. CASE Penalize(t)
  <2> DEFINE step == task[t].todo
             o == CooldownOp(step.provider, step.key, step.unix * Second + step.backoff)
             x == [todo |-> None, op |-> o]
  <2>1. /\ mem' = Penalized(mem, step.provider, step.key, step.backoff)
        /\ ends' = Penalized(ends, step.provider, step.key, step.backoff)
        /\ task' = [task EXCEPT ![t] = x]
    BY <1>3 DEF Penalize
  <2>2. "pin" \in DOMAIN mem /\ "pin" \in DOMAIN ends
    BY PinTypes DEF Memory, Ends
  <2>3. mem'.pin = mem.pin /\ ends'.pin = ends.pin
    BY <2>1, <2>2 DEF Penalized
  <2>4. x.todo = None /\ x.op.op = "cooldown"
    BY DEF CooldownOp
  <2> HIDE DEF x
  <2>5. PinTask(x, ends, Unix)
    BY <2>4 DEF PinTask, PinOp
  <2>6. PinTasks(task', ends, Unix)
    BY <2>1, <2>5, PinTasksSet DEF PinInv
  <2> QED BY <1>1, <1>2, <2>3, <2>6, PinsStill, PinsKept
<1>4. CASE LastOp(t)
  <2>1. task' = [task EXCEPT ![t] = Idle] /\ mem' = mem /\ ends' = ends
    BY <1>4 DEF LastOp, history
  <2>2. PinTask(Idle, ends, Unix)
    BY IdleIs DEF PinTask
  <2>3. PinTasks(task', ends, Unix)
    BY <2>1, <2>2, PinTasksSet DEF PinInv
  <2> QED BY <1>1, <1>2, <2>1, <2>3, PinsStill, PinsKept
<1> QED BY <1>3, <1>4

(* try_take, enter_cooldown and allow.                                          *)
LEMMA PinServing ==
  ASSUME IInv, IInv', PinInv, NEW p \in Provider,
         Allow(p) \/ \E k \in Key : Send(p, k) \/ \E b \in Backoffs : EnterCooldown(p, k, b)
  PROVE  PinInv' /\ db' = db
<1>1. "pin" \in DOMAIN mem /\ "pin" \in DOMAIN ends
  BY PinTypes DEF Memory, Ends
<1>2. UNCHANGED <<now, up, db, queue, task, batch>>
  BY DEF Allow, Send, EnterCooldown
<1>3. mem'.pin = mem.pin /\ ends'.pin = ends.pin
  <2>1. CASE Allow(p)
    BY <1>1, <2>1 DEF Allow
  <2>2. ASSUME NEW k \in Key, Send(p, k) PROVE mem'.pin = mem.pin /\ ends'.pin = ends.pin
    BY <1>1, <2>2 DEF Send
  <2>3. ASSUME NEW k \in Key, NEW b \in Backoffs, EnterCooldown(p, k, b)
        PROVE  mem'.pin = mem.pin /\ ends'.pin = ends.pin
    BY <1>1, <2>3 DEF EnterCooldown, Penalized
  <2> QED BY <2>1, <2>2, <2>3
<1> QED BY <1>2, <1>3, PinsStill, PinsKept

(* The tick carries no pin.                                                    *)
LEMMA PinSnapshot ==
  ASSUME IInv, IInv', PinInv, Snapshot PROVE PinInv' /\ db' = db
<1>1. /\ batch' = FlattenSeq(SetToSeq({SnapshotOps(p) : p \in Provider}))
      /\ UNCHANGED <<now, up, mem, db, queue, task, ends>> /\ up = "up"
  BY DEF Snapshot
<1>2. Clocks /\ MemOK(mem, sends, ends, Drift)
  BY <1>1, Parts DEF Standing
<1>3. batch' \in Seq(Taken)
  BY <1>1, <1>2, TickIs
<1>4. \A i \in 1..Len(batch') : batch'[i] \in Taken
  BY <1>3
<1>5. Pinless(batch')
  BY <1>4 DEF Pinless, Taken
<1> QED BY <1>1, <1>5, PinsStill, PinsKept

(* persist_once: memory loses pins that are over, the queue gets the tick and a  *)
(* sweep with the clock of now.                                                *)
LEMMA PinPersist ==
  ASSUME IInv, IInv', PinInv, PersistOnce PROVE PinInv' /\ db' = db
<1> DEFINE expired == {s \in Session : mem.pin[s] # None /\ ~Live(mem.pin[s])}
           sweep == [op |-> "sweep", unix |-> Unix]
           tail == IF expired = {} THEN <<>> ELSE <<sweep, sweep>>
           v == [s \in Session |-> IF s \in expired THEN None ELSE mem.pin[s]]
<1>1. /\ batch # None /\ batch' = None
      /\ mem' = [mem EXCEPT !.pin = v] /\ queue' = (queue \o batch) \o tail
      /\ UNCHANGED <<now, up, db, task, ends>>
  BY DEF PersistOnce
<1>2. PinsIn(mem'.pin, ends)
  <2>1. mem'.pin = v
    BY <1>1, PinTypes DEF Memory
  <2>2. \A s \in Session : v[s] # None => v[s] = mem.pin[s]
    OBVIOUS
  <2> HIDE DEF v
  <2> QED BY <2>1, <2>2 DEF PinInv, PinsIn
<1>3. sweep \in Op /\ PinOp(sweep, ends, Unix)
  <2>1. Unix \in Nat /\ sweep.op = "sweep" /\ sweep.unix = Unix
    BY PinTypes
  <2>2. sweep \in Op
    BY <2>1, PinOpMade
  <2> HIDE DEF sweep
  <2> QED BY <2>1, <2>2 DEF PinOp
<1> HIDE DEF expired, sweep
<1>4. tail \in Seq(Op) /\ \A i \in 1..Len(tail) : tail[i] = sweep
  BY <1>3
<1> HIDE DEF tail
<1>5. queue \in Seq(Op) /\ batch \in Seq(Op)
  BY <1>1, PinTypes
<1> DEFINE q == queue
           b == batch
           all == (q \o b) \o tail
<1> HIDE DEF q, b
<1>6. ASSUME NEW i \in 1..Len(all)
      PROVE  \/ \E j \in 1..Len(q) : all[i] = q[j]
             \/ \E j \in 1..Len(b) : all[i] = b[j]
             \/ \E j \in 1..Len(tail) : all[i] = tail[j]
  <2>1. q \in Seq(Op) /\ b \in Seq(Op) /\ tail \in Seq(Op)
    BY <1>4, <1>5 DEF q, b
  <2> DEFINE l == Len(q)
             m == Len(q) + Len(b)
  <2>2. /\ Len(all) = m + Len(tail) /\ l \in Nat /\ m \in Nat /\ l <= m /\ i \in Nat
    BY <2>1
  <2>3. /\ i <= l => all[i] = q[i]
        /\ i > l /\ i <= m => all[i] = b[i - l]
        /\ i > m => all[i] = tail[i - m]
    BY <2>1
  <2>4. CASE i <= l
    <3>1. i \in 1..Len(q)
      BY <2>2, <2>4
    <3> QED BY <2>3, <2>4, <3>1
  <2>5. CASE i > l /\ i <= m
    <3>1. i - l \in 1..Len(b)
      BY <2>1, <2>2, <2>5
    <3> QED BY <2>3, <2>5, <3>1
  <2>6. CASE i > m
    <3>1. i - m \in 1..Len(tail)
      BY <2>1, <2>2, <2>6
    <3> QED BY <2>3, <2>6, <3>1
  <2>7. i <= l \/ (i > l /\ i <= m) \/ i > m
    BY <2>2
  <2> HIDE DEF l, m, all
  <2> QED BY <2>4, <2>5, <2>6, <2>7
<1>7. /\ \A j \in 1..Len(q) : PinOp(q[j], ends, Unix)
      /\ \A j \in 1..Len(b) : PinOp(b[j], ends, Unix)
      /\ \A j \in 1..Len(tail) : PinOp(tail[j], ends, Unix)
  BY <1>1, <1>3, <1>4 DEF PinInv, PinQueue, Pinless, PinOp, q, b
<1>8. queue' = all
  BY <1>1 DEF q, b
<1> HIDE DEF all
<1>9. PinQueue(queue', ends, Unix)
  BY <1>6, <1>7, <1>8 DEF PinQueue
<1> QED BY <1>1, <1>2, <1>9, PinsStill, PinsKept

(* What apply_op does to the pins.                                             *)
LEMMA ApplyPins ==
  ASSUME NEW x \in Database, NEW o \in Op, NEW s \in Session,
         x.pin \in [Session -> Nat \cup {None}]
  PROVE  Apply(x, o).pin[s] =
           IF o.op = "sticky" /\ o.session = s THEN o.expires
           ELSE IF o.op = "sweep" /\ x.pin[s] # None /\ x.pin[s] <= o.unix THEN None
           ELSE x.pin[s]
<1>1. "pin" \in DOMAIN x
  BY DEF Database
<1>2. o.op \in {"health", "sticky", "sweep", "circuit", "lanes", "cooldown"}
      /\ (o.op = "sticky" => o.session \in Session)
  BY OpIs
<1>3. CASE o.op = "sticky"
  BY <1>1, <1>2, <1>3 DEF Apply
<1>4. CASE o.op = "sweep"
  BY <1>1, <1>4 DEF Apply
<1>5. CASE o.op = "health"
  BY <1>1, <1>5 DEF Apply
<1>6. CASE o.op = "circuit"
  BY <1>1, <1>6 DEF Apply
<1>7. CASE o.op = "lanes"
  BY <1>1, <1>7 DEF Apply
<1>8. CASE o.op = "cooldown"
  BY <1>1, <1>8 DEF Apply
<1> QED BY <1>2, <1>3, <1>4, <1>5, <1>6, <1>7, <1>8

(* writer_loop: a renewal writes no more than its use allows, and a sweep takes   *)
(* what its clock, and so this one, has passed.                                *)
LEMMA PinWriter ==
  ASSUME IInv, IInv', PinInv, Write \/ WriteFails PROVE PinInv' /\ NoLivePinLost
<1> DEFINE o == Head(queue)
<1>1. /\ up = "up" /\ queue # <<>> /\ queue' = Tail(queue)
      /\ db' = Apply(db, o) \/ db' = db
      /\ UNCHANGED <<now, up, mem, task, batch, ends>>
  BY DEF Write, WriteFails, history
<1>2. /\ queue \in Seq(Op) /\ Unix \in Nat /\ \A s \in Session : ends.pin[s] \in Nat
  BY PinTypes
<1>3. /\ o \in Op /\ o = queue[1] /\ 1 \in 1..Len(queue)
      /\ \A i \in 1..Len(Tail(queue)) : i + 1 \in 1..Len(queue) /\ Tail(queue)[i] = queue[i + 1]
  BY <1>1, <1>2
<1>4. PinOp(o, ends, Unix) /\ PinQueue(queue', ends, Unix)
  BY <1>1, <1>3 DEF PinInv, PinQueue
<1>5. db \in Database
  BY <1>1 DEF IInv, Places
<1>6. db.pin \in [Session -> Nat \cup {None}]
  <2> DEFINE H == [Provider -> BOOLEAN \cup {None}]
             C == [Provider -> Circuit \cup {None}]
             R == [Provider -> [Key -> Rows]]
             L == [Provider -> [Key -> Nat]]
  <2> HIDE DEF H, C, R, L
  <2>1. db \in [health : H, pin : [Session -> Nat \cup {None}], circuit : C, sent : R, cool : L]
    BY <1>5 DEF Database, H, C, R, L
  <2> QED BY <2>1
<1> HIDE DEF o
<1>7. \A s \in Session : Apply(db, o).pin[s] =
           IF o.op = "sticky" /\ o.session = s THEN o.expires
           ELSE IF o.op = "sweep" /\ db.pin[s] # None /\ db.pin[s] <= o.unix THEN None
           ELSE db.pin[s]
  BY <1>3, <1>5, <1>6, ApplyPins
<1>8. PinsIn(Apply(db, o).pin, ends)
  <2> SUFFICES ASSUME NEW s \in Session, Apply(db, o).pin[s] # None
               PROVE  Apply(db, o).pin[s] <= ends.pin[s]
    BY DEF PinsIn
  <2>1. CASE o.op = "sticky" /\ o.session = s
    BY <1>4, <1>7, <2>1 DEF PinOp
  <2>2. CASE ~(o.op = "sticky" /\ o.session = s)
    <3>1. Apply(db, o).pin[s] = db.pin[s] /\ db.pin[s] # None
      BY <1>7, <2>2
    <3>2. db.pin[s] <= ends.pin[s]
      BY <1>1, <3>1 DEF PinInv, PinsIn
    <3> QED BY <3>1, <3>2
  <2> QED BY <2>1, <2>2
<1>9. PinInv'
  BY <1>1, <1>4, <1>8, PinsStill, PinsKept
<1>10. NoLivePinLost
  <2> SUFFICES ASSUME NEW s \in Session, Live(db.pin[s]) PROVE db'.pin[s] # None
    BY DEF NoLivePinLost
  <2>1. db.pin[s] # None /\ db.pin[s] > Unix
    BY DEF Live
  <2>2. db.pin[s] \in Nat
    BY <1>6, <2>1
  <2>3. o.op = "sweep" => ~(db.pin[s] <= o.unix)
    <3>1. o.op = "sweep" => o.unix \in Nat /\ o.unix <= Unix
      BY <1>3, <1>4, OpIs DEF PinOp
    <3> QED BY <1>2, <2>1, <2>2, <3>1
  <2>4. CASE o.op = "sticky" /\ o.session = s
    <3>1. o.expires # None
      BY <1>3, <2>4, OpIs, ConstantsAssumption
    <3> QED BY <1>1, <1>7, <2>1, <2>4, <3>1
  <2> QED BY <1>1, <1>7, <2>1, <2>3, <2>4
<1> QED BY <1>9, <1>10

(* The import: the row of a session is carried with the end AstMatrix gave it,     *)
(* unless a pin is there already.                                              *)
LEMMA PinImport ==
  ASSUME IInv, IInv', PinInv, \/ \E p \in DOMAIN LegacyHealth : ImportHealth(p)
                              \/ \E s \in DOMAIN Legacy : ImportPin(s)
                              \/ \E s \in DOMAIN Affinity : ImportAffinity(s)
  PROVE  PinInv' /\ NoLivePinLost
<1>1. up = "importing" /\ UNCHANGED <<now, up, mem, queue, task, batch, ends>>
  BY DEF ImportHealth, ImportPin, ImportAffinity, Copy, process, history
<1>2. /\ db \in Database /\ db.pin \in [Session -> Nat \cup {None}]
      /\ \A s \in Session : ends.pin[s] \in Nat
  BY <1>1, PinTypes
<1>3. "pin" \in DOMAIN db
  BY <1>2 DEF Database
<1>4. /\ PinsIn(db.pin, ends) /\ PinLegacy(ends)
  BY <1>1 DEF PinInv
<1>5. CASE \E p \in DOMAIN LegacyHealth : ImportHealth(p)
  <2>1. db'.pin = db.pin
    BY <1>3, <1>5 DEF ImportHealth
  <2>2. PinInv'
    BY <1>1, <2>1, PinsStill, PinsKept
  <2> QED BY <2>1, <2>2 DEF NoLivePinLost, Live
<1>6. ASSUME NEW s \in Session, NEW e \in Nat, e <= LegacyEnd(s), db' = Carried(s, e)
      PROVE  PinInv' /\ NoLivePinLost
  <2>1. CASE db' = db
    <3>1. PinInv'
      BY <1>1, <2>1, PinsStill, PinsKept
    <3> QED BY <2>1, <3>1 DEF NoLivePinLost, Live
  <2>2. CASE db' # db
    <3>1. db.pin[s] = None /\ db' = [db EXCEPT !.pin[s] = e]
      BY <1>6, <2>2 DEF Carried
    <3>2. db'.pin = [db.pin EXCEPT ![s] = e]
      BY <1>3, <3>1
    <3>3. e <= ends.pin[s]
      <4>1. LegacyEnd(s) \in Nat /\ LegacyEnd(s) <= ends.pin[s]
        BY <1>4, LegacyEndIs DEF PinLegacy
      <4> QED BY <1>2, <1>6, <4>1
    <3>4. PinsIn(db'.pin, ends)
      BY <1>2, <1>4, <3>2, <3>3 DEF PinsIn
    <3>5. PinInv'
      BY <1>1, <3>4, PinsStill, PinsKept
    <3>6. NoLivePinLost
      BY <1>2, <3>1, <3>2 DEF NoLivePinLost, Live
    <3> QED BY <3>5, <3>6
  <2> QED BY <2>1, <2>2
<1>7. CASE \E s \in DOMAIN Legacy : ImportPin(s)
  <2>1. PICK s \in DOMAIN Legacy : db' = Carried(s, Legacy[s])
    BY <1>7 DEF ImportPin
  <2>2. s \in Session
    BY ConstantsAssumption
  <2> QED BY <1>6, <2>1, <2>2, LegacyEndIs
<1>8. CASE \E s \in DOMAIN Affinity : ImportAffinity(s)
  <2>1. PICK s \in DOMAIN Affinity : db' = Carried(s, Affinity[s] + Ttl)
    BY <1>8 DEF ImportAffinity
  <2>2. s \in Session
    BY ConstantsAssumption
  <2>3. Affinity[s] + Ttl \in Nat /\ Affinity[s] + Ttl <= LegacyEnd(s)
    BY <2>2, LegacyEndIs, Consts
  <2> QED BY <1>6, <2>1, <2>2, <2>3
<1> QED BY <1>5, <1>7, <1>8

(* First boot, an import that ends early, restore, a kill and the clock.         *)
LEMMA PinBoot ==
  ASSUME IInv, IInv', PinInv, FirstBoot \/ ImportFails \/ Boot \/ Kill \/ Advance
  PROVE  PinInv' /\ NoLivePinLost
<1>1. \A s \in Session : ends.pin[s] \in Nat
  BY PinTypes
<1>2. CASE FirstBoot
  <2>1. /\ db = None /\ db' = EmptyDb
        /\ UNCHANGED <<now, mem, queue, task, batch, ends>>
    BY <1>2 DEF FirstBoot, process, history
  <2>2. PinsIn(db'.pin, ends)
    BY <2>1 DEF PinsIn, EmptyDb
  <2>3. PinInv'
    BY <2>1, <2>2, PinsStill, PinsKept
  <2> QED BY <2>1, <2>3 DEF NoLivePinLost
<1>3. CASE ImportFails
  <2>1. UNCHANGED <<now, up, mem, db, queue, task, batch, ends>>
    BY <1>3 DEF ImportFails, process, history
  <2>2. PinInv'
    BY <2>1, PinsStill, PinsKept
  <2> QED BY <2>1, <2>2 DEF NoLivePinLost, Live
<1>4. CASE Boot
  <2>1. /\ db # None \/ up # "down"
        /\ mem'.pin = [s \in Session |-> Swept(db.pin[s])]
        /\ UNCHANGED <<now, queue, task, batch, ends>>
    BY <1>4 DEF Boot, Restored
  <2>2. db'.pin = [s \in Session |-> Swept(db.pin[s])]
    <3>1. "pin" \in DOMAIN db
      BY <2>1, PinTypes DEF Database
    <3> QED BY <1>4, <3>1 DEF Boot
  <2>3. PinsIn(db.pin, ends)
    BY <2>1 DEF PinInv
  <2>4. PinsIn(mem'.pin, ends) /\ PinsIn(db'.pin, ends)
    BY <2>1, <2>2, <2>3 DEF PinsIn, Swept
  <2>5. PinInv'
    BY <2>1, <2>4, PinsStill, PinsKept
  <2>6. NoLivePinLost
    BY <2>2 DEF NoLivePinLost, Swept, Live
  <2> QED BY <2>5, <2>6
<1>5. CASE Kill
  <2>1. /\ up' = "down" /\ mem' = Blank /\ queue' = <<>> /\ batch' = None
        /\ task' = [t \in Task |-> Idle] /\ UNCHANGED <<now, db, ends>>
    BY <1>5 DEF Kill
  <2>2. PinsIn(mem'.pin, ends) /\ PinQueue(queue', ends, Unix)
    BY <2>1 DEF PinsIn, Blank, PinQueue
  <2>3. PinTasks(task', ends, Unix)
    BY <2>1, IdleIs DEF PinTasks, PinTask
  <2>4. PinInv'
    BY <2>1, <2>2, <2>3, PinsStill, PinsKept
  <2> QED BY <2>1, <2>4 DEF NoLivePinLost, Live
<1>6. CASE Advance
  <2>1. now' = now + 1 /\ UNCHANGED <<up, mem, db, queue, task, batch, ends>>
    BY <1>6 DEF Advance, process, history
  <2>2. now <= now' /\ \A s \in Session : ends.pin[s] <= ends'.pin[s]
    BY <1>1, <2>1, PinTypes
  <2>3. PinInv'
    BY <2>1, <2>2, PinsKept
  <2> QED BY <2>1, <2>3 DEF NoLivePinLost, Live
<1> QED BY <1>2, <1>3, <1>4, <1>5, <1>6

(* Every step keeps the pins.                                                  *)
LEMMA PinStep ==
  ASSUME IInv, PinInv, [Next]_vars PROVE PinInv' /\ NoLivePinLost
<1>1. IInv'
  BY StepOK
<1>2. PinInv' /\ db' = db => PinInv' /\ NoLivePinLost
  BY DEF NoLivePinLost, Live
<1>3. CASE UNCHANGED vars
  <2>1. UNCHANGED <<now, up, mem, db, queue, task, batch, ends>>
    BY <1>3 DEF vars, process, history
  <2> QED BY <1>1, <1>2, <2>1, PinsStill, PinsKept
<1>4. CASE \E t \in Task :
        \/ FinishSuccess(t) \/ FinishFailure(t) \/ RecordAttempt(t) \/ ProbeOnce(t)
        \/ SetSticky(t) \/ Penalize(t) \/ LastOp(t)
  BY <1>1, <1>2, <1>4, PinAttempt, PinSetSticky, PinRest
<1>5. CASE \E p \in Provider : Allow(p) \/ \E k \in Key :
        Send(p, k) \/ \E b \in Backoffs : EnterCooldown(p, k, b)
  BY <1>1, <1>2, <1>5, PinServing
<1>6. CASE Snapshot \/ PersistOnce \/ Write \/ WriteFails
  BY <1>1, <1>2, <1>6, PinSnapshot, PinPersist, PinWriter
<1>7. CASE \/ \E p \in DOMAIN LegacyHealth : ImportHealth(p)
           \/ \E s \in DOMAIN Legacy : ImportPin(s)
           \/ \E s \in DOMAIN Affinity : ImportAffinity(s)
  BY <1>1, <1>7, PinImport
<1>8. CASE FirstBoot \/ ImportFails \/ Boot \/ Kill \/ Advance
  BY <1>1, <1>8, PinBoot
<1> QED BY <1>3, <1>4, <1>5, <1>6, <1>7, <1>8 DEF Next

(* set_sticky, sweep_sticky, writer_loop, the import and restore: whatever order   *)
(* renewals, late writes, sweeps, kills and restarts come in, no pin outlasts the  *)
(* TTL of its session's last use, in memory or in the file, and the row of a       *)
(* session that is still pinned is never deleted.                              *)
THEOREM PinsTheorem == Spec => PinsHonoured
<1>1. Init => IInv /\ PinInv
  <2> SUFFICES ASSUME Init PROVE IInv /\ PinInv
    OBVIOUS
  <2>1. IInv
    BY InitOK
  <2>2. /\ up = "down" /\ db = None /\ mem = Blank /\ queue = <<>> /\ batch = None
        /\ task = [t \in Task |-> Idle] /\ ends.pin = [s \in Session |-> LegacyEnd(s)]
    BY DEF Init
  <2>3. PinLegacy(ends)
    BY <2>2, LegacyEndIs DEF PinLegacy
  <2>4. PinsIn(mem.pin, ends) /\ PinQueue(queue, ends, Unix)
    BY <2>2 DEF PinsIn, PinQueue, Blank
  <2>5. PinTasks(task, ends, Unix)
    BY <2>2, IdleIs DEF PinTasks, PinTask
  <2> QED BY <2>1, <2>2, <2>3, <2>4, <2>5 DEF PinInv
<1>2. (IInv /\ PinInv) /\ [Next]_vars => (IInv /\ PinInv)'
  BY StepOK, PinStep
<1>3. ASSUME IInv, PinInv PROVE PinsNotLonger
  <2> SUFFICES ASSUME NEW s \in Session
               PROVE  /\ mem.pin[s] \in 0..ends.pin[s] \cup {None}
                      /\ db # None => db.pin[s] \in 0..ends.pin[s] \cup {None}
    BY DEF PinsNotLonger
  <2>1. /\ mem.pin \in [Session -> Nat \cup {None}] /\ ends.pin[s] \in Nat
        /\ db # None => db.pin \in [Session -> Nat \cup {None}]
    BY <1>3, PinTypes
  <2> QED BY <1>3, <2>1 DEF PinInv, PinsIn
<1>4. (IInv /\ PinInv) /\ (IInv /\ PinInv)' /\ [Next]_vars
        => [PinsNotLonger' /\ NoLivePinLost]_vars
  <2>1. (IInv /\ PinInv)' => PinsNotLonger'
    BY <1>3, PTL
  <2>2. IInv /\ PinInv /\ [Next]_vars => NoLivePinLost
    BY PinStep
  <2> QED BY <2>1, <2>2
<1> QED BY <1>1, <1>2, <1>4, PTL DEF Spec, PinsHonoured
=============================================================================
