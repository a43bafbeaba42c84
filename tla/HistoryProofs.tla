--------------------------- MODULE HistoryProofs ---------------------------
(***************************************************************************)
(* The canonical file and its process stay in step (HistoryLog), and no      *)
(* request for compaction is forgotten (Retention), whatever the bounds.     *)
(*                                                                         *)
(* HistoryLog.  What the scanner returns is a sequence of whole epochs of the *)
(* file's own lines, in order of time (Chain, Closed); compaction keeps whole *)
(* epochs again, and such a sequence is scanned as itself: the replacement    *)
(* validates.  That no stamp falls behind the file needs that, until a write  *)
(* fails, no line is later than the timestamp the store remembers (DiskLines). *)
(* That what is shown is what was counted needs the same of the counters: a     *)
(* file is a stream of the samples taken, and ends where the process stands     *)
(* (CountsInv).                                                             *)
(***************************************************************************)
EXTENDS HistoryLog, Retention, SequenceTheorems, FiniteSetTheorems,
        WellFoundedInduction, TLAPS

(* Induction up to a number, over a set.                                      *)
LEMMA Induct ==
  ASSUME NEW m \in Nat, NEW Q, 0 \in Q, \A n \in 1..m : n - 1 \in Q => n \in Q
  PROVE  \A n \in 0..m : n \in Q
<1> DEFINE Bad == {n \in 0..m : n \notin Q}
<1> SUFFICES ASSUME Bad # {} PROVE FALSE
  OBVIOUS
<1>1. IsWellFoundedOn(OpToRel(<, Nat), Nat)
  BY NatLessThanWellFounded
<1>2. Bad \in SUBSET Nat
  OBVIOUS
<1>3. PICK n \in Bad : \A k \in Bad : ~(<<k, n>> \in OpToRel(<, Nat))
  <2> HIDE DEF Bad
  <2> QED BY <1>1, <1>2, WFMin
<1>4. \A k \in Bad : ~(k < n)
  BY <1>2, <1>3 DEF OpToRel
<1>5. n # 0 /\ n \in 1..m /\ n - 1 \in 0..m
  OBVIOUS
<1>6. n - 1 \notin Bad
  BY <1>4, <1>5
<1> QED BY <1>5, <1>6

(* F begins with v, and G gives each value from the one before it.            *)
Follows(F, V, m, v, G) ==
  F \in [0..m -> V] /\ F[0] = v /\ \A n \in 1..m : F[n] = G[n][F[n - 1]]

(* A function may be defined by such a recursion.                            *)
LEMMA Recursion ==
  ASSUME NEW V, NEW m \in Nat, NEW v \in V, NEW G \in [1..m -> [V -> V]]
  PROVE  \E F : Follows(F, V, m, v, G)
<1> DEFINE OK(F, k) == /\ F \in [0..k -> V] /\ F[0] = v
                       /\ \A n \in 1..k : F[n] = G[n][F[n - 1]]
           Q == {k \in 0..m : \E F : OK(F, k)}
<1>1. 0 \in Q
  <2> DEFINE F == [n \in 0..0 |-> v]
  <2>1. OK(F, 0)
    OBVIOUS
  <2> HIDE DEF OK
  <2> QED BY <2>1
<1>2. ASSUME NEW k \in 1..m, k - 1 \in Q PROVE k \in Q
  <2>1. PICK F : OK(F, k - 1)
    BY <1>2
  <2> DEFINE H == [n \in 0..k |-> IF n = k THEN G[k][F[k - 1]] ELSE F[n]]
  <2>2. k \in Nat /\ k # 0 /\ k - 1 \in 0..(k - 1) /\ F[k - 1] \in V
    BY <2>1
  <2>3. G[k][F[k - 1]] \in V
    BY <2>2
  <2>4. \A n \in 0..k : n # k => n \in 0..(k - 1)
    BY <2>2
  <2>5. H \in [0..k -> V] /\ H[0] = v
    BY <2>1, <2>2, <2>3, <2>4
  <2>6. ASSUME NEW n \in 1..k PROVE H[n] = G[n][H[n - 1]]
    <3>1. n - 1 \in 0..k /\ n - 1 # k /\ H[n - 1] = F[n - 1] /\ n \in 0..k
      BY <2>2
    <3>2. CASE n = k
      BY <3>1, <3>2
    <3>3. CASE n # k
      <4>1. n \in 1..(k - 1)
        BY <2>2, <3>3
      <4>2. F[n] = G[n][F[n - 1]]
        BY <2>1, <4>1
      <4> QED BY <3>1, <3>3, <4>2
    <3> QED BY <3>2, <3>3
  <2> HIDE DEF H
  <2>7. OK(H, k)
    BY <2>5, <2>6
  <2> HIDE DEF OK
  <2> QED BY <2>7
<1>3. m \in Q
  <2> HIDE DEF Q
  <2>1. \A n \in 0..m : n \in Q
    BY <1>1, <1>2, Induct
  <2> QED BY <2>1
<1> QED BY <1>3 DEF Follows

-----------------------------------------------------------------------------
(* The larger and the smaller of two numbers.                               *)
LEMMA MaxOfTwo ==
  ASSUME NEW a \in Int, NEW b \in Int
  PROVE  Max({a, b}) = IF a >= b THEN a ELSE b
<1> DEFINE M == IF a >= b THEN a ELSE b
<1>1. M \in {a, b} /\ \A y \in {a, b} : M >= y
  OBVIOUS
<1>2. \A x \in {a, b} : (\A y \in {a, b} : x >= y) => x = M
  OBVIOUS
<1> HIDE DEF M
<1>3. Max({a, b}) \in {a, b} /\ \A y \in {a, b} : Max({a, b}) >= y
  BY <1>1 DEF Max
<1> QED BY <1>2, <1>3 DEF M

(* The same for the smaller.                                                *)
LEMMA MinOfTwo ==
  ASSUME NEW a \in Int, NEW b \in Int
  PROVE  Min({a, b}) = IF a <= b THEN a ELSE b
<1> DEFINE M == IF a <= b THEN a ELSE b
<1>1. M \in {a, b} /\ \A y \in {a, b} : M <= y
  OBVIOUS
<1>2. \A x \in {a, b} : (\A y \in {a, b} : x <= y) => x = M
  OBVIOUS
<1> HIDE DEF M
<1>3. Min({a, b}) \in {a, b} /\ \A y \in {a, b} : Min({a, b}) <= y
  BY <1>1 DEF Min
<1> QED BY <1>2, <1>3 DEF M

(* The last of some positions is one of them.                               *)
LEMMA MaxPlace ==
  ASSUME NEW m \in Nat, NEW P, P \subseteq 1..m, P # {}
  PROVE  Max(P) \in P /\ \A i \in P : i <= Max(P)
<1> DEFINE Q == {n \in 0..m : P \cap (m - n)..m = {} \/ \E x \in P : \A y \in P : x >= y}
<1>1. 0 \in Q
  <2>1. CASE m \in P
    <3>1. \A y \in P : m >= y
      OBVIOUS
    <3> QED BY <2>1, <3>1
  <2>2. CASE m \notin P
    BY <2>2
  <2> QED BY <2>1, <2>2
<1>2. ASSUME NEW n \in 1..m, n - 1 \in Q PROVE n \in Q
  <2>0. \A i \in P : i \in 1..m
    OBVIOUS
  <2>1. CASE \E x \in P : \A y \in P : x >= y
    BY <2>1
  <2>2. CASE P \cap (m - (n - 1))..m = {}
    <3>1. CASE m - n \in P
      <4>1. ASSUME NEW y \in P PROVE m - n >= y
        <5>1. y \in 1..m /\ y \notin (m - (n - 1))..m
          BY <2>0, <2>2
        <5> QED BY <5>1
      <4> QED BY <3>1, <4>1
    <3>2. CASE m - n \notin P
      <4>1. \A y \in (m - n)..m : y = m - n \/ y \in (m - (n - 1))..m
        OBVIOUS
      <4>2. P \cap (m - n)..m = {}
        BY <2>2, <3>2, <4>1
      <4> QED BY <4>2
    <3> QED BY <3>1, <3>2
  <2> QED BY <1>2, <2>1, <2>2
<1>3. m \in Q
  <2> HIDE DEF Q
  <2>1. \A n \in 0..m : n \in Q
    BY <1>1, <1>2, Induct
  <2> QED BY <2>1
<1>4. P \cap (m - m)..m # {}
  <2>1. PICK p \in P : p \in 1..m
    OBVIOUS
  <2>2. p \in (m - m)..m
    BY <2>1
  <2> QED BY <2>2
<1>5. \E x \in P : \A y \in P : x >= y
  BY <1>3, <1>4
<1>6. Max(P) \in P /\ \A y \in P : Max(P) >= y
  BY <1>5 DEF Max
<1> QED BY <1>6

(* The last line of a sequence, and what is before it.                       *)
LEMMA LastFront ==
  ASSUME NEW S, NEW f \in Seq(S), f # <<>>
  PROVE  /\ Len(f) \in Nat \ {0} /\ Last(f) = f[Len(f)] /\ Last(f) \in S
         /\ Front(f) \in Seq(S) /\ Len(Front(f)) = Len(f) - 1
         /\ \A i \in 1..(Len(f) - 1) : Front(f)[i] = f[i]
<1>1. Len(f) \in Nat \ {0} /\ \A i \in 1..Len(f) : f[i] \in S
  BY EmptySeq
<1>2. Last(f) = f[Len(f)] /\ Last(f) \in S
  BY <1>1 DEF Last
<1>3. /\ SubSeq(f, 1, Len(f) - 1) \in Seq(S) /\ Len(SubSeq(f, 1, Len(f) - 1)) = Len(f) - 1
      /\ \A i \in 1..(Len(f) - 1) : SubSeq(f, 1, Len(f) - 1)[i] = f[i]
  <2>1. Len(f) - 1 \in Int /\ \A i \in 1..(Len(f) - 1) : f[i] \in S
    BY <1>1
  <2>2. /\ SubSeq(f, 1, Len(f) - 1) \in Seq(S)
        /\ Len(SubSeq(f, 1, Len(f) - 1)) = IF 1 <= Len(f) - 1 THEN Len(f) - 1 - 1 + 1 ELSE 0
        /\ \A i \in 1..(Len(f) - 1 - 1 + 1) : SubSeq(f, 1, Len(f) - 1)[i] = f[1 + i - 1]
    BY <2>1, SubSeqProperties
  <2>3. Len(f) - 1 - 1 + 1 = Len(f) - 1 /\ (~(1 <= Len(f) - 1) => Len(f) - 1 = 0)
    <3>1. \A n \in Nat \ {0} : n - 1 - 1 + 1 = n - 1 /\ (~(1 <= n - 1) => n - 1 = 0)
      OBVIOUS
    <3> QED BY <1>1, <3>1
  <2>4. \A i \in 1..(Len(f) - 1) : 1 + i - 1 = i
    BY <1>1
  <2> QED BY <2>2, <2>3, <2>4
<1> QED BY <1>1, <1>2, <1>3 DEF Front

-----------------------------------------------------------------------------
(* Lines.  A sample or a checkpoint has a number, a sample a state.          *)
Sound(l) == (l.kind # "boot" => l.n >= 1) /\ (l.kind = "sample" => l.v >= 0)
Lines == {l \in Records : Sound(l)}
Gaps == [from : 0..MaxTime, to : 0..Never]

(* The bounds are natural numbers.                                          *)
LEMMA Bounds ==
  /\ MaxTime \in Nat /\ MaxBoots \in Nat /\ MaxSamples \in Nat /\ MaxCount \in Nat
  /\ MaxFaults \in Nat /\ Never \in Nat /\ Never = MaxTime + 1 /\ None = -1
  /\ Retentions \subseteq Nat
BY ConstantsAssumption DEF Never, None

(* The fields of a line.                                                    *)
LEMMA LineFields ==
  ASSUME NEW l \in Lines
  PROVE  /\ l.t \in 0..MaxTime /\ l.t \in Nat /\ l.boot \in 1..MaxBoots
         /\ l.kind \in {"boot", "sample", "check"}
         /\ l.v \in None..MaxCount /\ l.n \in 0..MaxSamples
         /\ l.form \in {"ok", "late", "bare", "torn", "junk"}
         /\ (l.kind # "boot" => l.n >= 1) /\ (l.kind = "sample" => l.v >= 0)
BY Bounds DEF Lines, Records, Sound

(* What may follow what.                                                    *)
Link(a, b) ==
  /\ a.t <= b.t
  /\ b.kind # "boot" => a.boot = b.boot
  /\ a.kind = "boot" => b.kind = "sample"

(* A stream of whole epochs: each is a boot, a full sample and whatever the   *)
(* same process wrote after it, in the order of time.                       *)
Chain(rs) ==
  /\ \A i \in 1..Len(rs) : rs[i].form \in Decodes
  /\ rs # <<>> => rs[1].kind = "boot"
  /\ \A i, j \in 1..Len(rs) : i <= j => rs[i].t <= rs[j].t
  /\ \A i \in 1..(Len(rs) - 1) : Link(rs[i], rs[i + 1])

(* The last epoch has its sample.                                           *)
Closed(rs) == rs # <<>> => Last(rs).kind # "boot"

(* The empty stream is one.                                                 *)
LEMMA ChainEmpty == Chain(<<>>) /\ Closed(<<>>)
<1>1. Len(<<>>) = 0 /\ 1..0 = {} /\ 1..(0 - 1) = {}
  OBVIOUS
<1> QED BY <1>1 DEF Chain, Closed

(* A stream grows by a line that may follow its last one.                    *)
LEMMA ChainAppend ==
  ASSUME NEW rs \in Seq(Lines), Chain(rs), NEW l \in Lines, l.form \in Decodes,
         rs = <<>> => l.kind = "boot", rs # <<>> => Link(Last(rs), l)
  PROVE  Chain(Append(rs, l)) /\ (Closed(Append(rs, l)) <=> l.kind # "boot")
<1> DEFINE k == Len(rs)
           r == Append(rs, l)
<1>1. /\ k \in Nat /\ r \in Seq(Lines) /\ Len(r) = k + 1 /\ r[k + 1] = l /\ r # <<>>
      /\ \A i \in 1..k : r[i] = rs[i] /\ rs[i] \in Lines
  BY AppendProperties
<1>2. rs # <<>> <=> k # 0
  OBVIOUS
<1>3. rs # <<>> => Last(rs) = rs[k] /\ k \in 1..k /\ k >= 1
  BY <1>1, <1>2 DEF Last
<1>4. Last(r) = l
  BY <1>1 DEF Last
<1> HIDE DEF k, r
<1>5. \A i \in 1..(k + 1) : i = k + 1 \/ i \in 1..k
  BY <1>1
<1>6. \A i \in 1..Len(r) : r[i].form \in Decodes
  BY <1>1, <1>5 DEF Chain, k
<1>7. r[1].kind = "boot"
  <2>1. CASE k = 0
    BY <1>1, <1>2, <2>1
  <2>2. CASE k # 0
    <3>1. 1 \in 1..k
      BY <1>1, <2>2
    <3> QED BY <1>1, <1>2, <2>2, <3>1 DEF Chain
  <2> QED BY <2>1, <2>2
<1>8. ASSUME NEW i \in 1..Len(r), NEW j \in 1..Len(r), i <= j PROVE r[i].t <= r[j].t
  <2>1. CASE j = k + 1 /\ i = k + 1
    BY <1>1, <2>1, LineFields
  <2>2. CASE j = k + 1 /\ i \in 1..k
    <3>1. k \in 1..k /\ i <= k /\ rs # <<>>
      BY <1>1, <1>2, <2>2
    <3>2. rs[i].t <= rs[k].t /\ rs[k].t <= l.t
      BY <1>3, <2>2, <3>1 DEF Chain, Link, k
    <3>3. rs[i].t \in Nat /\ rs[k].t \in Nat /\ l.t \in Nat
      BY <1>1, <2>2, <3>1, LineFields
    <3> QED BY <1>1, <2>2, <3>2, <3>3
  <2>3. CASE j \in 1..k
    <3>1. i \in 1..k
      BY <1>1, <1>8, <2>3
    <3> QED BY <1>1, <1>8, <2>3, <3>1 DEF Chain, k
  <2> QED BY <1>1, <1>5, <1>8, <2>1, <2>2, <2>3
<1>9. ASSUME NEW i \in 1..(Len(r) - 1) PROVE Link(r[i], r[i + 1])
  <2>1. i \in 1..k
    BY <1>1
  <2>2. CASE i = k
    <3>1. r[i] = rs[k] /\ r[i + 1] = l /\ rs # <<>>
      BY <1>1, <1>2, <2>1, <2>2
    <3> QED BY <1>3, <3>1
  <2>3. CASE i # k
    <3>1. i \in 1..(k - 1) /\ i + 1 \in 1..k
      BY <1>1, <2>1, <2>3
    <3> QED BY <1>1, <2>1, <3>1 DEF Chain, k
  <2> QED BY <2>2, <2>3
<1>10. Chain(r)
  BY <1>6, <1>7, <1>8, <1>9 DEF Chain
<1> QED BY <1>1, <1>4, <1>10 DEF Closed, r

-----------------------------------------------------------------------------
(* Gaps.                                                                     *)

(* Opening a gap keeps the list well-typed, and it is not empty then.        *)
LEMMA OpenGapIs ==
  ASSUME NEW gs \in Seq(Gaps), NEW t \in 0..MaxTime
  PROVE  OpenGap(gs, t) \in Seq(Gaps)
<1>1. CASE gs # <<>> /\ Last(gs).to = Never
  <2> DEFINE k == Len(gs)
             g == [gs[k] EXCEPT !.from = Min({gs[k].from, t})]
  <2>1. k \in 1..k /\ gs[k] \in Gaps
    BY <1>1
  <2>2. gs[k].from \in 0..MaxTime /\ gs[k].from \in Int /\ t \in Int
    BY <2>1, Bounds DEF Gaps
  <2>3. Min({gs[k].from, t}) \in 0..MaxTime
    BY <2>2, MinOfTwo
  <2>4. g \in Gaps
    BY <2>1, <2>3 DEF Gaps
  <2> HIDE DEF g, k
  <2>5. [gs EXCEPT ![k] = g] \in Seq(Gaps)
    BY <2>1, <2>4, ExceptSeq DEF k
  <2> QED BY <1>1, <2>5 DEF OpenGap, g, k
<1>2. CASE ~(gs # <<>> /\ Last(gs).to = Never)
  <2>1. [from |-> t, to |-> Never] \in Gaps
    BY Bounds DEF Gaps
  <2> QED BY <1>2, <2>1 DEF OpenGap
<1> QED BY <1>1, <1>2

(* So does closing them, and no gap stays open.                              *)
LEMMA CloseGapIs ==
  ASSUME NEW gs \in Seq(Gaps), NEW t \in 0..MaxTime
  PROVE  CloseGap(gs, t) \in Seq(Gaps) /\ (gs = <<>> => CloseGap(gs, t) = <<>>)
<1> DEFINE Done(i) == IF gs[i].to = Never THEN [gs[i] EXCEPT !.to = t] ELSE gs[i]
           k == Len(gs)
<1>1. k \in Nat /\ DOMAIN gs = 1..k /\ \A i \in 1..k : gs[i] \in Gaps
  OBVIOUS
<1>2. t \in 0..Never
  BY Bounds
<1>3. ASSUME NEW i \in 1..k PROVE Done(i) \in Gaps
  BY <1>1, <1>2 DEF Gaps
<1>4. CloseGap(gs, t) = [i \in 1..k |-> Done(i)]
  BY <1>1 DEF CloseGap
<1> HIDE DEF Done, k
<1>5. [i \in 1..k |-> Done(i)] \in Seq(Gaps)
  BY <1>1, <1>3, IsASeq
<1>6. ASSUME gs = <<>> PROVE [i \in 1..k |-> Done(i)] = <<>>
  <2>1. k = 0 /\ 1..0 = {}
    BY <1>6 DEF k
  <2>2. Len([i \in 1..k |-> Done(i)]) = 0
    BY <2>1, <1>5
  <2> QED BY <1>5, <2>2, EmptySeq
<1> QED BY <1>4, <1>5, <1>6

-----------------------------------------------------------------------------
(* The scanner.  What it holds are the records it has kept and the epoch it   *)
(* is in; S is any set of lines the file's lines are from.                   *)
Held(s) == s.records \o s.epoch

States(S) == [st : {"AwaitBoot", "AwaitSample", "Usable", "InvalidEpoch"},
              epoch : Seq(S), records : Seq(S), gaps : Seq(Gaps), bound : None..MaxTime]

(* An epoch in progress begins with a boot and is all of one process; it is   *)
(* usable as soon as it has more than the boot.                             *)
InEpoch(s) ==
  /\ s.epoch # <<>>
  /\ \A i \in 1..Len(s.epoch) : s.epoch[i].boot = s.epoch[1].boot
  /\ s.st = "Usable" <=> Last(s.epoch).kind # "boot"

Good(s, S) ==
  /\ s \in States(S)
  /\ Chain(s.records) /\ Closed(s.records) /\ Chain(Held(s))
  /\ \A i \in 1..Len(Held(s)) : Held(s)[i].t <= s.bound
  /\ IF Pending(s) THEN InEpoch(s) ELSE s.epoch = <<>>

(* The fields of a scanner's state.                                         *)
LEMMA StateFields ==
  ASSUME NEW S, NEW s \in States(S)
  PROVE  /\ s.st \in {"AwaitBoot", "AwaitSample", "Usable", "InvalidEpoch"}
         /\ s.epoch \in Seq(S) /\ s.records \in Seq(S) /\ s.gaps \in Seq(Gaps)
         /\ s.bound \in None..MaxTime /\ s.bound \in Int
         /\ Held(s) \in Seq(S) /\ (s.epoch = <<>> => Held(s) = s.records)
         /\ Len(Held(s)) = Len(s.records) + Len(s.epoch)
<1>1. /\ s.st \in {"AwaitBoot", "AwaitSample", "Usable", "InvalidEpoch"}
      /\ s.epoch \in Seq(S) /\ s.records \in Seq(S) /\ s.gaps \in Seq(Gaps)
      /\ s.bound \in None..MaxTime
  BY DEF States
<1>2. s.bound \in Int
  BY <1>1, Bounds
<1>3. Held(s) \in Seq(S) /\ Len(Held(s)) = Len(s.records) + Len(s.epoch)
  BY <1>1, ConcatProperties DEF Held
<1>4. s.epoch = <<>> => Held(s) = s.records
  BY <1>1, ConcatEmptySeq DEF Held
<1> QED BY <1>1, <1>2, <1>3, <1>4

(* What is held ends as the epoch in progress does.                         *)
LEMMA HeldLast ==
  ASSUME NEW S, NEW s \in States(S), s.epoch # <<>>
  PROVE  Held(s) # <<>> /\ Last(Held(s)) = Last(s.epoch) /\ Last(s.epoch) \in S
<1> DEFINE a == s.records
           b == s.epoch
<1>1. a \in Seq(S) /\ b \in Seq(S) /\ Len(a) \in Nat /\ Len(b) \in Nat \ {0}
  <2>1. a \in Seq(S) /\ b \in Seq(S)
    BY StateFields
  <2> HIDE DEF a, b
  <2>2. b # <<>>
    BY DEF b
  <2> QED BY <2>1, <2>2, EmptySeq, LenProperties
<1>2. /\ a \o b \in Seq(S) /\ Len(a \o b) = Len(a) + Len(b)
      /\ \A i \in 1..(Len(a) + Len(b)) :
           (a \o b)[i] = IF i <= Len(a) THEN a[i] ELSE b[i - Len(a)]
  BY <1>1, ConcatProperties
<1> HIDE DEF a, b
<1> DEFINE k == Len(a) + Len(b)
<1>3. k \in 1..k /\ ~(k <= Len(a)) /\ k - Len(a) = Len(b) /\ k # 0
  BY <1>1
<1>4. (a \o b)[k] = b[Len(b)]
  BY <1>2, <1>3
<1>5. a \o b # <<>>
  BY <1>2, <1>3
<1>6. b[Len(b)] \in S
  BY <1>1
<1> QED BY <1>2, <1>4, <1>5, <1>6 DEF Held, Last, a, b

(* A line added to the epoch is a line added to what is held.                *)
LEMMA HeldAppend ==
  ASSUME NEW S, NEW a \in Seq(S), NEW b \in Seq(S), NEW l \in S
  PROVE  a \o Append(b, l) = Append(a \o b, l)
<1>1. Append(b, l) = b \o <<l>> /\ <<l>> \in Seq(S)
  BY AppendIsConcat
<1>2. a \o b \in Seq(S)
  BY ConcatProperties
<1>3. Append(a \o b, l) = (a \o b) \o <<l>>
  BY <1>2, AppendIsConcat
<1>4. (a \o b) \o <<l>> = a \o (b \o <<l>>)
  BY <1>1, ConcatAssociative
<1> QED BY <1>1, <1>3, <1>4

(* A higher bound is as good.                                               *)
LEMMA AdvanceGood ==
  ASSUME NEW S, NEW s, Good(s, S), S \subseteq Lines, NEW t \in 0..MaxTime
  PROVE  /\ Good(Advance(s, t), S)
         /\ Advance(s, t).bound >= s.bound /\ Advance(s, t).bound >= t
         /\ Advance(s, t).bound \in {s.bound, t}
         /\ Advance(s, t) = [s EXCEPT !.bound = Advance(s, t).bound]
<1>1. s \in States(S) /\ s.bound \in Int /\ s.bound \in None..MaxTime
  BY StateFields DEF Good
<1> DEFINE b == Max({s.bound, t})
           s2 == [s EXCEPT !.bound = b]
<1>2. b \in Int /\ b >= s.bound /\ b >= t /\ b \in {s.bound, t} /\ b \in None..MaxTime
  <2>1. b = IF s.bound >= t THEN s.bound ELSE t
    BY <1>1, MaxOfTwo
  <2> QED BY <1>1, <2>1, Bounds
<1>3. Advance(s, t) = s2
  BY DEF Advance
<1> HIDE DEF b
<1>4. /\ s2 \in States(S) /\ s2.bound = b /\ s2.st = s.st /\ s2.epoch = s.epoch
      /\ s2.records = s.records
  BY <1>1, <1>2 DEF States
<1> HIDE DEF s2
<1>5. Held(s2) = Held(s)
  BY <1>4 DEF Held
<1>6. Held(s) \in Seq(S)
  BY <1>1, StateFields
<1>7. ASSUME NEW i \in 1..Len(Held(s2)) PROVE Held(s2)[i].t <= s2.bound
  <2>1. Held(s)[i] \in Lines /\ i \in 1..Len(Held(s))
    BY <1>5, <1>6
  <2>2. Held(s)[i].t \in Nat /\ Held(s)[i].t <= s.bound
    BY <2>1, LineFields DEF Good
  <2> QED BY <1>1, <1>2, <1>4, <1>5, <2>2
<1>8. (Pending(s2) <=> Pending(s)) /\ (InEpoch(s2) <=> InEpoch(s))
  BY <1>4 DEF Pending, InEpoch
<1>9. Good(s2, S)
  BY <1>4, <1>5, <1>7, <1>8 DEF Good
<1> QED BY <1>2, <1>3, <1>4, <1>9 DEF s2

(* What is kept when an epoch is left out.                                  *)
LEMMA ExcludeIs ==
  ASSUME NEW S, NEW s, Good(s, S), S \subseteq Lines, Pending(s)
  PROVE  /\ Exclude(s) \in States(S) /\ Exclude(s).epoch = <<>>
         /\ Exclude(s).records = s.records /\ Exclude(s).bound = s.bound
         /\ Exclude(s).st = s.st
<1>1. s \in States(S) /\ s.epoch \in Seq(S) /\ s.epoch # <<>> /\ s.gaps \in Seq(Gaps)
  BY StateFields DEF Good, InEpoch
<1>2. s.epoch[1] \in Lines
  BY <1>1
<1>3. OpenGap(s.gaps, s.epoch[1].t) \in Seq(Gaps)
  BY <1>1, <1>2, LineFields, OpenGapIs
<1>4. <<>> \in Seq(S)
  OBVIOUS
<1> QED BY <1>1, <1>3, <1>4 DEF Exclude, States

(* The records kept are good by themselves.                                  *)
LEMMA KeptGood ==
  ASSUME NEW S, NEW s, Good(s, S), S \subseteq Lines
  PROVE  \A i \in 1..Len(s.records) : s.records[i].t <= s.bound
<1>1. s \in States(S) /\ s.records \in Seq(S) /\ s.epoch \in Seq(S)
  BY StateFields DEF Good
<1> SUFFICES ASSUME NEW i \in 1..Len(s.records) PROVE s.records[i].t <= s.bound
  OBVIOUS
<1>2. Len(s.records) \in Nat /\ Len(s.epoch) \in Nat
  BY <1>1
<1>3. i \in 1..(Len(s.records) + Len(s.epoch)) /\ i <= Len(s.records)
  <2>1. \A a, b \in Nat : \A k \in 1..a : k \in 1..(a + b) /\ k <= a
    OBVIOUS
  <2> QED BY <1>2, <2>1
<1>4. Held(s)[i] = s.records[i] /\ Len(Held(s)) = Len(s.records) + Len(s.epoch)
  BY <1>1, <1>3, ConcatProperties DEF Held
<1> QED BY <1>3, <1>4 DEF Good

(* Any state with these records and no epoch is good, in two of its places.  *)
LEMMA RestGood ==
  ASSUME NEW S, S \subseteq Lines, NEW s \in States(S), s.epoch = <<>>,
         Chain(s.records), Closed(s.records), ~Pending(s),
         \A i \in 1..Len(s.records) : s.records[i].t <= s.bound
  PROVE  Good(s, S)
BY StateFields DEF Good

(* A damaged line leaves a good state.                                      *)
LEMMA InvalidateGood ==
  ASSUME NEW S, NEW s, Good(s, S), S \subseteq Lines, NEW t \in 0..MaxTime
  PROVE  Good(Invalidate(s, t), S) /\ Invalidate(s, t).bound = s.bound
<1>1. s \in States(S) /\ s.gaps \in Seq(Gaps)
  BY StateFields DEF Good
<1> DEFINE m == IF Pending(s) THEN Exclude(s) ELSE [s EXCEPT !.gaps = OpenGap(@, t)]
           z == [m EXCEPT !.st = "InvalidEpoch"]
<1>2. m \in States(S) /\ m.epoch = <<>> /\ m.records = s.records /\ m.bound = s.bound
  <2>1. CASE Pending(s)
    BY <2>1, ExcludeIs
  <2>2. CASE ~Pending(s)
    <3>1. OpenGap(s.gaps, t) \in Seq(Gaps)
      BY <1>1, OpenGapIs
    <3>2. s.epoch = <<>>
      BY <2>2 DEF Good
    <3> QED BY <1>1, <2>2, <3>1, <3>2 DEF States
  <2> QED BY <2>1, <2>2
<1>3. Invalidate(s, t) = z
  BY DEF Invalidate
<1> HIDE DEF m
<1>4. /\ z \in States(S) /\ z.epoch = <<>> /\ z.records = s.records
      /\ z.bound = s.bound /\ z.st = "InvalidEpoch"
  BY <1>2 DEF States
<1> HIDE DEF z
<1>5. ~Pending(z)
  BY <1>4 DEF Pending
<1>6. \A i \in 1..Len(s.records) : s.records[i].t <= s.bound
  BY KeptGood
<1>7. Chain(s.records) /\ Closed(s.records)
  BY DEF Good
<1>8. Good(z, S)
  BY <1>4, <1>5, <1>6, <1>7, RestGood
<1> QED BY <1>3, <1>4, <1>8

(* An epoch that ends is kept with its sample or left out.                   *)
LEMMA FinishedIs ==
  ASSUME NEW S, NEW s, Good(s, S), S \subseteq Lines
  PROVE  /\ Finished(s) \in States(S) /\ Finished(s).epoch = <<>>
         /\ Finished(s).bound = s.bound
         /\ Finished(s).records \in {s.records, Held(s)}
         /\ (s.st # "AwaitSample" => Finished(s).gaps = s.gaps /\ Finished(s).records = Held(s))
         /\ Chain(Finished(s).records) /\ Closed(Finished(s).records)
         /\ \A i \in 1..Len(Finished(s).records) : Finished(s).records[i].t <= s.bound
<1>1. s \in States(S) /\ Held(s) \in Seq(S) /\ (s.epoch = <<>> => Held(s) = s.records)
  BY StateFields DEF Good
<1>2. CASE s.st = "Usable"
  <2>1. Finished(s) = [s EXCEPT !.records = Held(s), !.epoch = <<>>, !.st = "AwaitBoot"]
    BY <1>2 DEF Finished, Commit, Held
  <2>2. <<>> \in Seq(S)
    OBVIOUS
  <2>3. /\ Finished(s) \in States(S) /\ Finished(s).epoch = <<>>
        /\ Finished(s).bound = s.bound /\ Finished(s).gaps = s.gaps
        /\ Finished(s).records = Held(s)
    BY <1>1, <2>1, <2>2 DEF States
  <2>4. Pending(s) /\ InEpoch(s)
    BY <1>2 DEF Pending, Good
  <2>5. Held(s) # <<>> /\ Last(Held(s)) = Last(s.epoch) /\ Last(s.epoch).kind # "boot"
    BY <1>1, <1>2, <2>4, HeldLast DEF InEpoch
  <2>6. Closed(Held(s))
    BY <2>5 DEF Closed
  <2> QED BY <2>3, <2>6 DEF Good
<1>3. CASE s.st = "AwaitSample"
  <2>1. Pending(s) /\ Finished(s) = Exclude(s)
    BY <1>3 DEF Pending, Finished
  <2>2. \A i \in 1..Len(s.records) : s.records[i].t <= s.bound
    BY KeptGood
  <2>3. /\ Exclude(s) \in States(S) /\ Exclude(s).epoch = <<>>
        /\ Exclude(s).records = s.records /\ Exclude(s).bound = s.bound
    BY <2>1, ExcludeIs
  <2> QED BY <1>3, <2>1, <2>2, <2>3 DEF Good
<1>4. CASE ~(s.st \in {"Usable", "AwaitSample"})
  <2>1. Finished(s) = s /\ s.epoch = <<>>
    BY <1>4 DEF Finished, Pending, Good
  <2> QED BY <1>1, <1>4, <2>1 DEF Good
<1> QED BY <1>2, <1>3, <1>4

(* A boot record ends the epoch before it and begins its own.                *)
LEMMA StartBootGood ==
  ASSUME NEW S, NEW s, Good(s, S), S \subseteq Lines, NEW l \in S,
         l.kind = "boot", l.form \in Decodes, l.t = s.bound
  PROVE  /\ Good(StartBoot(s, l), S) /\ StartBoot(s, l).bound = s.bound
         /\ StartBoot(s, l).records = Finished(s).records
         /\ StartBoot(s, l).epoch = <<l>> /\ StartBoot(s, l).st = "AwaitSample"
         /\ StartBoot(s, l).gaps = CloseGap(Finished(s).gaps, l.t)
<1> DEFINE d == Finished(s)
           z == [d EXCEPT !.gaps = CloseGap(@, l.t), !.st = "AwaitSample", !.epoch = <<l>>]
<1>1. /\ d \in States(S) /\ d.epoch = <<>> /\ d.bound = s.bound
      /\ Chain(d.records) /\ Closed(d.records)
      /\ \A i \in 1..Len(d.records) : d.records[i].t <= s.bound
  BY FinishedIs
<1>2. d.records \in Seq(S) /\ d.gaps \in Seq(Gaps) /\ d.bound \in Int
  BY <1>1, StateFields
<1>3. l \in Lines /\ l.t \in 0..MaxTime /\ l.t \in Nat
  BY LineFields
<1>4. CloseGap(d.gaps, l.t) \in Seq(Gaps)
  BY <1>2, <1>3, CloseGapIs
<1>5. StartBoot(s, l) = z
  BY DEF StartBoot
<1> HIDE DEF d
<1>6. <<l>> \in Seq(S)
  OBVIOUS
<1>7. /\ z \in States(S) /\ z.epoch = <<l>> /\ z.records = d.records
      /\ z.bound = s.bound /\ z.st = "AwaitSample" /\ z.gaps = CloseGap(d.gaps, l.t)
  BY <1>1, <1>4, <1>6 DEF States
<1> HIDE DEF z
<1>8. Held(z) = Append(d.records, l)
  <2>1. d.records \o <<l>> = Append(d.records, l)
    BY <1>2, AppendIsConcat
  <2> QED BY <1>7, <2>1 DEF Held
<1> DEFINE r == d.records
<1>9. r \in Seq(Lines)
  BY <1>2, SeqMonotonic
<1>10. r # <<>> => Link(Last(r), l)
  <2> SUFFICES ASSUME r # <<>> PROVE Link(Last(r), l)
    OBVIOUS
  <2>1. Last(r) = r[Len(r)] /\ Len(r) \in 1..Len(r)
    <3>1. Last(r) = r[Len(r)] /\ Len(r) \in Nat \ {0}
      BY <1>9, LastFront
    <3> QED BY <3>1
  <2>2. Last(r).t <= s.bound
    BY <1>1, <2>1
  <2>3. Last(r).kind # "boot"
    BY <1>1 DEF Closed
  <2> QED BY <2>2, <2>3 DEF Link
<1>11. Chain(Held(z))
  BY <1>1, <1>3, <1>8, <1>9, <1>10, ChainAppend
<1>12. \A i \in 1..Len(Held(z)) : Held(z)[i].t <= z.bound
  <2>1. /\ Len(Append(r, l)) = Len(r) + 1 /\ Append(r, l)[Len(r) + 1] = l /\ Len(r) \in Nat
        /\ \A i \in 1..Len(r) : Append(r, l)[i] = r[i]
    BY <1>9, <1>3, AppendProperties
  <2>2. \A n \in Nat : \A i \in 1..(n + 1) : i = n + 1 \/ i \in 1..n
    OBVIOUS
  <2>3. l.t <= s.bound
    BY <1>3
  <2> QED BY <1>1, <1>7, <1>8, <2>1, <2>2, <2>3
<1>13. Pending(z) /\ InEpoch(z)
  <2>1. Len(<<l>>) = 1 /\ <<l>>[1] = l /\ <<l>> # <<>> /\ \A i \in 1..1 : i = 1
    OBVIOUS
  <2>2. Last(<<l>>) = l
    BY <2>1 DEF Last
  <2> QED BY <1>7, <2>1, <2>2 DEF Pending, InEpoch
<1>14. Good(z, S)
  BY <1>1, <1>7, <1>11, <1>12, <1>13 DEF Good
<1> QED BY <1>5, <1>7, <1>14 DEF d

(* The condition under which a sample or a checkpoint belongs to the epoch.   *)
Belongs(s, l) ==
  Pending(s) /\ s.epoch[1].boot = l.boot /\ (s.st = "Usable" \/ l.kind = "sample")

(* Such a line is added to it.                                              *)
LEMMA BelongsGood ==
  ASSUME NEW S, NEW s, Good(s, S), S \subseteq Lines, NEW l \in S,
         l.kind # "boot", l.form \in Decodes, l.t = s.bound, Belongs(s, l)
  PROVE  /\ Good(Ingest(s, l), S) /\ Ingest(s, l).bound = s.bound
         /\ Held(Ingest(s, l)) = Append(Held(s), l) /\ Ingest(s, l).st = "Usable"
         /\ Ingest(s, l).gaps = s.gaps /\ Ingest(s, l).epoch[1].boot = l.boot
<1> DEFINE e == Append(s.epoch, l)
           z == [s EXCEPT !.epoch = e, !.st = "Usable"]
<1>1. /\ s \in States(S) /\ s.epoch \in Seq(S) /\ s.records \in Seq(S)
      /\ Held(s) \in Seq(S) /\ s.bound \in Int
  BY StateFields DEF Good
<1>2. Ingest(s, l) = z
  BY DEF Ingest, Belongs
<1>3. InEpoch(s) /\ Pending(s) /\ s.epoch # <<>> /\ s.epoch[1].boot = l.boot
  BY DEF Belongs, Good, InEpoch
<1>4. /\ e \in Seq(S) /\ e # <<>> /\ Len(e) = Len(s.epoch) + 1 /\ Len(s.epoch) \in Nat \ {0}
      /\ \A i \in 1..Len(s.epoch) : e[i] = s.epoch[i]
      /\ e[Len(s.epoch) + 1] = l
  <2>1. Len(s.epoch) \in Nat \ {0}
    BY <1>1, <1>3, EmptySeq
  <2> QED BY <1>1, <2>1, AppendProperties
<1> HIDE DEF e
<1>5. /\ z \in States(S) /\ z.epoch = e /\ z.records = s.records /\ z.st = "Usable"
      /\ z.bound = s.bound /\ z.gaps = s.gaps
  BY <1>1, <1>4 DEF States
<1> HIDE DEF z
<1>6. Held(z) = Append(Held(s), l)
  <2>0. \A a, b \in Seq(S) : a \o Append(b, l) = Append(a \o b, l)
    BY HeldAppend
  <2>1. s.records \o Append(s.epoch, l) = Append(s.records \o s.epoch, l)
    BY <1>1, <2>0, Zenon
  <2> QED BY <1>5, <2>1 DEF Held, e
<1>7. Last(e) = l
  BY <1>4 DEF Last
<1>8. e[1] = s.epoch[1]
  <2>1. \A n \in Nat \ {0} : 1 \in 1..n
    OBVIOUS
  <2> QED BY <1>4, <2>1
<1>9. \A n \in Nat : \A i \in 1..(n + 1) : i = n + 1 \/ i \in 1..n
  OBVIOUS
<1>10. Pending(z) /\ InEpoch(z)
  <2>1. \A i \in 1..Len(e) : e[i].boot = l.boot
    BY <1>3, <1>4, <1>9 DEF InEpoch
  <2> QED BY <1>3, <1>4, <1>5, <1>7, <1>8, <2>1 DEF Pending, InEpoch
<1> DEFINE h == Held(s)
<1>11. h \in Seq(Lines) /\ l \in Lines /\ l.t \in Nat
  BY <1>1, SeqMonotonic, LineFields
<1>12. h # <<>> /\ Last(h) = Last(s.epoch) /\ Last(h) = h[Len(h)] /\ Len(h) \in Nat \ {0}
  BY <1>1, <1>3, <1>11, HeldLast, LastFront
<1>13. Link(Last(h), l)
  <2>1. Last(h).t <= l.t
    <3>1. Len(h) \in 1..Len(h)
      BY <1>12
    <3> QED BY <1>12, <3>1 DEF Good
  <2>2. Last(h).boot = l.boot
    <3>1. Last(s.epoch) = s.epoch[Len(s.epoch)] /\ Len(s.epoch) \in 1..Len(s.epoch)
      BY <1>4 DEF Last
    <3> QED BY <1>3, <1>12, <3>1 DEF InEpoch
  <2>3. Last(h).kind = "boot" => l.kind = "sample"
    BY <1>3, <1>12 DEF InEpoch, Belongs
  <2> QED BY <2>1, <2>2, <2>3 DEF Link
<1>14. Chain(Held(z))
  BY <1>6, <1>11, <1>12, <1>13, ChainAppend DEF Good
<1>15. \A i \in 1..Len(Held(z)) : Held(z)[i].t <= z.bound
  <2>1. /\ Len(Append(h, l)) = Len(h) + 1 /\ Append(h, l)[Len(h) + 1] = l
        /\ \A i \in 1..Len(h) : Append(h, l)[i] = h[i]
    BY <1>11, AppendProperties
  <2>2. l.t <= s.bound
    BY <1>11
  <2> QED BY <1>5, <1>6, <1>9, <1>12, <2>1, <2>2 DEF Good
<1>16. Good(z, S)
  BY <1>5, <1>10, <1>14, <1>15 DEF Good
<1> QED BY <1>2, <1>3, <1>5, <1>6, <1>8, <1>16

(* One step of the scanner.                                                 *)
LEMMA ScannedGood ==
  ASSUME NEW S, NEW s, Good(s, S), S \subseteq Lines, NEW l \in S
  PROVE  /\ Good(Scanned(s, l), S) /\ Scanned(s, l).bound >= s.bound
         /\ l.form \notin {"torn", "junk"} => Scanned(s, l).bound >= l.t
         /\ \/ Scanned(s, l).bound = s.bound
            \/ l.form \notin {"torn", "junk"} /\ Scanned(s, l).bound = l.t
<1>1. /\ l \in Lines /\ l.t \in 0..MaxTime /\ l.t \in Nat
      /\ l.form \in {"ok", "late", "bare", "torn", "junk"}
      /\ l.kind \in {"boot", "sample", "check"}
  BY LineFields
<1>2. s \in States(S) /\ s.bound \in Int /\ s.bound \in None..MaxTime
  BY StateFields DEF Good
<1> DEFINE a == Advance(s, l.t)
<1>3. Good(a, S) /\ a.bound >= s.bound /\ a.bound >= l.t /\ a.bound \in {s.bound, l.t}
  BY <1>1, AdvanceGood
<1>4. l.t >= s.bound => a.bound = l.t
  BY <1>1, <1>2, <1>3
<1> HIDE DEF a
<1>5. CASE l.form \in {"torn", "junk"}
  <2>1. Max({s.bound, 0}) \in 0..MaxTime
    <3>1. Max({s.bound, 0}) = IF s.bound >= 0 THEN s.bound ELSE 0
      BY <1>2, MaxOfTwo
    <3> QED BY <1>2, <3>1, Bounds
  <2>2. Scanned(s, l) = Invalidate(s, Max({s.bound, 0}))
    BY <1>5 DEF Scanned, Damaged, Decodes
  <2> QED BY <1>2, <1>5, <2>1, <2>2, InvalidateGood
<1>6. CASE l.form = "bare"
  <2>1. Scanned(s, l) = Invalidate(a, l.t)
    BY <1>6 DEF Scanned, a, Decodes
  <2> QED BY <1>1, <1>3, <1>6, <2>1, InvalidateGood
<1>7. CASE l.form \in Decodes /\ l.t < s.bound
  <2>1. Scanned(s, l) = Invalidate(s, l.t)
    BY <1>1, <1>2, <1>7 DEF Scanned, Decodes
  <2> QED BY <1>1, <1>2, <1>7, <2>1, InvalidateGood
<1>8. CASE l.form \in Decodes /\ l.t >= s.bound /\ l.kind = "boot"
  <2>1. Scanned(s, l) = StartBoot(a, l)
    BY <1>1, <1>2, <1>8 DEF Scanned, Decodes, a
  <2> QED BY <1>3, <1>4, <1>8, <2>1, StartBootGood DEF Decodes
<1>9. CASE l.form \in Decodes /\ l.t >= s.bound /\ l.kind # "boot"
  <2>1. Scanned(s, l) = Ingest(a, l)
    BY <1>1, <1>2, <1>9 DEF Scanned, Decodes, a
  <2>2. CASE Belongs(a, l)
    BY <1>3, <1>4, <1>9, <2>1, <2>2, BelongsGood DEF Decodes
  <2>3. CASE ~Belongs(a, l)
    <3>1. Ingest(a, l) = Invalidate(a, l.t)
      BY <2>3 DEF Ingest, Belongs
    <3> QED BY <1>1, <1>3, <1>9, <2>1, <3>1, InvalidateGood DEF Decodes
  <2> QED BY <2>2, <2>3
<1>10. l.form \in {"torn", "junk", "bare"} \/ l.form \in Decodes
  BY <1>1 DEF Decodes
<1>11. l.t < s.bound \/ l.t >= s.bound
  BY <1>1, <1>2
<1> QED BY <1>5, <1>6, <1>7, <1>8, <1>9, <1>10, <1>11

-----------------------------------------------------------------------------
(* The pass over a file: what its recursion gives.                          *)

(* The scanner's state before the first line.                               *)
LEMMA FreshGood ==
  ASSUME NEW S, S \subseteq Lines
  PROVE  Good(Fresh, S)
<1>1. <<>> \in Seq(S) /\ <<>> \in Seq(Gaps) /\ None \in None..MaxTime
  BY Bounds
<1>2. Fresh \in States(S) /\ Fresh.epoch = <<>> /\ Fresh.records = <<>>
  BY <1>1 DEF Fresh, States
<1>3. ~Pending(Fresh)
  BY DEF Fresh, Pending
<1>4. \A i \in 1..Len(<<>>) : <<>>[i].t <= Fresh.bound
  <2>1. Len(<<>>) = 0 /\ 1..0 = {}
    OBVIOUS
  <2> QED BY <2>1
<1> QED BY <1>2, <1>3, <1>4, ChainEmpty, RestGood

(* A is the scanner's state after each line of f.                            *)
Passed(A, f) == A[0] = Fresh /\ \A n \in 1..Len(f) : A[n] = Scanned(A[n - 1], f[n])

(* The pass is such a sequence of states, all of them good.                  *)
LEMMA PassIs ==
  ASSUME NEW S, S \subseteq Lines, NEW f \in Seq(S)
  PROVE  \E A : Passed(A, f) /\ Pass(f) = A[Len(f)]
<1> DEFINE m == Len(f)
           V == {s \in States(S) : Good(s, S)}
           D(F) == F = [n \in 0..m |-> IF n = 0 THEN Fresh ELSE Scanned(F[n - 1], f[n])]
           A == CHOOSE F : D(F)
           G == [n \in 1..m |-> [s \in V |-> Scanned(s, f[n])]]
<1>1. m \in Nat /\ \A n \in 1..m : f[n] \in S
  OBVIOUS
<1>2. Pass(f) = A[m]
  BY Zenon DEF Pass
<1>3. Fresh \in V
  BY FreshGood DEF Good
<1>4. ASSUME NEW n \in 1..m, NEW s \in V PROVE Scanned(s, f[n]) \in V
  <2>1. Good(Scanned(s, f[n]), S)
    BY <1>1, <1>4, ScannedGood
  <2> QED BY <2>1 DEF Good
<1>5. D(A)
  <2>1. G \in [1..m -> [V -> V]]
    <3> HIDE DEF V, m
    <3> QED BY <1>4
  <2>2. PICK F : Follows(F, V, m, Fresh, G)
    <3> HIDE DEF G, V, m
    <3> QED BY <1>1, <1>3, <2>1, Recursion
  <2>3. F \in [0..m -> V] /\ F[0] = Fresh /\ \A n \in 1..m : F[n] = G[n][F[n - 1]]
    BY <2>2 DEF Follows
  <2>4. ASSUME NEW n \in 0..m
        PROVE  F[n] = IF n = 0 THEN Fresh ELSE Scanned(F[n - 1], f[n])
    <3>1. CASE n = 0
      BY <2>3, <3>1
    <3>2. CASE n # 0
      <4> HIDE DEF V, m
      <4>1. n \in 1..m /\ n - 1 \in 0..m
        BY <1>1, <3>2
      <4>2. F[n - 1] \in V
        BY <2>3, <4>1
      <4>3. G[n][F[n - 1]] = Scanned(F[n - 1], f[n])
        BY <4>1, <4>2
      <4> QED BY <2>3, <3>2, <4>1, <4>3
    <3> QED BY <3>1, <3>2
  <2>5. D(F)
    <3> HIDE DEF V, m
    <3> QED BY <2>3, <2>4
  <2> HIDE DEF D
  <2> QED BY <2>5
<1> HIDE DEF A, G, V
<1>6. \A n \in 0..m : A[n] = IF n = 0 THEN Fresh ELSE Scanned(A[n - 1], f[n])
  BY <1>5
<1>7. A[0] = Fresh /\ \A n \in 1..m : A[n] = Scanned(A[n - 1], f[n])
  BY <1>1, <1>6
<1> QED BY <1>2, <1>7 DEF Passed

(* The pass over any file leaves a good state, whose bound is no less than    *)
(* the time of any line that was written whole.                             *)
LEMMA PassGood ==
  ASSUME NEW S, S \subseteq Lines, NEW f \in Seq(S)
  PROVE  /\ Good(Pass(f), S)
         /\ \A i \in 1..Len(f) : f[i].form \notin {"torn", "junk"} => f[i].t <= Pass(f).bound
<1> DEFINE m == Len(f)
           Below(n, b) == \A i \in 1..n : f[i].form \notin {"torn", "junk"} => f[i].t <= b
<1>1. m \in Nat /\ \A n \in 1..m : f[n] \in S
  OBVIOUS
<1>2. PICK A : Passed(A, f) /\ Pass(f) = A[m]
  BY PassIs
<1>3. A[0] = Fresh /\ \A n \in 1..m : A[n] = Scanned(A[n - 1], f[n])
  BY <1>2 DEF Passed
<1> HIDE DEF m
<1> DEFINE Q == {n \in 0..m : Good(A[n], S) /\ Below(n, A[n].bound)}
<1>4. 0 \in Q
  BY <1>1, <1>3, FreshGood
<1>5. ASSUME NEW n \in 1..m, n - 1 \in Q PROVE n \in Q
  <2>1. Good(A[n - 1], S) /\ f[n] \in S /\ A[n] = Scanned(A[n - 1], f[n]) /\ f[n] \in Lines
    BY <1>1, <1>3, <1>5
  <2>2. /\ Good(A[n], S) /\ A[n].bound >= A[n - 1].bound
        /\ f[n].form \notin {"torn", "junk"} => A[n].bound >= f[n].t
    <3> DEFINE z == Scanned(A[n - 1], f[n])
    <3>1. /\ Good(z, S) /\ z.bound >= A[n - 1].bound
          /\ f[n].form \notin {"torn", "junk"} => z.bound >= f[n].t
      BY <2>1, ScannedGood
    <3> HIDE DEF z
    <3> QED BY <2>1, <3>1 DEF z
  <2>3. A[n].bound \in Int /\ A[n - 1].bound \in Int
    BY <2>1, <2>2, StateFields DEF Good
  <2>4. ASSUME NEW i \in 1..n, f[i].form \notin {"torn", "junk"} PROVE f[i].t <= A[n].bound
    <3>1. f[i].t \in Nat
      <4>1. i \in 1..m
        BY <1>1
      <4> QED BY <1>1, <4>1, LineFields
    <3>2. CASE i = n
      BY <2>2, <2>3, <2>4, <3>1, <3>2
    <3>3. CASE i # n
      <4>1. i \in 1..(n - 1)
        BY <1>1, <3>3
      <4>2. f[i].t <= A[n - 1].bound
        BY <1>5, <2>4, <4>1
      <4> QED BY <2>2, <2>3, <3>1, <4>2
    <3> QED BY <3>2, <3>3
  <2>5. n \in 0..m
    BY <1>1
  <2> QED BY <2>2, <2>4, <2>5
<1>6. m \in Q
  <2> HIDE DEF Q
  <2>1. \A n \in 0..m : n \in Q
    BY <1>1, <1>4, <1>5, Induct
  <2> QED BY <1>1, <2>1
<1> QED BY <1>2, <1>6 DEF m

(* What validating a file gives: whole epochs of its own lines.              *)
LEMMA ScanGood ==
  ASSUME NEW S, S \subseteq Lines, NEW f \in Seq(S)
  PROVE  /\ Scan(f) \in States(S) /\ Scan(f).records \in Seq(S)
         /\ Scan(f).gaps \in Seq(Gaps) /\ Scan(f).bound \in None..MaxTime
         /\ Chain(Scan(f).records) /\ Closed(Scan(f).records)
         /\ \A i \in 1..Len(f) : f[i].form \notin {"torn", "junk"} => f[i].t <= Scan(f).bound
<1>1. /\ Good(Pass(f), S)
      /\ \A i \in 1..Len(f) : f[i].form \notin {"torn", "junk"} => f[i].t <= Pass(f).bound
  BY PassGood
<1>2. /\ Scan(f) \in States(S) /\ Scan(f).bound = Pass(f).bound
      /\ Chain(Scan(f).records) /\ Closed(Scan(f).records)
  BY <1>1, FinishedIs DEF Scan
<1> QED BY <1>1, <1>2, StateFields

(* The scanner over whole epochs: it keeps or has in progress all it has read, *)
(* and reports nothing.                                                     *)
Clean(s, rs, n) ==
  /\ Good(s, Lines) /\ Held(s) = SubSeq(rs, 1, n) /\ s.gaps = <<>>
  /\ n = 0 => s.st = "AwaitBoot" /\ s.bound = None
  /\ n > 0 => /\ s.bound = rs[n].t /\ s.epoch[1].boot = rs[n].boot
              /\ s.st = IF rs[n].kind = "boot" THEN "AwaitSample" ELSE "Usable"

(* One step of it.                                                          *)
LEMMA CleanStep ==
  ASSUME NEW rs \in Seq(Lines), Chain(rs), NEW n \in 1..Len(rs), NEW s, Clean(s, rs, n - 1)
  PROVE  Clean(Scanned(s, rs[n]), rs, n)
<1> DEFINE l == rs[n]
           a == Advance(s, l.t)
           p == rs[n - 1]
<1>1. /\ n \in Nat \ {0} /\ l \in Lines /\ l.form \in Decodes /\ l.t \in 0..MaxTime
      /\ l.t \in Nat
  BY LineFields DEF Chain
<1>2. Good(s, Lines) /\ s \in States(Lines) /\ s.bound \in Int
  BY StateFields DEF Clean, Good
<1>3. n = 1 => s.bound = None /\ s.st = "AwaitBoot" /\ l.kind = "boot"
  <2> SUFFICES ASSUME n = 1 PROVE s.bound = None /\ s.st = "AwaitBoot" /\ l.kind = "boot"
    OBVIOUS
  <2>1. rs # <<>>
    OBVIOUS
  <2> QED BY <2>1 DEF Clean, Chain
<1>4. n # 1 => /\ n - 1 > 0 /\ s.bound = p.t /\ s.epoch[1].boot = p.boot /\ Link(p, l)
               /\ p.t <= l.t
               /\ s.st = IF p.kind = "boot" THEN "AwaitSample" ELSE "Usable"
  <2> SUFFICES ASSUME n # 1
               PROVE  /\ n - 1 > 0 /\ s.bound = p.t /\ s.epoch[1].boot = p.boot
                      /\ Link(p, l) /\ p.t <= l.t
                      /\ s.st = IF p.kind = "boot" THEN "AwaitSample" ELSE "Usable"
    OBVIOUS
  <2>1. n - 1 > 0 /\ n - 1 \in 1..(Len(rs) - 1) /\ (n - 1) + 1 = n
    OBVIOUS
  <2>2. Link(p, l)
    BY <2>1 DEF Chain
  <2> QED BY <2>1, <2>2 DEF Clean, Link
<1>5. l.t >= s.bound
  BY <1>1, <1>3, <1>4, Bounds
<1> HIDE DEF l, p
<1>6. /\ Good(a, Lines) /\ a.bound = l.t
      /\ a = [s EXCEPT !.bound = a.bound]
  <2>1. /\ Good(a, Lines) /\ a.bound >= l.t /\ a.bound \in {s.bound, l.t}
        /\ a = [s EXCEPT !.bound = a.bound]
    BY <1>1, <1>2, AdvanceGood
  <2> QED BY <1>1, <1>2, <1>5, <2>1
<1>7. a.st = s.st /\ a.epoch = s.epoch /\ a.records = s.records /\ a.gaps = s.gaps
  BY <1>2, <1>6 DEF States
<1> HIDE DEF a
<1>8. Held(a) = Held(s) /\ Held(s) = SubSeq(rs, 1, n - 1)
  BY <1>7 DEF Held, Clean
<1>9. Append(SubSeq(rs, 1, n - 1), l) = SubSeq(rs, 1, n)
  <2>1. SubSeq(rs, 1, n - 1) \in Seq(Lines)
    <3>1. \A i \in 1..(n - 1) : rs[i] \in Lines
      OBVIOUS
    <3>2. 1 \in Int /\ n - 1 \in Int
      BY <1>1
    <3> QED BY <3>1, <3>2, SubSeqProperties
  <2>2. Append(SubSeq(rs, 1, n - 1), l) = SubSeq(rs, 1, n - 1) \o <<l>>
    BY <1>1, <2>1, AppendIsConcat
  <2>3. 1 \in 1..Len(rs) /\ n \in 1..Len(rs)
    OBVIOUS
  <2>4. SubSeq(rs, 1, n) = SubSeq(rs, 1, n - 1) \o <<rs[n]>>
    BY <2>3, SubSeqRecursiveSecond
  <2> QED BY <2>2, <2>4 DEF l
<1> DEFINE z == Scanned(s, l)
<1>10. CASE l.kind = "boot"
  <2>1. z = StartBoot(a, l)
    BY <1>1, <1>2, <1>5, <1>10 DEF Scanned, Decodes, a
  <2>2. a.st # "AwaitSample"
    <3>1. CASE n = 1
      BY <1>3, <1>7, <3>1
    <3>2. CASE n # 1
      BY <1>4, <1>7, <1>10, <3>2 DEF Link
    <3> QED BY <3>1, <3>2
  <2>3. Finished(a).gaps = <<>> /\ Finished(a).records = Held(a)
    <3>1. Finished(a).gaps = a.gaps /\ Finished(a).records = Held(a)
      BY <1>6, <2>2, FinishedIs
    <3> QED BY <1>7, <3>1 DEF Clean
  <2>4. /\ Good(z, Lines) /\ z.bound = a.bound /\ z.records = Held(a) /\ z.epoch = <<l>>
        /\ z.st = "AwaitSample" /\ z.gaps = CloseGap(<<>>, l.t)
    BY <1>1, <1>6, <1>10, <2>1, <2>3, StartBootGood
  <2>5. z.gaps = <<>>
    <3>1. <<>> \in Seq(Gaps)
      OBVIOUS
    <3> QED BY <1>1, <2>4, <3>1, CloseGapIs
  <2>6. Held(z) = Append(Held(a), l)
    <3>1. Held(a) \in Seq(Lines)
      BY <1>6, StateFields DEF Good
    <3>2. Append(Held(a), l) = Held(a) \o <<l>>
      BY <1>1, <3>1, AppendIsConcat
    <3> QED BY <2>4, <3>2 DEF Held
  <2>7. z.epoch[1].boot = l.boot
    BY <2>4
  <2>8. Held(z) = SubSeq(rs, 1, n)
    BY <1>8, <1>9, <2>6
  <2> HIDE DEF z
  <2>9. Clean(z, rs, n)
    BY <1>1, <1>6, <1>10, <2>4, <2>5, <2>7, <2>8 DEF Clean, l
  <2> QED BY <2>9 DEF z, l
<1>11. CASE l.kind # "boot"
  <2>1. z = Ingest(a, l)
    BY <1>1, <1>2, <1>5, <1>11 DEF Scanned, Decodes, a
  <2>2. n # 1
    BY <1>3, <1>11
  <2>3. Belongs(a, l)
    BY <1>4, <1>7, <1>11, <2>2 DEF Link, Belongs, Pending
  <2>4. /\ Good(z, Lines) /\ z.bound = a.bound /\ Held(z) = Append(Held(a), l)
        /\ z.st = "Usable" /\ z.gaps = a.gaps /\ z.epoch[1].boot = l.boot
    BY <1>1, <1>6, <1>11, <2>1, <2>3, BelongsGood
  <2>5. z.gaps = <<>>
    BY <1>7, <2>4 DEF Clean
  <2>6. Held(z) = SubSeq(rs, 1, n)
    BY <1>8, <1>9, <2>4
  <2> HIDE DEF z
  <2>7. Clean(z, rs, n)
    BY <1>1, <1>6, <1>11, <2>4, <2>5, <2>6 DEF Clean, l
  <2> QED BY <2>7 DEF z, l
<1> QED BY <1>10, <1>11

(* The pass over such a stream holds all of it in the end.                   *)
LEMMA PassClean ==
  ASSUME NEW rs \in Seq(Lines), Chain(rs)
  PROVE  Clean(Pass(rs), rs, Len(rs)) /\ Held(Pass(rs)) = rs
<1> DEFINE m == Len(rs)
<1>1. m \in Nat
  OBVIOUS
<1>2. PICK A : Passed(A, rs) /\ Pass(rs) = A[m]
  BY PassIs
<1>3. A[0] = Fresh /\ \A n \in 1..m : A[n] = Scanned(A[n - 1], rs[n])
  BY <1>2 DEF Passed
<1> DEFINE Q == {n \in 0..m : Clean(A[n], rs, n)}
<1>4. 0 \in Q
  <2>1. SubSeq(rs, 1, 0) = <<>> /\ Held(Fresh) = <<>>
    <3>1. <<>> \in Seq(Lines)
      OBVIOUS
    <3>2. <<>> \o <<>> = <<>>
      BY <3>1, ConcatEmptySeq
    <3>3. SubSeq(rs, 1, 0) = <<>>
      BY SubSeqEmpty
    <3> QED BY <3>2, <3>3 DEF Held, Fresh
  <2>2. Good(Fresh, Lines)
    BY FreshGood
  <2>3. Fresh.gaps = <<>> /\ Fresh.st = "AwaitBoot" /\ Fresh.bound = None
    BY DEF Fresh
  <2>4. Clean(Fresh, rs, 0)
    BY <2>1, <2>2, <2>3 DEF Clean
  <2> QED BY <1>1, <1>3, <2>4
<1>5. ASSUME NEW n \in 1..m, n - 1 \in Q PROVE n \in Q
  <2>1. Clean(Scanned(A[n - 1], rs[n]), rs, n)
    BY <1>5, CleanStep
  <2>2. n \in 0..m
    BY <1>1
  <2> QED BY <1>3, <2>1, <2>2
<1>6. Clean(A[m], rs, m)
  <2> HIDE DEF Q, m
  <2>1. \A n \in 0..m : n \in Q
    BY <1>1, <1>4, <1>5, Induct
  <2>2. m \in Q
    BY <1>1, <2>1
  <2> QED BY <2>2 DEF Q
<1>7. SubSeq(rs, 1, m) = rs
  BY SubSeqFull
<1> QED BY <1>2, <1>6, <1>7 DEF Clean

(* A stream of whole epochs validates as itself.                             *)
LEMMA Rescan ==
  ASSUME NEW rs \in Seq(Lines), Chain(rs), Closed(rs)
  PROVE  Validates(rs)
<1> DEFINE m == Len(rs)
           s == Pass(rs)
<1>1. m \in Nat
  OBVIOUS
<1>2. Clean(s, rs, m) /\ Held(s) = rs
  BY PassClean
<1>3. s.st # "AwaitSample"
  <2>1. CASE m = 0
    BY <1>2, <2>1 DEF Clean
  <2>2. CASE m # 0
    <3>1. rs # <<>> /\ Last(rs) = rs[m] /\ m > 0
      BY <1>1, <2>2 DEF Last
    <3>2. rs[m].kind # "boot"
      BY <3>1 DEF Closed
    <3> QED BY <1>2, <3>1, <3>2 DEF Clean
  <2> QED BY <2>1, <2>2
<1>4. Scan(rs).gaps = s.gaps /\ Scan(rs).records = Held(s)
  BY <1>2, <1>3, FinishedIs DEF Scan, Clean
<1> QED BY <1>2, <1>4 DEF Validates, Clean

-----------------------------------------------------------------------------
(* The members of a sequence at some positions, by recursion.                *)
Picked(A, rs, keep) ==
  /\ A[0] = <<>>
  /\ \A n \in 1..Len(rs) : A[n] = IF n \in keep THEN Append(A[n - 1], rs[n]) ELSE A[n - 1]

(* Only is such a recursion.                                                 *)
LEMMA OnlyIs ==
  ASSUME NEW S, NEW rs \in Seq(S), NEW keep
  PROVE  \E A \in [0..Len(rs) -> Seq(S)] : Picked(A, rs, keep) /\ Only(rs, keep) = A[Len(rs)]
<1> DEFINE m == Len(rs)
           V == Seq(S)
           Grow(n, out) == IF n \in keep THEN Append(out, rs[n]) ELSE out
           D(F) == F = [n \in 0..m |-> IF n = 0 THEN <<>>
                          ELSE IF n \in keep THEN Append(F[n - 1], rs[n]) ELSE F[n - 1]]
           A == CHOOSE F : D(F)
           G == [n \in 1..m |-> [out \in V |-> Grow(n, out)]]
<1>1. m \in Nat /\ \A n \in 1..m : rs[n] \in S
  OBVIOUS
<1>2. Only(rs, keep) = A[m]
  BY Zenon DEF Only
<1>3. <<>> \in V
  OBVIOUS
<1>4. ASSUME NEW n \in 1..m, NEW out \in V PROVE Grow(n, out) \in V
  BY <1>1
<1> HIDE DEF Grow, V, m
<1>5. PICK F : Follows(F, V, m, <<>>, G)
  <2>1. G \in [1..m -> [V -> V]]
    BY <1>4
  <2> HIDE DEF G
  <2> QED BY <1>1, <1>3, <2>1, Recursion
<1>6. F \in [0..m -> V] /\ F[0] = <<>> /\ \A n \in 1..m : F[n] = G[n][F[n - 1]]
  BY <1>5 DEF Follows
<1>7. ASSUME NEW n \in 0..m
      PROVE  F[n] = IF n = 0 THEN <<>>
                    ELSE IF n \in keep THEN Append(F[n - 1], rs[n]) ELSE F[n - 1]
  <2>1. CASE n = 0
    BY <1>6, <2>1
  <2>2. CASE n # 0
    <3>1. n \in 1..m /\ n - 1 \in 0..m
      BY <1>1, <2>2
    <3>2. F[n - 1] \in V
      BY <1>6, <3>1
    <3>3. G[n][F[n - 1]] = Grow(n, F[n - 1])
      BY <3>1, <3>2
    <3> QED BY <1>6, <2>2, <3>1, <3>3 DEF Grow
  <2> QED BY <2>1, <2>2
<1>8. D(F)
  BY <1>6, <1>7
<1>9. D(A)
  <2> HIDE DEF D
  <2> QED BY <1>8
<1> HIDE DEF A, G
<1>10. \A n \in 0..m : A[n] = IF n = 0 THEN <<>>
                       ELSE IF n \in keep THEN Append(A[n - 1], rs[n]) ELSE A[n - 1]
  BY <1>9
<1>11. Picked(A, rs, keep)
  BY <1>1, <1>10 DEF Picked, m
<1>12. \A n \in 0..m : A[n] \in V
  <2> DEFINE Q == {n \in 0..m : A[n] \in V}
  <2>1. 0 \in Q
    BY <1>1, <1>3, <1>10
  <2>2. ASSUME NEW n \in 1..m, n - 1 \in Q PROVE n \in Q
    <3>1. A[n - 1] \in V /\ n \in 0..m /\ n # 0
      BY <1>1, <2>2
    <3>2. Grow(n, A[n - 1]) \in V
      BY <1>4, <3>1
    <3> QED BY <1>10, <3>1, <3>2 DEF Grow
  <2> HIDE DEF Q
  <2>3. \A n \in 0..m : n \in Q
    BY <1>1, <2>1, <2>2, Induct
  <2> QED BY <2>3 DEF Q
<1>13. A \in [0..m -> V]
  BY <1>9, <1>12
<1> QED BY <1>2, <1>11, <1>13 DEF m, V

(* What is picked is of the same kind.                                      *)
LEMMA OnlyType ==
  ASSUME NEW S, NEW rs \in Seq(S), NEW keep
  PROVE  Only(rs, keep) \in Seq(S)
<1>1. PICK A \in [0..Len(rs) -> Seq(S)] : Only(rs, keep) = A[Len(rs)]
  BY OnlyIs
<1>2. Len(rs) \in 0..Len(rs)
  OBVIOUS
<1> QED BY <1>1, <1>2

-----------------------------------------------------------------------------
(* Epochs.  The boot record of a position is the last one up to it.          *)
LEMMA EpochIs ==
  ASSUME NEW rs \in Seq(Lines), Chain(rs), NEW i \in 1..Len(rs)
  PROVE  /\ EpochOf(rs, i) \in 1..i /\ rs[EpochOf(rs, i)].kind = "boot"
         /\ \A j \in (EpochOf(rs, i) + 1)..i : rs[j].kind # "boot"
         /\ \A e \in 1..i : rs[e].kind = "boot" /\ (\A j \in (e + 1)..i : rs[j].kind # "boot")
              => EpochOf(rs, i) = e
<1> DEFINE P == {j \in 1..i : rs[j].kind = "boot"}
<1>1. i \in Nat /\ 1 \in 1..i /\ rs # <<>> /\ P \subseteq 1..i
  OBVIOUS
<1>2. 1 \in P
  BY <1>1 DEF Chain
<1>3. EpochOf(rs, i) = Max(P)
  BY DEF EpochOf
<1> DEFINE x == Max(P)
<1>4. x \in P /\ \A j \in P : j <= x
  <2> HIDE DEF P
  <2> QED BY <1>1, <1>2, MaxPlace
<1> HIDE DEF x
<1>5. x \in 1..i /\ rs[x].kind = "boot" /\ \A j \in 1..i : rs[j].kind = "boot" => j <= x
  BY <1>4
<1>6. ASSUME NEW j \in (x + 1)..i PROVE rs[j].kind # "boot"
  <2>1. j \in 1..i /\ ~(j <= x)
    BY <1>5
  <2> QED BY <1>5, <2>1
<1>7. ASSUME NEW e \in 1..i, rs[e].kind = "boot", \A j \in (e + 1)..i : rs[j].kind # "boot"
      PROVE  x = e
  <2>1. e <= x
    BY <1>5, <1>7
  <2>2. ~(e + 1 <= x)
    <3> SUFFICES ASSUME e + 1 <= x PROVE FALSE
      OBVIOUS
    <3>1. x \in (e + 1)..i
      BY <1>5
    <3> QED BY <1>5, <1>7, <3>1
  <2> QED BY <1>5, <2>1, <2>2
<1> QED BY <1>3, <1>5, <1>6, <1>7 DEF x

(* All of an epoch was written by one process.                               *)
LEMMA EpochBoot ==
  ASSUME NEW rs \in Seq(Lines), Chain(rs)
  PROVE  \A i \in 1..Len(rs) : rs[i].boot = rs[EpochOf(rs, i)].boot
<1> DEFINE m == Len(rs)
           Q == {i \in 0..m : i # 0 => rs[i].boot = rs[EpochOf(rs, i)].boot}
<1>1. m \in Nat /\ 0 \in Q
  OBVIOUS
<1>2. ASSUME NEW i \in 1..m, i - 1 \in Q PROVE i \in Q
  <2>0. i \in 1..Len(rs) /\ i \in 0..m /\ i \in Nat \ {0}
    OBVIOUS
  <2>1. CASE rs[i].kind = "boot"
    <3>1. i \in 1..i /\ (i + 1)..i = {}
      OBVIOUS
    <3>2. EpochOf(rs, i) = i
      BY <2>0, <2>1, <3>1, EpochIs
    <3> QED BY <2>0, <3>2
  <2>2. CASE rs[i].kind # "boot"
    <3>1. i # 1
      <4>1. rs # <<>>
        OBVIOUS
      <4> QED BY <2>2, <4>1 DEF Chain
    <3> DEFINE p == i - 1
               e == EpochOf(rs, p)
    <3>2. p \in 1..Len(rs) /\ p \in 1..(Len(rs) - 1) /\ p + 1 = i /\ p # 0
      BY <3>1
    <3>3. e \in 1..p /\ rs[e].kind = "boot" /\ \A j \in (e + 1)..p : rs[j].kind # "boot"
      BY <3>2, EpochIs
    <3> HIDE DEF e
    <3>4. \A j \in (e + 1)..i : j = i \/ j \in (e + 1)..p
      BY <3>2, <3>3
    <3>5. e \in 1..i
      BY <3>2, <3>3
    <3>6. EpochOf(rs, i) = e
      BY <2>0, <2>2, <3>3, <3>4, <3>5, EpochIs
    <3>7. Link(rs[p], rs[i])
      BY <3>2 DEF Chain
    <3>8. rs[p].boot = rs[e].boot
      BY <1>2, <3>2 DEF e
    <3> QED BY <2>0, <2>2, <3>6, <3>7, <3>8 DEF Link
  <2> QED BY <2>1, <2>2
<1>3. \A n \in 0..m : n \in Q
  <2> HIDE DEF Q, m
  <2> QED BY <1>1, <1>2, Induct
<1> QED BY <1>3

-----------------------------------------------------------------------------
(* What compaction keeps.  With a line it keeps the boot record of its epoch. *)
LEMMA KeptBoot ==
  ASSUME NEW rs \in Seq(Lines), Chain(rs), NEW c \in Nat, NEW i \in Kept(rs, c)
  PROVE  EpochOf(rs, i) \in Kept(rs, c)
<1> DEFINE e == EpochOf(rs, i)
<1>1. i \in 1..Len(rs) /\ Wanted(rs, c, i)
  BY DEF Kept
<1>2. e \in 1..i /\ rs[e].kind = "boot"
  BY <1>1, EpochIs
<1> HIDE DEF e
<1>3. e \in 1..Len(rs) /\ e \in 1..e /\ (e + 1)..e = {}
  BY <1>1, <1>2
<1>4. EpochOf(rs, e) = e
  BY <1>2, <1>3, EpochIs
<1>5. rs[i].boot = rs[e].boot
  BY <1>1, EpochBoot DEF e
<1>6. Epoch(rs, e) = Epoch(rs, i)
  BY <1>4 DEF Epoch, e
<1>7. Wanted(rs, c, e)
  BY <1>1, <1>5, <1>6 DEF Wanted
<1>8. e \in DOMAIN rs
  BY <1>3
<1> QED BY <1>2, <1>7, <1>8 DEF Kept, e

(* With a boot record it keeps a full sample of the epoch, and nothing before *)
(* it.                                                                       *)
LEMMA KeptSample ==
  ASSUME NEW rs \in Seq(Lines), Chain(rs), Closed(rs), NEW c \in Nat,
         NEW e \in Kept(rs, c), rs[e].kind = "boot"
  PROVE  \E m \in Kept(rs, c) : /\ m > e /\ rs[m].kind = "sample"
                                /\ \A j \in (e + 1)..(m - 1) : j \notin Kept(rs, c)
<1>1. e \in 1..Len(rs) /\ Wanted(rs, c, e) /\ DOMAIN rs = 1..Len(rs) /\ Len(rs) \in Nat
  BY DEF Kept
<1>2. e # Len(rs)
  <2>1. rs # <<>>
    BY <1>1
  <2> QED BY <2>1 DEF Closed, Last
<1> DEFINE f == e + 1
<1>3. f \in 1..Len(rs) /\ e \in 1..(Len(rs) - 1) /\ e \in 1..f /\ f > e
  <2>1. \A n \in Nat : \A i \in 1..n :
          i # n => i + 1 \in 1..n /\ i \in 1..(n - 1) /\ i \in 1..(i + 1) /\ i + 1 > i
    OBVIOUS
  <2> QED BY <1>1, <1>2, <2>1
<1>4. rs[f].kind = "sample"
  BY <1>3 DEF Chain, Link
<1>5. EpochOf(rs, e) = e
  <2>1. e \in 1..e /\ (e + 1)..e = {}
    BY <1>1
  <2> QED BY <1>1, <2>1, EpochIs
<1>6. EpochOf(rs, f) = e
  <2>1. \A j \in (e + 1)..f : j = f
    OBVIOUS
  <2> QED BY <1>3, <1>4, <2>1, EpochIs
<1> HIDE DEF f
<1>7. ASSUME NEW i \in 1..Len(rs), EpochOf(rs, i) = e
      PROVE  Epoch(rs, i) = Epoch(rs, e) /\ Wanted(rs, c, i)
  <2>1. Epoch(rs, i) = Epoch(rs, e)
    BY <1>5, <1>7 DEF Epoch
  <2>2. rs[i].boot = rs[e].boot
    BY <1>7, EpochBoot
  <2> QED BY <1>1, <2>1, <2>2 DEF Wanted
<1>8. \A i \in 1..Len(rs) : rs[i].t \in Nat
  <2>1. \A i \in 1..Len(rs) : rs[i] \in Lines
    OBVIOUS
  <2> QED BY <2>1, LineFields
<1>9. CASE rs[f].t >= c
  <2>1. f \in Kept(rs, c)
    BY <1>1, <1>3, <1>6, <1>7, <1>9 DEF Kept
  <2>2. (e + 1)..(f - 1) = {}
    BY <1>1 DEF f
  <2> QED BY <1>3, <1>4, <2>1, <2>2
<1>10. CASE ~(rs[f].t >= c)
  <2> DEFINE B == Before(rs, c, e)
             m == Max(B)
  <2>1. B \subseteq 1..Len(rs) /\ f \in B
    <3>1. rs[f].t < c
      BY <1>3, <1>8, <1>10
    <3> QED BY <1>1, <1>3, <1>4, <1>5, <1>6, <3>1 DEF Before, Epoch
  <2>2. m \in B /\ \A i \in B : i <= m
    <3> HIDE DEF B
    <3> QED BY <1>1, <2>1, MaxPlace
  <2>3. m \in 1..Len(rs) /\ EpochOf(rs, m) = e /\ rs[m].kind = "sample" /\ rs[m].t < c
    BY <1>1, <1>5, <2>2 DEF Before, Epoch
  <2>4. f <= m
    BY <2>1, <2>2
  <2> HIDE DEF m
  <2>5. m > e
    BY <1>1, <1>3, <2>3, <2>4 DEF f
  <2>6. Before(rs, c, m) = B
    BY <1>7, <2>3 DEF Before
  <2>7. m \in Kept(rs, c)
    <3>1. Baseline(rs, c, m)
      BY <2>2, <2>6 DEF Baseline, m
    <3> QED BY <1>1, <1>7, <2>3, <3>1 DEF Kept
  <2>8. ASSUME NEW j \in (e + 1)..(m - 1), j \in Kept(rs, c) PROVE FALSE
    <3>1. j \in 1..Len(rs) /\ j \in (e + 1)..m /\ j <= m /\ j # m /\ e \in 1..j
      BY <1>1, <2>3
    <3>2. \A k \in (e + 1)..m : rs[k].kind # "boot"
      BY <2>3, EpochIs
    <3>3. \A k \in (e + 1)..j : k \in (e + 1)..m
      BY <1>1, <2>3
    <3>4. EpochOf(rs, j) = e
      BY <3>1, <3>2, <3>3, EpochIs
    <3>5. rs[j].t <= rs[m].t
      BY <2>3, <3>1 DEF Chain
    <3>6. ~(rs[j].t >= c)
      BY <1>8, <2>3, <3>1, <3>5
    <3>7. Before(rs, c, j) = B
      BY <1>7, <3>1, <3>4 DEF Before
    <3>8. ~Baseline(rs, c, j)
      BY <3>1, <3>7 DEF Baseline, m
    <3> QED BY <2>8, <3>1, <3>2, <3>6, <3>8 DEF Kept
  <2> QED BY <2>3, <2>5, <2>7, <2>8
<1> QED BY <1>9, <1>10

(* Two lines that stand next to each other among those kept may do so.       *)
LEMMA KeptLink ==
  ASSUME NEW rs \in Seq(Lines), Chain(rs), Closed(rs), NEW c \in Nat,
         NEW p \in Kept(rs, c), NEW k \in Kept(rs, c), p < k,
         \A j \in (p + 1)..(k - 1) : j \notin Kept(rs, c)
  PROVE  Link(rs[p], rs[k])
<1>1. p \in 1..Len(rs) /\ k \in 1..Len(rs) /\ p \in Nat /\ k \in Nat
  BY DEF Kept
<1>2. rs[p].t <= rs[k].t
  BY <1>1 DEF Chain
<1>3. ASSUME rs[k].kind # "boot" PROVE rs[p].boot = rs[k].boot
  <2> DEFINE e == EpochOf(rs, k)
  <2>1. /\ e \in 1..k /\ rs[e].kind = "boot"
        /\ \A j \in (e + 1)..k : rs[j].kind # "boot"
    BY <1>1, EpochIs
  <2>2. e \in Kept(rs, c)
    BY KeptBoot
  <2>3. rs[k].boot = rs[e].boot
    BY <1>1, EpochBoot
  <2> HIDE DEF e
  <2>4. e # k
    BY <1>3, <2>1
  <2>5. e \notin (p + 1)..(k - 1)
    BY <2>2
  <2>6. e \in 1..p
    BY <1>1, <2>1, <2>4, <2>5
  <2>7. \A j \in (e + 1)..p : j \in (e + 1)..k
    BY <1>1, <2>6
  <2>8. EpochOf(rs, p) = e
    BY <1>1, <2>1, <2>6, <2>7, EpochIs
  <2>9. rs[p].boot = rs[e].boot
    BY <1>1, <2>8, EpochBoot
  <2> QED BY <2>3, <2>9
<1>4. ASSUME rs[p].kind = "boot" PROVE rs[k].kind = "sample"
  <2>1. PICK m \in Kept(rs, c) : /\ m > p /\ rs[m].kind = "sample"
                                 /\ \A j \in (p + 1)..(m - 1) : j \notin Kept(rs, c)
    BY <1>4, KeptSample
  <2>2. m \in 1..Len(rs) /\ m \in Nat
    BY DEF Kept
  <2>3. m \notin (p + 1)..(k - 1) /\ k \notin (p + 1)..(m - 1)
    BY <2>1
  <2>4. m = k
    BY <1>1, <2>1, <2>2, <2>3
  <2> QED BY <2>1, <2>4
<1> QED BY <1>2, <1>3, <1>4 DEF Link

(* A prefix of what compaction keeps: where its last line stands.            *)
Prefix(out, rs, c, n) ==
  /\ Chain(out)
  /\ out = <<>> => \A j \in 1..n : j \notin Kept(rs, c)
  /\ out # <<>> => \E p \in Kept(rs, c) :
       p <= n /\ Last(out) = rs[p] /\ \A j \in (p + 1)..n : j \notin Kept(rs, c)

(* The prefix grows by a line that is kept.                                 *)
LEMMA PrefixStep ==
  ASSUME NEW rs \in Seq(Lines), Chain(rs), Closed(rs), NEW c \in Nat,
         NEW n \in 1..Len(rs), n \in Kept(rs, c),
         NEW out \in Seq(Lines), Prefix(out, rs, c, n - 1)
  PROVE  Prefix(Append(out, rs[n]), rs, c, n)
<1> DEFINE l == rs[n]
<1>1. l \in Lines /\ l.form \in Decodes
  BY DEF Chain
<1>2. out = <<>> => l.kind = "boot"
  <2> SUFFICES ASSUME out = <<>>, l.kind # "boot" PROVE FALSE
    OBVIOUS
  <2> DEFINE e == EpochOf(rs, n)
  <2>1. e \in 1..n /\ rs[e].kind = "boot"
    BY EpochIs
  <2>2. e \in Kept(rs, c)
    BY KeptBoot
  <2> HIDE DEF e
  <2>3. e \in 1..(n - 1)
    <3>1. e # n
      BY <2>1
    <3> QED BY <2>1, <3>1
  <2> QED BY <2>2, <2>3 DEF Prefix
<1>3. out # <<>> => Link(Last(out), l)
  <2> SUFFICES ASSUME out # <<>> PROVE Link(Last(out), l)
    OBVIOUS
  <2>1. PICK p \in Kept(rs, c) :
          p <= n - 1 /\ Last(out) = rs[p] /\ \A j \in (p + 1)..(n - 1) : j \notin Kept(rs, c)
    BY DEF Prefix
  <2>2. p \in 1..Len(rs)
    BY DEF Kept
  <2>3. p < n
    BY <2>1, <2>2
  <2> QED BY <2>1, <2>3, KeptLink
<1>4. Chain(Append(out, l))
  BY <1>1, <1>2, <1>3, ChainAppend DEF Prefix
<1>5. /\ Append(out, l) # <<>> /\ Last(Append(out, l)) = l
  <2>1. /\ Append(out, l) # <<>> /\ Len(Append(out, l)) = Len(out) + 1
        /\ Append(out, l)[Len(out) + 1] = l
    BY <1>1, AppendProperties
  <2> QED BY <2>1 DEF Last
<1>6. n <= n /\ (n + 1)..n = {}
  OBVIOUS
<1> QED BY <1>4, <1>5, <1>6 DEF Prefix

(* Compaction keeps whole epochs.                                           *)
LEMMA RetainedIs ==
  ASSUME NEW S, S \subseteq Lines, NEW rs \in Seq(S), Chain(rs), Closed(rs), NEW c \in Nat
  PROVE  /\ Retained(rs, c) \in Seq(S) /\ Chain(Retained(rs, c)) /\ Closed(Retained(rs, c))
<1> DEFINE m == Len(rs)
           keep == Kept(rs, c)
<1>1. m \in Nat /\ rs \in Seq(Lines)
  BY SeqMonotonic
<1>2. PICK A \in [0..m -> Seq(S)] : Picked(A, rs, keep) /\ Only(rs, keep) = A[m]
  BY OnlyIs
<1>3. /\ A[0] = <<>>
      /\ \A n \in 1..m : A[n] = IF n \in keep THEN Append(A[n - 1], rs[n]) ELSE A[n - 1]
  BY <1>2 DEF Picked
<1> HIDE DEF m
<1> DEFINE Q == {n \in 0..m : Prefix(A[n], rs, c, n)}
<1>4. 0 \in Q
  <2>1. 1..0 = {}
    OBVIOUS
  <2> QED BY <1>1, <1>3, <2>1, ChainEmpty DEF Prefix
<1>5. ASSUME NEW n \in 1..m, n - 1 \in Q PROVE n \in Q
  <2>1. n \in 0..m /\ n - 1 \in 0..m /\ n \in 1..Len(rs) /\ n \in Nat
    BY <1>1 DEF m
  <2>2. A[n - 1] \in Seq(Lines) /\ Prefix(A[n - 1], rs, c, n - 1)
    BY <1>5, <2>1, SeqMonotonic
  <2>3. CASE n \in keep
    BY <1>1, <1>3, <2>1, <2>2, <2>3, PrefixStep
  <2>4. CASE n \notin keep
    <3>1. A[n] = A[n - 1]
      BY <1>3, <2>4
    <3>2. \A j \in 1..n : j = n \/ j \in 1..(n - 1)
      BY <2>1
    <3>3. A[n] = <<>> => \A j \in 1..n : j \notin keep
      BY <2>2, <2>4, <3>1, <3>2 DEF Prefix
    <3>4. ASSUME A[n] # <<>>
          PROVE  \E p \in keep : p <= n /\ Last(A[n]) = rs[p]
                                 /\ \A j \in (p + 1)..n : j \notin keep
      <4>1. PICK p \in keep : p <= n - 1 /\ Last(A[n]) = rs[p]
                              /\ \A j \in (p + 1)..(n - 1) : j \notin keep
        BY <2>2, <3>1, <3>4 DEF Prefix
      <4>2. p \in 1..Len(rs)
        BY DEF Kept
      <4>3. p <= n /\ \A j \in (p + 1)..n : j = n \/ j \in (p + 1)..(n - 1)
        BY <2>1, <4>1, <4>2
      <4> QED BY <2>4, <4>1, <4>3
    <3> QED BY <2>1, <2>2, <3>1, <3>3, <3>4 DEF Prefix
  <2> QED BY <2>3, <2>4
<1>6. Prefix(A[m], rs, c, m) /\ A[m] \in Seq(S)
  <2> HIDE DEF Q, keep
  <2>1. \A n \in 0..m : n \in Q
    BY <1>1, <1>4, <1>5, Induct
  <2>2. m \in Q /\ m \in 0..m
    BY <1>1, <2>1
  <2> QED BY <1>2, <2>2 DEF Q
<1>7. Closed(A[m])
  <2> SUFFICES ASSUME A[m] # <<>>, Last(A[m]).kind = "boot" PROVE FALSE
    BY DEF Closed
  <2>1. PICK p \in keep : p <= m /\ Last(A[m]) = rs[p] /\ \A j \in (p + 1)..m : j \notin keep
    BY <1>6 DEF Prefix
  <2>2. PICK k \in keep : k > p
    BY <1>1, <2>1, KeptSample
  <2>3. k \in 1..m /\ p \in 1..m
    BY DEF Kept, m
  <2>4. k \in (p + 1)..m
    BY <2>2, <2>3
  <2> QED BY <2>1, <2>4
<1> QED BY <1>2, <1>6, <1>7 DEF Retained, Prefix

-----------------------------------------------------------------------------
(* The index.                                                                *)
Points == [n : 1..MaxSamples, t : 0..MaxTime, d : 0..MaxCount]
Indexes == [points : Seq(Points), last : None..MaxCount, lastBoot : 0..MaxBoots,
            state : None..MaxCount]

(* Wider types, that replay keeps whatever it is given.                     *)
WidePoints == [n : Int, t : Int, d : Int]
Wide == [points : Seq(WidePoints), last : Int, lastBoot : Int, state : Int]

(* What a counter gained is no more than it shows.                           *)
LEMMA NormalizeIs ==
  ASSUME NEW p \in None..MaxCount, NEW v \in 0..MaxCount, NEW r \in BOOLEAN
  PROVE  Normalize(p, v, r) \in 0..MaxCount
BY Bounds DEF Normalize

(* Replay keeps the wide types.                                             *)
LEMMA EnrichedWide ==
  ASSUME NEW x \in Wide, NEW l \in Lines, NEW c \in Nat
  PROVE  Enriched(x, l, c) \in Wide
<1>1. l.t \in Int /\ l.boot \in Int /\ l.v \in Int /\ l.n \in Int
  BY LineFields, Bounds
<1>2. ASSUME NEW v \in Int
      PROVE  Indexed(x, l.t, l.boot, v, l.n, c) \in Wide
  <2> DEFINE d == Normalize(x.last, v, Reset(x.last, x.lastBoot, l.boot))
             p == [n |-> l.n, t |-> l.t, d |-> d]
             ps == IF l.t < c THEN x.points ELSE Append(x.points, p)
  <2>1. x.last \in Int /\ x.points \in Seq(WidePoints)
    BY DEF Wide
  <2>2. d \in Int
    BY <2>1 DEF Normalize
  <2> HIDE DEF d
  <2>3. p \in WidePoints
    BY <1>1, <2>2 DEF WidePoints
  <2> HIDE DEF p
  <2>4. ps \in Seq(WidePoints)
    BY <2>1, <2>3
  <2>5. Indexed(x, l.t, l.boot, v, l.n, c)
          = [x EXCEPT !.points = ps, !.last = v, !.lastBoot = l.boot]
    BY DEF Indexed, p, d
  <2> HIDE DEF ps
  <2> QED BY <1>1, <1>2, <2>4, <2>5 DEF Wide
<1>3. None \in Int /\ x.state \in Int
  BY Bounds DEF Wide
<1>4. CASE l.kind = "boot"
  BY <1>3, <1>4 DEF Enriched, Wide
<1>5. CASE l.kind = "sample"
  <2> DEFINE y == Indexed(x, l.t, l.boot, l.v, l.n, c)
  <2>1. y \in Wide
    BY <1>1, <1>2
  <2>2. Enriched(x, l, c) = [y EXCEPT !.state = l.v]
    BY <1>5 DEF Enriched
  <2> HIDE DEF y
  <2> QED BY <1>1, <2>1, <2>2 DEF Wide
<1>6. CASE ~(l.kind \in {"boot", "sample"})
  <2>1. Enriched(x, l, c) = Indexed(x, l.t, l.boot, x.state, l.n, c)
    BY <1>6 DEF Enriched
  <2> QED BY <1>2, <1>3, <2>1
<1> QED BY <1>4, <1>5, <1>6

(* A sample, or a checkpoint with the state of one, is indexed as a point.   *)
LEMMA IndexedIs ==
  ASSUME NEW x \in Indexes, NEW l \in Lines, l.kind # "boot", NEW c \in Nat,
         NEW v \in 0..MaxCount
  PROVE  /\ Indexed(x, l.t, l.boot, v, l.n, c) \in Indexes
         /\ Indexed(x, l.t, l.boot, v, l.n, c).state = x.state
<1> DEFINE d == Normalize(x.last, v, Reset(x.last, x.lastBoot, l.boot))
           p == [n |-> l.n, t |-> l.t, d |-> d]
           ps == IF l.t < c THEN x.points ELSE Append(x.points, p)
<1>1. /\ l.t \in 0..MaxTime /\ l.boot \in 0..MaxBoots /\ l.n \in 1..MaxSamples
      /\ v \in None..MaxCount
  BY LineFields, Bounds
<1>2. x.last \in None..MaxCount /\ x.points \in Seq(Points)
  BY DEF Indexes
<1>3. d \in 0..MaxCount
  <2>1. Reset(x.last, x.lastBoot, l.boot) \in BOOLEAN
    BY DEF Reset
  <2> QED BY <1>2, <2>1, NormalizeIs
<1> HIDE DEF d
<1>4. p \in Points
  BY <1>1, <1>3 DEF Points
<1> HIDE DEF p
<1>5. ps \in Seq(Points)
  BY <1>2, <1>4
<1>6. Indexed(x, l.t, l.boot, v, l.n, c)
        = [x EXCEPT !.points = ps, !.last = v, !.lastBoot = l.boot]
  BY DEF Indexed, p, d
<1> HIDE DEF ps
<1> QED BY <1>1, <1>5, <1>6 DEF Indexes

(* One step of replay: within an epoch, the state of a sample is known.       *)
LEMMA EnrichedIs ==
  ASSUME NEW x \in Indexes, NEW l \in Lines, NEW c \in Nat,
         l.kind = "check" => x.state >= 0
  PROVE  /\ Enriched(x, l, c) \in Indexes
         /\ l.kind # "boot" => Enriched(x, l, c).state >= 0
<1>1. l.kind \in {"boot", "sample", "check"} /\ l.v \in None..MaxCount
  BY LineFields
<1>2. None \in None..MaxCount /\ x.state \in None..MaxCount
  BY Bounds DEF Indexes
<1>3. CASE l.kind = "boot"
  BY <1>2, <1>3 DEF Enriched, Indexes
<1>4. CASE l.kind = "sample"
  <2> DEFINE y == Indexed(x, l.t, l.boot, l.v, l.n, c)
  <2>0. l.v \in 0..MaxCount
    BY <1>1, <1>4, LineFields, Bounds
  <2>1. y \in Indexes
    BY <1>4, <2>0, IndexedIs
  <2>2. Enriched(x, l, c) = [y EXCEPT !.state = l.v]
    BY <1>4 DEF Enriched
  <2> HIDE DEF y
  <2> QED BY <1>1, <2>0, <2>1, <2>2 DEF Indexes
<1>5. CASE l.kind = "check"
  <2>0. x.state \in 0..MaxCount
    BY <1>2, <1>5, Bounds
  <2>1. Enriched(x, l, c) = Indexed(x, l.t, l.boot, x.state, l.n, c)
    BY <1>5 DEF Enriched
  <2> QED BY <1>5, <2>0, <2>1, IndexedIs
<1> QED BY <1>1, <1>3, <1>4, <1>5

(* A is the index after each line of rs.                                     *)
Replays(A, rs, c) ==
  A[0] = NoIndex /\ \A n \in 1..Len(rs) : A[n] = Enriched(A[n - 1], rs[n], c)

(* Replay is such a recursion.                                               *)
LEMMA ReplayIs ==
  ASSUME NEW rs \in Seq(Lines), NEW c \in Nat
  PROVE  \E A : Replays(A, rs, c) /\ Replayed(rs, c) = A[Len(rs)]
<1> DEFINE m == Len(rs)
           D(F) == F = [n \in 0..m |-> IF n = 0 THEN NoIndex
                                       ELSE Enriched(F[n - 1], rs[n], c)]
           A == CHOOSE F : D(F)
           G == [n \in 1..m |-> [x \in Wide |-> Enriched(x, rs[n], c)]]
<1>1. m \in Nat /\ \A n \in 1..m : rs[n] \in Lines
  OBVIOUS
<1>2. Replayed(rs, c) = A[m]
  BY Zenon DEF Replayed
<1>3. NoIndex \in Wide
  <2>1. <<>> \in Seq(WidePoints) /\ None \in Int
    BY Bounds
  <2> QED BY <2>1 DEF NoIndex, Wide
<1>4. ASSUME NEW n \in 1..m, NEW x \in Wide PROVE Enriched(x, rs[n], c) \in Wide
  BY <1>1, EnrichedWide
<1> HIDE DEF m
<1>5. PICK F : Follows(F, Wide, m, NoIndex, G)
  <2>1. G \in [1..m -> [Wide -> Wide]]
    BY <1>4
  <2> HIDE DEF G
  <2> QED BY <1>1, <1>3, <2>1, Recursion
<1>6. F \in [0..m -> Wide] /\ F[0] = NoIndex /\ \A n \in 1..m : F[n] = G[n][F[n - 1]]
  BY <1>5 DEF Follows
<1>7. ASSUME NEW n \in 0..m
      PROVE  F[n] = IF n = 0 THEN NoIndex ELSE Enriched(F[n - 1], rs[n], c)
  <2>1. CASE n = 0
    BY <1>6, <2>1
  <2>2. CASE n # 0
    <3>1. n \in 1..m /\ n - 1 \in 0..m
      BY <1>1, <2>2
    <3>2. F[n - 1] \in Wide
      BY <1>6, <3>1
    <3>3. G[n][F[n - 1]] = Enriched(F[n - 1], rs[n], c)
      BY <3>1, <3>2
    <3> QED BY <1>6, <2>2, <3>1, <3>3
  <2> QED BY <2>1, <2>2
<1>8. D(F)
  BY <1>6, <1>7
<1>9. D(A)
  <2> HIDE DEF D
  <2> QED BY <1>8
<1> HIDE DEF A, G
<1>10. A[0] = NoIndex /\ \A n \in 1..m : A[n] = Enriched(A[n - 1], rs[n], c)
  BY <1>1, <1>9
<1>11. Replays(A, rs, c)
  BY <1>10 DEF Replays, m
<1> QED BY <1>2, <1>11 DEF m

(* Replaying whole epochs gives points.                                      *)
LEMMA ReplayedIs ==
  ASSUME NEW rs \in Seq(Lines), Chain(rs), NEW c \in Nat
  PROVE  Replayed(rs, c) \in Indexes
<1> DEFINE m == Len(rs)
<1>1. m \in Nat /\ \A n \in 1..m : rs[n] \in Lines
  OBVIOUS
<1>2. PICK A : Replays(A, rs, c) /\ Replayed(rs, c) = A[m]
  BY ReplayIs
<1>3. NoIndex \in Indexes
  <2>1. <<>> \in Seq(Points) /\ None \in None..MaxCount /\ 0 \in 0..MaxBoots
    BY Bounds
  <2> QED BY <2>1 DEF NoIndex, Indexes
<1>4. A[0] = NoIndex /\ \A n \in 1..m : A[n] = Enriched(A[n - 1], rs[n], c)
  BY <1>2 DEF Replays
<1> HIDE DEF m
<1> DEFINE Q == {n \in 0..m : /\ A[n] \in Indexes
                              /\ n # 0 /\ rs[n].kind # "boot" => A[n].state >= 0}
<1>5. 0 \in Q
  BY <1>1, <1>3, <1>4
<1>6. ASSUME NEW n \in 1..m, n - 1 \in Q PROVE n \in Q
  <2>1. A[n - 1] \in Indexes /\ rs[n] \in Lines /\ n \in 0..m /\ n \in Nat \ {0}
    BY <1>1, <1>6
  <2>2. rs[n].kind = "check" => A[n - 1].state >= 0
    <3> SUFFICES ASSUME rs[n].kind = "check" PROVE A[n - 1].state >= 0
      OBVIOUS
    <3>1. n # 1
      <4>1. rs # <<>>
        BY <1>1, <2>1 DEF m
      <4> QED BY <4>1 DEF Chain
    <3>2. n - 1 \in 1..(Len(rs) - 1) /\ (n - 1) + 1 = n /\ n - 1 # 0
      BY <1>1, <2>1, <3>1 DEF m
    <3>3. Link(rs[n - 1], rs[n])
      BY <3>2 DEF Chain
    <3>4. rs[n - 1].kind # "boot"
      BY <3>3 DEF Link
    <3> QED BY <1>6, <3>2, <3>4
  <2>3. /\ Enriched(A[n - 1], rs[n], c) \in Indexes
        /\ rs[n].kind # "boot" => Enriched(A[n - 1], rs[n], c).state >= 0
    BY <2>1, <2>2, EnrichedIs
  <2> QED BY <1>4, <2>1, <2>3
<1>7. m \in Q
  <2> HIDE DEF Q
  <2>1. \A n \in 0..m : n \in Q
    BY <1>1, <1>5, <1>6, Induct
  <2> QED BY <1>1, <2>1
<1> QED BY <1>2, <1>7

-----------------------------------------------------------------------------
(* Lines of samples up to the k-th; those that decode, or will once they are   *)
(* terminated, are no later than b.                                         *)
Below(k, b) ==
  {l \in Lines : l.n <= k /\ (l.form \notin {"torn", "junk"} => l.t <= b)}

(* With more samples or a later bound there are more of them.                *)
LEMMA BelowGrows ==
  ASSUME NEW k \in Nat, NEW k2 \in Nat, NEW b \in Int, NEW b2 \in Int, k <= k2, b <= b2
  PROVE  Below(k, b) \subseteq Below(k2, b2)
<1> SUFFICES ASSUME NEW l \in Below(k, b) PROVE l \in Below(k2, b2)
  OBVIOUS
<1>1. l \in Lines /\ l.n <= k /\ (l.form \notin {"torn", "junk"} => l.t <= b)
  BY DEF Below
<1>2. l.n \in Int /\ l.t \in Int
  BY <1>1, LineFields, Bounds
<1> QED BY <1>1, <1>2 DEF Below

(* Another form of a line.                                                   *)
LEMMA Reformed ==
  ASSUME NEW k \in Nat, NEW b \in Int, NEW l \in Below(k, b),
         NEW f \in {"late", "bare", "torn", "junk"},
         f \in {"torn", "junk"} \/ l.form \notin {"torn", "junk"}
  PROVE  [l EXCEPT !.form = f] \in Below(k, b)
<1> DEFINE z == [l EXCEPT !.form = f]
<1>1. l \in Lines /\ l.n <= k /\ (l.form \notin {"torn", "junk"} => l.t <= b)
  BY DEF Below
<1>2. /\ z \in Records /\ z.kind = l.kind /\ z.n = l.n /\ z.v = l.v /\ z.t = l.t
      /\ z.form = f
  BY <1>1 DEF Lines, Records
<1>3. Sound(z)
  BY <1>1, <1>2 DEF Lines, Sound
<1> HIDE DEF z
<1> QED BY <1>1, <1>2, <1>3 DEF Below, Lines, z

(* What a write, an interrupted one, and the separation of an unterminated     *)
(* line leave are such lines again.                                         *)
LEMMA WriteIs ==
  ASSUME NEW k \in Nat, NEW b \in Int, NEW f \in Seq(Below(k, b)), NEW l \in Below(k, b)
  PROVE  Write(f, l) \in Seq(Below(k, b))
<1> DEFINE S == Below(k, b)
<1>1. CASE Unterminated(f)
  <2>1. f # <<>>
    BY <1>1 DEF Unterminated
  <2>2. Front(f) \in Seq(S) /\ Last(f) \in S
    BY <2>1, LastFront
  <2>3. [Last(f) EXCEPT !.form = "junk"] \in S
    BY <2>2, Reformed
  <2> HIDE DEF S
  <2>4. Append(Front(f), [Last(f) EXCEPT !.form = "junk"]) \in Seq(S)
    BY <2>2, <2>3, AppendProperties
  <2> QED BY <1>1, <2>4 DEF Write, S
<1>2. CASE ~Unterminated(f)
  <2>1. Append(f, l) \in Seq(S)
    BY AppendProperties
  <2> QED BY <1>2, <2>1 DEF Write
<1> QED BY <1>1, <1>2

(* The same of separation.                                                  *)
LEMMA SeparatedIs ==
  ASSUME NEW k \in Nat, NEW b \in Int, NEW f \in Seq(Below(k, b))
  PROVE  Separated(f) \in Seq(Below(k, b))
<1> DEFINE S == Below(k, b)
           l == Last(f)
           g == IF l.form = "bare" THEN "late" ELSE "junk"
<1>1. CASE Unterminated(f)
  <2>1. f # <<>>
    BY <1>1 DEF Unterminated
  <2>2. Front(f) \in Seq(S) /\ l \in S
    BY <2>1, LastFront
  <2>3. [l EXCEPT !.form = g] \in S
    BY <2>2, Reformed
  <2>4. Separated(f) = Append(Front(f), [l EXCEPT !.form = g])
    BY <1>1 DEF Separated
  <2> HIDE DEF S, l, g
  <2>5. Append(Front(f), [l EXCEPT !.form = g]) \in Seq(S)
    BY <2>2, <2>3, AppendProperties
  <2> QED BY <2>4, <2>5 DEF S
<1>2. CASE ~Unterminated(f)
  BY <1>2 DEF Separated
<1> QED BY <1>1, <1>2

(* The same of a write that fails.                                          *)
LEMMA TailsAre ==
  ASSUME NEW k \in Nat, NEW b \in Int, NEW f \in Seq(Below(k, b)), NEW l \in Below(k, b),
         l.form = "ok", NEW z \in Tails(f, l)
  PROVE  z \in Seq(Below(k, b))
<1>1. [l EXCEPT !.form = "torn"] \in Below(k, b) /\ [l EXCEPT !.form = "bare"] \in Below(k, b)
  BY Reformed
<1>2. /\ Write(f, l) \in Seq(Below(k, b))
      /\ Write(f, [l EXCEPT !.form = "torn"]) \in Seq(Below(k, b))
      /\ Write(f, [l EXCEPT !.form = "bare"]) \in Seq(Below(k, b))
  BY <1>1, WriteIs
<1> QED BY <1>2 DEF Tails

-----------------------------------------------------------------------------
(* The invariant.                                                            *)
HistoryTypes ==
  /\ now \in 0..MaxTime /\ faults \in 0..MaxFaults
  /\ mode \in {"down", "canonical", "memory"} /\ boot \in 0..MaxBoots
  /\ last_state \in None..MaxCount
  /\ last_timestamp \in None..MaxTime /\ poisoned \in BOOLEAN
  /\ points \in Seq(Points) /\ gaps \in Seq(Gaps)
  /\ last_parsed \in None..MaxCount /\ last_sample_boot \in 0..MaxBoots
  /\ days \in Retentions /\ floor \in 0..MaxTime
  /\ job \in [n : 0..MaxSamples, t : 0..MaxTime, v : 0..MaxCount]
  /\ worker \in [pc : {"idle", "replaced"}, stale : BOOLEAN]
  /\ taken \in Seq([boot : 0..MaxBoots, t : 0..MaxTime, v : 0..MaxCount])
  /\ Len(taken) <= MaxSamples /\ owed \subseteq 1..Len(taken)

(* Only the canonical store has something to write, and a process to sign it. *)
Working ==
  /\ mode # "canonical" => job = NoJob /\ worker = Idle
  /\ mode # "down" => boot >= 1
  /\ job # NoJob => job.n \in 1..Len(taken)

(* Whatever the path may show consists of lines of the samples taken; while    *)
(* no write has failed, the store's last timestamp is the latest of them.     *)
DiskLines ==
  LET S == Below(Len(taken), MaxTime)
  IN  /\ file \in Seq(S) /\ safe \in Seq(S) /\ \A f \in old : f \in Seq(S)
      /\ mode = "canonical" /\ ~poisoned => file \in Seq(Below(Len(taken), last_timestamp))

HistoryInv == HistoryTypes /\ Working /\ DiskLines /\ NeverBehind

(* The invariant holds at the start.                                        *)
LEMMA HistoryInit == Init => HistoryInv
<1> SUFFICES ASSUME Init PROVE HistoryInv
  OBVIOUS
<1>1. <<>> \in Seq(Points) /\ <<>> \in Seq(Gaps) /\ \A S : <<>> \in Seq(S)
  OBVIOUS
<1>2. /\ None \in None..MaxCount /\ None \in None..MaxTime /\ Len(<<>>) = 0
      /\ 0 \in 0..MaxTime /\ 0 \in 0..MaxFaults /\ 0 \in 0..MaxBoots
      /\ 0 \in 0..MaxSamples /\ 0 \in 0..MaxCount /\ 0 <= MaxSamples
  BY Bounds
<1>3. NoJob \in [n : 0..MaxSamples, t : 0..MaxTime, v : 0..MaxCount]
  BY <1>2 DEF NoJob
<1>4. Idle \in [pc : {"idle", "replaced"}, stale : BOOLEAN]
  BY DEF Idle
<1>5. HistoryTypes
  BY <1>1, <1>2, <1>3, <1>4 DEF Init, HistoryTypes
<1>6. Working /\ NeverBehind
  BY DEF Init, Working, NeverBehind
<1>7. DiskLines
  BY <1>1 DEF Init, DiskLines
<1> QED BY <1>5, <1>6, <1>7 DEF HistoryInv

(* A cutoff is no later than the time it is computed from.                   *)
LEMMA CutoffIs ==
  ASSUME NEW d \in Retentions, NEW t \in 0..MaxTime
  PROVE  Cutoff(d, t) \in 0..MaxTime /\ Cutoff(d, t) \in Nat
<1>1. d \in Nat /\ t - d \in Int /\ t - d <= t /\ t \in Nat
  BY Bounds
<1>2. Max({t - d, 0}) = IF t - d >= 0 THEN t - d ELSE 0
  BY <1>1, MaxOfTwo
<1> QED BY <1>1, <1>2, Bounds DEF Cutoff

(* So the latest cutoff has its type.                                       *)
LEMMA FloorIs ==
  ASSUME NEW a \in 0..MaxTime, NEW b \in 0..MaxTime
  PROVE  Max({a, b}) \in 0..MaxTime
<1>1. Max({a, b}) = IF a >= b THEN a ELSE b
  BY MaxOfTwo
<1> QED BY <1>1

(* A new process: what Starting leaves.                                      *)
LEMMA StartingIs ==
  ASSUME HistoryInv, NEW m \in {"canonical", "memory"}, Starting(m)
  PROVE  /\ now' \in 0..MaxTime /\ mode' = m /\ boot' \in 1..MaxBoots
         /\ boot' = boot + 1 /\ last_state' \in None..MaxCount /\ poisoned' = FALSE
         /\ days' \in Retentions /\ floor' \in 0..MaxTime /\ job' = NoJob /\ worker' = Idle
         /\ taken' = taken /\ owed' = owed /\ now' = now
         /\ job' \in [n : 0..MaxSamples, t : 0..MaxTime, v : 0..MaxCount]
         /\ worker' \in [pc : {"idle", "replaced"}, stale : BOOLEAN]
<1>1. /\ now \in 0..MaxTime /\ boot \in 0..MaxBoots /\ days \in Retentions
      /\ floor \in 0..MaxTime
  BY DEF HistoryInv, HistoryTypes
<1>2. /\ mode' = m /\ boot' = boot + 1 /\ boot < MaxBoots /\ last_state' = None
      /\ poisoned' = FALSE /\ floor' = Max({floor, Cutoff(days, now)})
      /\ job' = NoJob /\ worker' = Idle /\ now' = now /\ days' = days
      /\ taken' = taken /\ owed' = owed
  BY DEF Starting, ghost
<1>3. boot' \in 1..MaxBoots /\ None \in None..MaxCount
  BY <1>1, <1>2, Bounds
<1>4. floor' \in 0..MaxTime
  BY <1>1, <1>2, CutoffIs, FloorIs
<1>5. NoJob \in [n : 0..MaxSamples, t : 0..MaxTime, v : 0..MaxCount]
  BY Bounds DEF NoJob
<1>6. Idle \in [pc : {"idle", "replaced"}, stale : BOOLEAN]
  BY DEF Idle
<1> QED BY <1>1, <1>2, <1>3, <1>4, <1>5, <1>6

(* The boot record.                                                         *)
LEMMA BootLineIs ==
  ASSUME HistoryInv, boot < MaxBoots
  PROVE  /\ BootLine \in Below(Len(taken), now) /\ BootLine.form = "ok"
         /\ BootLine \in Below(Len(taken), MaxTime)
<1>1. now \in 0..MaxTime /\ boot + 1 \in 1..MaxBoots /\ Len(taken) \in Nat
  BY Bounds DEF HistoryInv, HistoryTypes
<1>2. BootLine = [kind |-> "boot", t |-> now, boot |-> boot + 1, v |-> 0, n |-> 0,
                  form |-> "ok"]
  BY DEF BootLine, Line
<1>3. 0 \in None..MaxCount /\ 0 \in 0..MaxSamples
  BY Bounds
<1>4. BootLine \in Records
  BY <1>1, <1>2, <1>3 DEF Records
<1>5. BootLine \in Lines
  BY <1>2, <1>4 DEF Lines, Sound
<1> QED BY <1>1, <1>2, <1>5 DEF Below

-----------------------------------------------------------------------------
(* The invariant's parts, for the steps.                                    *)
LEMMA Facts ==
  ASSUME HistoryInv
  PROVE  /\ now \in 0..MaxTime /\ faults \in 0..MaxFaults
         /\ last_timestamp \in None..MaxTime /\ last_timestamp \in Int
         /\ Len(taken) \in Nat /\ MaxTime \in Nat /\ MaxTime \in Int
         /\ file \in Seq(Below(Len(taken), MaxTime))
         /\ safe \in Seq(Below(Len(taken), MaxTime))
         /\ \A f \in old : f \in Seq(Below(Len(taken), MaxTime))
<1>1. last_timestamp \in None..MaxTime /\ Len(taken) \in Nat
  BY DEF HistoryInv, HistoryTypes
<1>2. last_timestamp \in Int
  BY <1>1, Bounds
<1> QED BY <1>1, <1>2, Bounds DEF HistoryInv, HistoryTypes, DiskLines

(* The lines of a file are lines.                                           *)
LEMMA BelowLines ==
  ASSUME NEW k, NEW b, NEW f \in Seq(Below(k, b))
  PROVE  f \in Seq(Lines) /\ Below(k, b) \subseteq Lines
<1>1. Below(k, b) \subseteq Lines
  BY DEF Below
<1> QED BY <1>1, SeqMonotonic

(* A file whose scan has the bound b has no later line that was written whole. *)
LEMMA Bounded ==
  ASSUME NEW k \in Nat, NEW b \in Int, NEW f \in Seq(Below(k, b)), NEW c \in Int,
         Scan(f).bound <= c
  PROVE  f \in Seq(Below(k, c))
<1>1. f \in Seq(Lines) /\ Below(k, b) \subseteq Lines
  BY BelowLines
<1>2. /\ Scan(f).bound \in None..MaxTime
      /\ \A i \in 1..Len(f) : f[i].form \notin {"torn", "junk"} => f[i].t <= Scan(f).bound
  BY <1>1, ScanGood
<1>3. Scan(f).bound \in Int
  BY <1>2, Bounds
<1>4. ASSUME NEW i \in 1..Len(f) PROVE f[i] \in Below(k, c)
  <2>1. f[i] \in Below(k, b)
    OBVIOUS
  <2>2. f[i] \in Lines /\ f[i].n <= k
    BY <2>1 DEF Below
  <2>3. f[i].t \in Int
    BY <2>2, LineFields
  <2> QED BY <1>2, <1>3, <2>2, <2>3 DEF Below
<1>5. Len(f) \in Nat /\ f \in [1..Len(f) -> Below(k, b)] /\ DOMAIN f = 1..Len(f)
  BY LenProperties
<1>6. f \in [1..Len(f) -> Below(k, c)]
  BY <1>4, <1>5
<1> QED BY <1>5, <1>6, SeqDef

(* History::open appends its boot record behind everything in the file.       *)
LEMMA OpenKeeps == HistoryInv /\ Open => HistoryInv'
<1> SUFFICES ASSUME HistoryInv, Open PROVE HistoryInv'
  OBVIOUS
<1> DEFINE found == Scan(file)
           c == Cutoff(days, now)
           x == Replayed(found.records, c)
           k == Len(taken)
<1>1. /\ now >= found.bound /\ Starting("canonical")
      /\ file' = Write(Separated(file), BootLine) /\ safe' = file'
      /\ old' = (IF file = <<>> THEN {} ELSE old) /\ last_timestamp' = now
      /\ points' = x.points /\ gaps' = CloseGap(found.gaps, now)
      /\ last_parsed' = x.last /\ last_sample_boot' = x.lastBoot /\ faults' = faults
  BY DEF Open
<1>2. /\ now' \in 0..MaxTime /\ mode' = "canonical" /\ boot' \in 1..MaxBoots
      /\ last_state' \in None..MaxCount /\ poisoned' = FALSE
      /\ days' \in Retentions /\ floor' \in 0..MaxTime /\ job' = NoJob /\ worker' = Idle
      /\ taken' = taken /\ owed' = owed /\ now' = now
      /\ job' \in [n : 0..MaxSamples, t : 0..MaxTime, v : 0..MaxCount]
      /\ worker' \in [pc : {"idle", "replaced"}, stale : BOOLEAN]
  BY <1>1, StartingIs
<1>3. /\ now \in 0..MaxTime /\ faults \in 0..MaxFaults /\ k \in Nat /\ MaxTime \in Int
      /\ file \in Seq(Below(k, MaxTime)) /\ \A f \in old : f \in Seq(Below(k, MaxTime))
  BY Facts
<1>4. now \in None..MaxTime /\ now \in Int /\ now <= MaxTime
  BY <1>3, Bounds
<1>5. Below(k, MaxTime) \subseteq Lines /\ file \in Seq(Lines)
  BY <1>3, BelowLines
<1>6. /\ found.records \in Seq(Lines) /\ Chain(found.records) /\ found.gaps \in Seq(Gaps)
      /\ found.bound \in None..MaxTime
  BY <1>5, ScanGood
<1>7. x \in Indexes
  <2>1. c \in Nat
    BY <1>3, CutoffIs DEF HistoryInv, HistoryTypes
  <2> HIDE DEF found, c
  <2> QED BY <1>6, <2>1, ReplayedIs
<1>8. x.points \in Seq(Points) /\ x.last \in None..MaxCount /\ x.lastBoot \in 0..MaxBoots
  <2> HIDE DEF x
  <2> QED BY <1>7 DEF Indexes
<1>9. CloseGap(found.gaps, now) \in Seq(Gaps)
  BY <1>3, <1>6, CloseGapIs
<1>10. file' \in Seq(Below(k, now))
  <2>1. file \in Seq(Below(k, now))
    <3>1. found.bound <= now
      BY <1>1, <1>4, <1>6, Bounds
    <3> QED BY <1>3, <1>4, <3>1, Bounded
  <2>2. Separated(file) \in Seq(Below(k, now))
    BY <1>3, <1>4, <2>1, SeparatedIs
  <2>3. BootLine \in Below(k, now)
    BY <1>1, BootLineIs DEF Starting
  <2> QED BY <1>1, <1>3, <1>4, <2>2, <2>3, WriteIs
<1>11. file' \in Seq(Below(k, MaxTime))
  <2>1. Below(k, now) \subseteq Below(k, MaxTime)
    BY <1>3, <1>4, BelowGrows
  <2> QED BY <1>10, <2>1, SeqMonotonic
<1> HIDE DEF found, c, x
<1>12. HistoryTypes'
  <2>1. boot' \in 0..MaxBoots
    BY <1>2, Bounds
  <2>2. taken' \in Seq([boot : 0..MaxBoots, t : 0..MaxTime, v : 0..MaxCount])
        /\ Len(taken') <= MaxSamples /\ owed' \subseteq 1..Len(taken')
    BY <1>2 DEF HistoryInv, HistoryTypes
  <2> QED BY <1>1, <1>2, <1>3, <1>4, <1>8, <1>9, <2>1, <2>2 DEF HistoryTypes
<1>13. Working' /\ NeverBehind'
  <2>1. boot' >= 1
    BY <1>2
  <2> QED BY <1>2, <2>1 DEF Working, NeverBehind
<1>14. DiskLines'
  <2>1. \A f \in old' : f \in Seq(Below(k, MaxTime))
    BY <1>1, <1>3
  <2>2. Len(taken') = k
    BY <1>2
  <2> QED BY <1>1, <1>2, <1>10, <1>11, <2>1, <2>2 DEF DiskLines
<1> QED BY <1>12, <1>13, <1>14 DEF HistoryInv

(* A process without the store starts, whatever the failed open left.         *)
LEMMA MemoryKeeps ==
  ASSUME HistoryInv, InMemory, faults' \in 0..MaxFaults,
         file' \in Seq(Below(Len(taken), MaxTime)), safe' \in Seq(Below(Len(taken), MaxTime)),
         \A f \in old' : f \in Seq(Below(Len(taken), MaxTime))
  PROVE  HistoryInv'
<1>1. /\ Starting("memory") /\ last_timestamp' = None /\ points' = <<>> /\ gaps' = <<>>
      /\ last_parsed' = None /\ last_sample_boot' = 0
  BY DEF InMemory
<1>2. /\ now' \in 0..MaxTime /\ mode' = "memory" /\ boot' \in 1..MaxBoots
      /\ last_state' \in None..MaxCount /\ poisoned' = FALSE
      /\ days' \in Retentions /\ floor' \in 0..MaxTime /\ job' = NoJob /\ worker' = Idle
      /\ taken' = taken /\ owed' = owed
      /\ job' \in [n : 0..MaxSamples, t : 0..MaxTime, v : 0..MaxCount]
      /\ worker' \in [pc : {"idle", "replaced"}, stale : BOOLEAN]
  BY <1>1, StartingIs
<1>3. HistoryTypes'
  <2>1. <<>> \in Seq(Points) /\ <<>> \in Seq(Gaps)
    OBVIOUS
  <2>2. None \in None..MaxCount /\ None \in None..MaxTime /\ 0 \in 0..MaxBoots
    BY Bounds
  <2>3. boot' \in 0..MaxBoots
    BY <1>2, Bounds
  <2>4. taken' \in Seq([boot : 0..MaxBoots, t : 0..MaxTime, v : 0..MaxCount])
        /\ Len(taken') <= MaxSamples /\ owed' \subseteq 1..Len(taken')
    BY <1>2 DEF HistoryInv, HistoryTypes
  <2> QED BY <1>1, <1>2, <2>1, <2>2, <2>3, <2>4 DEF HistoryTypes
<1>4. Working' /\ NeverBehind'
  <2>1. boot' >= 1
    BY <1>2
  <2> QED BY <1>2, <2>1 DEF Working, NeverBehind
<1>5. DiskLines'
  <2>1. Len(taken') = Len(taken)
    BY <1>2
  <2> QED BY <1>2, <2>1 DEF DiskLines
<1> QED BY <1>3, <1>4, <1>5 DEF HistoryInv

(* An open that refuses leaves the file as it is.                            *)
LEMMA RefusedKeeps == HistoryInv /\ OpenRefused => HistoryInv'
<1> SUFFICES ASSUME HistoryInv, OpenRefused PROVE HistoryInv'
  OBVIOUS
<1>1. InMemory /\ faults' = faults /\ file' = file /\ safe' = safe /\ old' = old
  BY DEF OpenRefused, disk
<1> QED BY <1>1, Facts, MemoryKeeps

(* An open that fails leaves a part of the boot record.                      *)
LEMMA OpenFailsKeeps == HistoryInv /\ OpenFails => HistoryInv'
<1> SUFFICES ASSUME HistoryInv, OpenFails PROVE HistoryInv'
  OBVIOUS
<1> DEFINE k == Len(taken)
<1>1. InMemory /\ faults < MaxFaults /\ faults' = faults + 1 /\ boot < MaxBoots
  BY DEF OpenFails, Fault, InMemory, Starting
<1>2. /\ faults \in 0..MaxFaults /\ k \in Nat /\ MaxTime \in Int
      /\ file \in Seq(Below(k, MaxTime)) /\ safe \in Seq(Below(k, MaxTime))
      /\ \A f \in old : f \in Seq(Below(k, MaxTime))
  BY Facts
<1>3. faults' \in 0..MaxFaults
  BY <1>1, <1>2, Bounds
<1>4. BootLine \in Below(k, MaxTime) /\ BootLine.form = "ok"
  BY <1>1, BootLineIs
<1>5. <<>> \in Seq(Below(k, MaxTime)) /\ <<BootLine>> \in Seq(Below(k, MaxTime))
  BY <1>4
<1>6. CASE file = <<>>
  <2>1. file' \in {<<>>, <<BootLine>>} /\ safe' = file' /\ old' = {<<>>}
    BY <1>6 DEF OpenFails
  <2>2. file' \in Seq(Below(k, MaxTime)) /\ safe' \in Seq(Below(k, MaxTime))
    BY <1>5, <2>1
  <2>3. \A f \in old' : f \in Seq(Below(k, MaxTime))
    BY <1>5, <2>1
  <2> QED BY <1>1, <1>3, <2>2, <2>3, MemoryKeeps
<1>7. CASE file # <<>>
  <2>1. file' \in {file} \cup Tails(Separated(file), BootLine) /\ safe' = safe /\ old' = old
    BY <1>7 DEF OpenFails
  <2>2. Separated(file) \in Seq(Below(k, MaxTime))
    BY <1>2, SeparatedIs
  <2>3. file' \in Seq(Below(k, MaxTime))
    <3>1. CASE file' = file
      BY <1>2, <3>1
    <3>2. CASE file' \in Tails(Separated(file), BootLine)
      BY <1>2, <1>4, <2>2, <3>2, TailsAre
    <3> QED BY <2>1, <3>1, <3>2
  <2> QED BY <1>1, <1>2, <1>3, <2>1, <2>3, MemoryKeeps
<1> QED BY <1>6, <1>7

(* A crash shows one of the contents the path may have.                      *)
LEMMA CrashKeeps == HistoryInv /\ Crash => HistoryInv'
<1> SUFFICES ASSUME HistoryInv, Crash PROVE HistoryInv'
  OBVIOUS
<1> DEFINE k == Len(taken)
<1>1. /\ faults < MaxFaults /\ faults' = faults + 1 /\ file' \in {file, safe} \cup old
      /\ safe' = file' /\ old' = {} /\ mode' = "down" /\ last_state' = None
      /\ last_timestamp' = None /\ poisoned' = FALSE /\ points' = <<>> /\ gaps' = <<>>
      /\ last_parsed' = None /\ last_sample_boot' = 0 /\ job' = NoJob /\ worker' = Idle
      /\ now' = now /\ boot' = boot /\ days' = days /\ floor' = floor
      /\ taken' = taken /\ owed' = owed
  BY DEF Crash, Fault, ghost
<1>2. /\ faults \in 0..MaxFaults /\ k \in Nat
      /\ file \in Seq(Below(k, MaxTime)) /\ safe \in Seq(Below(k, MaxTime))
      /\ \A f \in old : f \in Seq(Below(k, MaxTime))
  BY Facts
<1>3. faults' \in 0..MaxFaults
  BY <1>1, <1>2, Bounds
<1>4. HistoryTypes'
  <2>1. <<>> \in Seq(Points) /\ <<>> \in Seq(Gaps)
    OBVIOUS
  <2>2. None \in None..MaxCount /\ None \in None..MaxTime /\ 0 \in 0..MaxBoots
    BY Bounds
  <2>3. NoJob \in [n : 0..MaxSamples, t : 0..MaxTime, v : 0..MaxCount]
    BY Bounds DEF NoJob
  <2>4. Idle \in [pc : {"idle", "replaced"}, stale : BOOLEAN]
    BY DEF Idle
  <2> QED BY <1>1, <1>3, <2>1, <2>2, <2>3, <2>4 DEF HistoryInv, HistoryTypes
<1>5. Working' /\ NeverBehind'
  BY <1>1 DEF Working, NeverBehind
<1>6. DiskLines'
  <2>1. file' \in Seq(Below(k, MaxTime))
    BY <1>1, <1>2
  <2>2. Len(taken') = k
    BY <1>1
  <2> QED BY <1>1, <2>1, <2>2 DEF DiskLines
<1> QED BY <1>4, <1>5, <1>6 DEF HistoryInv

-----------------------------------------------------------------------------
(* The largest of some times is one of them.                                *)
LEMMA MaxTimeOf ==
  ASSUME NEW P, P \subseteq None..MaxTime, P # {}
  PROVE  Max(P) \in P /\ \A x \in P : x <= Max(P)
<1> DEFINE O == {x + 2 : x \in P}
           m == MaxTime + 2
<1>1. m \in Nat /\ \A x \in P : x \in Int /\ x + 2 \in 1..m
  BY Bounds
<1>2. O \subseteq 1..m /\ O # {}
  BY <1>1
<1>3. Max(O) \in O /\ \A i \in O : i <= Max(O)
  <2> HIDE DEF O, m
  <2> QED BY <1>1, <1>2, MaxPlace
<1>4. PICK y \in P : Max(O) = y + 2
  BY <1>3
<1>5. ASSUME NEW x \in P PROVE y >= x
  <2>1. x + 2 \in O /\ x \in Int /\ y \in Int
    BY <1>1
  <2>2. x + 2 <= y + 2
    BY <1>3, <1>4, <2>1
  <2> QED BY <2>1, <2>2
<1>6. Max(P) \in P /\ \A x \in P : Max(P) >= x
  BY <1>5 DEF Max
<1> QED BY <1>1, <1>6

(* A sample is stamped no earlier than the file's last line.                 *)
LEMMA StampIs ==
  ASSUME HistoryInv
  PROVE  Stamp(now) \in 0..MaxTime /\ (mode = "canonical" => Stamp(now) >= last_timestamp)
<1> DEFINE A == IF points = <<>> THEN {} ELSE {Last(points).t}
           B == IF mode = "canonical" THEN {last_timestamp} ELSE {}
           P == {now} \cup A \cup B
<1>1. now \in 0..MaxTime /\ last_timestamp \in None..MaxTime /\ points \in Seq(Points)
  BY DEF HistoryInv, HistoryTypes
<1>2. now \in None..MaxTime
  BY <1>1, Bounds
<1>3. A \subseteq None..MaxTime
  <2>1. CASE points = <<>>
    BY <2>1
  <2>2. CASE points # <<>>
    <3>1. Last(points) \in Points
      BY <1>1, <2>2, LastFront
    <3>2. Last(points).t \in None..MaxTime
      BY <3>1, Bounds DEF Points
    <3> QED BY <2>2, <3>2
  <2> QED BY <2>1, <2>2
<1>4. P \subseteq None..MaxTime /\ P # {} /\ now \in P
  BY <1>1, <1>2, <1>3
<1>5. Stamp(now) = Max(P)
  BY DEF Stamp
<1> HIDE DEF A
<1>6. mode = "canonical" => last_timestamp \in P
  OBVIOUS
<1> HIDE DEF P
<1>7. Max(P) \in P /\ \A x \in P : x <= Max(P)
  BY <1>4, MaxTimeOf
<1>8. Max(P) \in 0..MaxTime
  <2>1. Max(P) \in None..MaxTime /\ now <= Max(P)
    BY <1>4, <1>7
  <2> QED BY <1>1, <2>1, Bounds
<1>9. mode = "canonical" => Max(P) >= last_timestamp
  BY <1>1, <1>6, <1>7, <1>8, Bounds
<1> QED BY <1>5, <1>8, <1>9

(* The compaction worker has nothing to be stale while it does not run.      *)
LEMMA StillIdle == [Idle EXCEPT !.stale = FALSE] = Idle
<1> DEFINE w == [Idle EXCEPT !.stale = FALSE]
<1>1. DOMAIN Idle = {"pc", "stale"} /\ Idle.pc = "idle" /\ Idle.stale = FALSE
  BY DEF Idle
<1>2. w = [x \in {"pc", "stale"} |-> IF x = "stale" THEN FALSE ELSE Idle[x]]
  BY <1>1
<1>3. Idle = [x \in {"pc", "stale"} |-> Idle[x]]
  BY <1>1 DEF Idle
<1> QED BY <1>1, <1>2, <1>3

(* A sample is taken.                                                       *)
LEMMA IndexedKeeps ==
  ASSUME HistoryInv, NEW v \in 0..MaxCount, AppendIndexed(v)
  PROVE  HistoryInv'
<1> DEFINE t == Stamp(now)
           n == Len(taken) + 1
           c == Cutoff(days, t)
           d == Normalize(last_parsed, v, Reset(last_parsed, last_sample_boot, boot))
           p == [n |-> n, t |-> t, d |-> d]
           s == [boot |-> boot, t |-> t, v |-> v]
<1>1. /\ mode # "down" /\ job = NoJob /\ n <= MaxSamples
      /\ points' = Append(PrunedBy(c), p) /\ last_parsed' = v /\ last_sample_boot' = boot
      /\ floor' = Max({floor, c})
      /\ job' = (IF mode = "canonical" THEN [n |-> n, t |-> t, v |-> v] ELSE NoJob)
      /\ worker' = [worker EXCEPT !.stale = worker.pc # "idle"]
      /\ taken' = Append(taken, s)
  BY DEF AppendIndexed
<1>2. /\ now' = now /\ faults' = faults /\ file' = file /\ safe' = safe /\ old' = old
      /\ mode' = mode /\ boot' = boot /\ last_state' = last_state
      /\ last_timestamp' = last_timestamp /\ poisoned' = poisoned /\ gaps' = gaps
      /\ days' = days /\ owed' = owed
  BY DEF AppendIndexed, disk, store
<1>3. t \in 0..MaxTime /\ (mode = "canonical" => t >= last_timestamp)
  BY StampIs
<1>4. c \in 0..MaxTime
  BY <1>3, CutoffIs DEF HistoryInv, HistoryTypes
<1>5. d \in 0..MaxCount
  <2>1. Reset(last_parsed, last_sample_boot, boot) \in BOOLEAN
    BY DEF Reset
  <2> QED BY <2>1, NormalizeIs DEF HistoryInv, HistoryTypes
<1>6. /\ Len(taken) \in Nat /\ n \in 1..MaxSamples /\ n \in 0..MaxSamples /\ n \in Nat
      /\ v \in None..MaxCount
  <2>1. Len(taken) \in Nat
    BY Facts
  <2> QED BY <1>1, <2>1, Bounds
<1> HIDE DEF t, c, d
<1>7. p \in Points
  BY <1>3, <1>5, <1>6 DEF Points
<1> HIDE DEF p
<1>8. points' \in Seq(Points)
  <2>1. points \in Seq(Points)
    BY DEF HistoryInv, HistoryTypes
  <2>2. PrunedBy(c) \in Seq(Points)
    BY <2>1, OnlyType DEF PrunedBy
  <2> QED BY <1>1, <1>7, <2>2, AppendProperties
<1> DEFINE Samples == [boot : 0..MaxBoots, t : 0..MaxTime, v : 0..MaxCount]
<1>9. /\ taken' \in Seq(Samples) /\ Len(taken') = n
  <2>1. s \in Samples /\ taken \in Seq(Samples)
    BY <1>3 DEF HistoryInv, HistoryTypes
  <2> HIDE DEF s, Samples, n
  <2>2. Append(taken, s) \in Seq(Samples) /\ Len(Append(taken, s)) = Len(taken) + 1
    BY <2>1, AppendProperties
  <2> QED BY <1>1, <2>2 DEF n
<1> HIDE DEF s
<1>10. owed' \subseteq 1..n
  <2>1. owed \subseteq 1..Len(taken)
    BY DEF HistoryInv, HistoryTypes
  <2>2. \A i \in 1..Len(taken) : i \in 1..n
    BY <1>6
  <2> QED BY <1>2, <2>1, <2>2
<1>11. [n |-> n, t |-> t, v |-> v] \in [n : 0..MaxSamples, t : 0..MaxTime, v : 0..MaxCount]
  BY <1>3, <1>6
<1>12. worker' \in [pc : {"idle", "replaced"}, stale : BOOLEAN]
  <2>1. worker \in [pc : {"idle", "replaced"}, stale : BOOLEAN]
    BY DEF HistoryInv, HistoryTypes
  <2>2. (worker.pc # "idle") \in BOOLEAN
    OBVIOUS
  <2> QED BY <1>1, <2>1, <2>2
<1>13. floor' \in 0..MaxTime
  <2>1. floor \in 0..MaxTime
    BY DEF HistoryInv, HistoryTypes
  <2> QED BY <1>1, <1>4, <2>1, FloorIs
<1>14. job' \in [n : 0..MaxSamples, t : 0..MaxTime, v : 0..MaxCount]
  <2>1. NoJob \in [n : 0..MaxSamples, t : 0..MaxTime, v : 0..MaxCount]
    BY Bounds DEF NoJob
  <2> QED BY <1>1, <1>11, <2>1
<1>15. HistoryTypes'
  BY <1>1, <1>2, <1>6, <1>8, <1>9, <1>10, <1>12, <1>13, <1>14 DEF HistoryInv, HistoryTypes
<1>16. Working'
  <2>1. mode' # "canonical" => job' = NoJob /\ worker' = Idle
    <3> SUFFICES ASSUME mode # "canonical" PROVE job' = NoJob /\ worker' = Idle
      BY <1>2
    <3>1. worker = Idle /\ job' = NoJob
      BY <1>1 DEF HistoryInv, Working
    <3>2. (Idle.pc # "idle") = FALSE
      BY DEF Idle
    <3> QED BY <1>1, <3>1, <3>2, StillIdle
  <2>2. job' # NoJob => job'.n \in 1..Len(taken')
    BY <1>1, <1>6, <1>9
  <2> QED BY <1>2, <2>1, <2>2 DEF HistoryInv, Working
<1>17. NeverBehind'
  <2>1. job' # NoJob => mode = "canonical" /\ job'.t = t
    BY <1>1
  <2> QED BY <1>2, <1>3, <2>1 DEF NeverBehind
<1>18. DiskLines'
  <2> DEFINE k == Len(taken)
  <2>1. /\ k \in Nat /\ MaxTime \in Int /\ last_timestamp \in Int /\ k <= n
        /\ MaxTime <= MaxTime /\ last_timestamp <= last_timestamp
    <3>1. k \in Nat /\ MaxTime \in Int /\ last_timestamp \in Int
      BY Facts
    <3> QED BY <3>1
  <2> HIDE DEF n, k
  <2>2. /\ Below(k, MaxTime) \subseteq Below(n, MaxTime)
        /\ Below(k, last_timestamp) \subseteq Below(n, last_timestamp)
    BY <1>6, <2>1, BelowGrows
  <2>3. /\ file \in Seq(Below(k, MaxTime)) /\ safe \in Seq(Below(k, MaxTime))
        /\ \A f \in old : f \in Seq(Below(k, MaxTime))
        /\ mode = "canonical" /\ ~poisoned => file \in Seq(Below(k, last_timestamp))
    BY DEF HistoryInv, DiskLines, k
  <2>4. /\ file \in Seq(Below(n, MaxTime)) /\ safe \in Seq(Below(n, MaxTime))
        /\ \A f \in old : f \in Seq(Below(n, MaxTime))
        /\ mode = "canonical" /\ ~poisoned => file \in Seq(Below(n, last_timestamp))
    BY <2>2, <2>3, SeqMonotonic
  <2> QED BY <1>2, <1>9, <2>4 DEF DiskLines
<1> QED BY <1>15, <1>16, <1>17, <1>18 DEF HistoryInv

(* The line of a sample that is to be written.                               *)
LEMMA NextLineIs ==
  ASSUME HistoryInv, job # NoJob
  PROVE  /\ NextLine \in Below(Len(taken), job.t) /\ NextLine \in Below(Len(taken), MaxTime)
         /\ NextLine.form = "ok" /\ mode = "canonical" /\ job.t \in 0..MaxTime
<1>1. mode = "canonical" /\ boot \in 1..MaxBoots /\ job.n \in 1..Len(taken)
  <2>1. mode = "canonical" /\ boot >= 1 /\ job.n \in 1..Len(taken)
    BY DEF HistoryInv, Working
  <2>2. boot \in 0..MaxBoots
    BY DEF HistoryInv, HistoryTypes
  <2> QED BY <2>1, <2>2
<1>2. /\ job.t \in 0..MaxTime /\ job.n \in 0..MaxSamples /\ job.v \in 0..MaxCount
      /\ Len(taken) \in Nat
  <2>1. job \in [n : 0..MaxSamples, t : 0..MaxTime, v : 0..MaxCount]
    BY DEF HistoryInv, HistoryTypes
  <2> QED BY <2>1, Facts
<1>3. ASSUME NEW w \in None..MaxCount, NEW d \in {"sample", "check"}, d = "sample" => w >= 0,
             NextLine = Line(d, job.t, w, job.n)
      PROVE  NextLine \in Lines /\ NextLine.n = job.n /\ NextLine.t = job.t
             /\ NextLine.form = "ok"
  <2>1. NextLine = [kind |-> d, t |-> job.t, boot |-> boot, v |-> w, n |-> job.n,
                    form |-> "ok"]
    BY <1>3 DEF Line
  <2>2. NextLine \in Records
    BY <1>1, <1>2, <2>1 DEF Records
  <2>3. Sound(NextLine)
    BY <1>1, <1>3, <2>1 DEF Sound
  <2> QED BY <2>1, <2>2, <2>3 DEF Lines
<1>4. NextLine \in Lines /\ NextLine.n = job.n /\ NextLine.t = job.t /\ NextLine.form = "ok"
  <2>1. CASE last_state = job.v
    <3>1. None \in None..MaxCount /\ NextLine = Line("check", job.t, None, job.n)
      BY <2>1, Bounds DEF NextLine
    <3> QED BY <1>3, <3>1
  <2>2. CASE last_state # job.v
    <3>1. job.v \in None..MaxCount /\ job.v >= 0
          /\ NextLine = Line("sample", job.t, job.v, job.n)
      BY <1>2, <2>2, Bounds DEF NextLine
    <3> QED BY <1>3, <3>1
  <2> QED BY <2>1, <2>2
<1>5. job.n <= Len(taken) /\ job.t <= job.t /\ job.t <= MaxTime
  BY <1>1, <1>2, Bounds
<1> QED BY <1>1, <1>2, <1>4, <1>5 DEF Below

(* A sample is written.                                                     *)
LEMMA WrittenKeeps == HistoryInv /\ AppendWritten => HistoryInv'
<1> SUFFICES ASSUME HistoryInv, AppendWritten PROVE HistoryInv'
  OBVIOUS
<1> DEFINE k == Len(taken)
<1>1. /\ job # NoJob /\ ~poisoned /\ job.t >= last_timestamp
      /\ file' = Write(file, NextLine) /\ safe' = file' /\ last_state' = job.v
      /\ last_timestamp' = job.t /\ owed' = (IF old = {} THEN owed \cup {job.n} ELSE owed)
      /\ job' = NoJob
  BY DEF AppendWritten
<1>2. /\ now' = now /\ faults' = faults /\ old' = old /\ mode' = mode /\ boot' = boot
      /\ poisoned' = poisoned /\ points' = points /\ gaps' = gaps
      /\ last_parsed' = last_parsed /\ last_sample_boot' = last_sample_boot
      /\ days' = days /\ floor' = floor /\ worker' = worker /\ taken' = taken
  BY DEF AppendWritten, index
<1>3. /\ NextLine \in Below(k, job.t) /\ mode = "canonical" /\ job.t \in 0..MaxTime
  BY <1>1, NextLineIs
<1>4. k \in Nat /\ last_timestamp \in Int /\ MaxTime \in Int
      /\ \A f \in old : f \in Seq(Below(k, MaxTime))
  BY Facts
<1>5. job.t \in Int /\ job.t \in None..MaxTime /\ job.t <= MaxTime /\ last_timestamp <= job.t
  BY <1>1, <1>3, <1>4, Bounds
<1>6. file' \in Seq(Below(k, job.t))
  <2>1. file \in Seq(Below(k, last_timestamp))
    BY <1>1, <1>3 DEF HistoryInv, DiskLines
  <2>2. Below(k, last_timestamp) \subseteq Below(k, job.t)
    BY <1>4, <1>5, BelowGrows
  <2>3. file \in Seq(Below(k, job.t))
    BY <2>1, <2>2, SeqMonotonic
  <2> QED BY <1>1, <1>3, <1>4, <1>5, <2>3, WriteIs
<1>7. file' \in Seq(Below(k, MaxTime))
  <2>1. Below(k, job.t) \subseteq Below(k, MaxTime)
    BY <1>4, <1>5, BelowGrows
  <2> QED BY <1>6, <2>1, SeqMonotonic
<1>8. HistoryTypes'
  <2>1. job \in [n : 0..MaxSamples, t : 0..MaxTime, v : 0..MaxCount]
    BY DEF HistoryInv, HistoryTypes
  <2>2. job.v \in None..MaxCount
    BY <2>1, Bounds
  <2>3. NoJob \in [n : 0..MaxSamples, t : 0..MaxTime, v : 0..MaxCount]
    BY Bounds DEF NoJob
  <2>4. job.n \in 1..Len(taken)
    BY <1>1 DEF HistoryInv, Working
  <2>5. owed' \subseteq 1..Len(taken)
    BY <1>1, <2>4 DEF HistoryInv, HistoryTypes
  <2> QED BY <1>1, <1>2, <1>5, <2>2, <2>3, <2>5 DEF HistoryInv, HistoryTypes
<1>9. Working' /\ NeverBehind'
  BY <1>1, <1>2 DEF HistoryInv, Working, NeverBehind
<1>10. DiskLines'
  <2>1. Len(taken') = k
    BY <1>2
  <2> QED BY <1>1, <1>2, <1>4, <1>6, <1>7, <2>1 DEF DiskLines
<1> QED BY <1>8, <1>9, <1>10 DEF HistoryInv

(* A write fails.                                                           *)
LEMMA FailsKeeps == HistoryInv /\ AppendFails => HistoryInv'
<1> SUFFICES ASSUME HistoryInv, AppendFails PROVE HistoryInv'
  OBVIOUS
<1> DEFINE k == Len(taken)
<1>1. /\ job # NoJob /\ faults < MaxFaults /\ faults' = faults + 1
      /\ file' \in Tails(file, NextLine) /\ poisoned' = TRUE /\ job' = NoJob
  BY DEF AppendFails, Fault
<1>2. /\ now' = now /\ safe' = safe /\ old' = old /\ mode' = mode /\ boot' = boot
      /\ last_state' = last_state /\ last_timestamp' = last_timestamp
      /\ points' = points /\ gaps' = gaps
      /\ last_parsed' = last_parsed /\ last_sample_boot' = last_sample_boot
      /\ days' = days /\ floor' = floor /\ worker' = worker /\ taken' = taken
      /\ owed' = owed
  BY DEF AppendFails, index, ghost
<1>3. NextLine \in Below(k, MaxTime) /\ NextLine.form = "ok"
  BY <1>1, NextLineIs
<1>4. /\ k \in Nat /\ MaxTime \in Int /\ faults \in 0..MaxFaults
      /\ file \in Seq(Below(k, MaxTime)) /\ safe \in Seq(Below(k, MaxTime))
      /\ \A f \in old : f \in Seq(Below(k, MaxTime))
  BY Facts
<1>5. file' \in Seq(Below(k, MaxTime))
  BY <1>1, <1>3, <1>4, TailsAre
<1>6. HistoryTypes'
  <2>1. NoJob \in [n : 0..MaxSamples, t : 0..MaxTime, v : 0..MaxCount]
    BY Bounds DEF NoJob
  <2>2. faults' \in 0..MaxFaults /\ poisoned' \in BOOLEAN
    BY <1>1, <1>4, Bounds
  <2> QED BY <1>1, <1>2, <2>1, <2>2 DEF HistoryInv, HistoryTypes
<1>7. Working' /\ NeverBehind'
  BY <1>1, <1>2 DEF HistoryInv, Working, NeverBehind
<1>8. DiskLines'
  <2>1. Len(taken') = k
    BY <1>2
  <2> QED BY <1>1, <1>2, <1>4, <1>5, <2>1 DEF DiskLines
<1> QED BY <1>6, <1>7, <1>8 DEF HistoryInv

(* A sample that is rejected changes nothing on disk.                        *)
LEMMA RejectedKeeps == HistoryInv /\ AppendRejected => HistoryInv'
<1> SUFFICES ASSUME HistoryInv, AppendRejected PROVE HistoryInv'
  OBVIOUS
<1>1. /\ job' = NoJob /\ now' = now /\ faults' = faults /\ file' = file /\ safe' = safe
      /\ old' = old /\ mode' = mode /\ boot' = boot /\ last_state' = last_state
      /\ last_timestamp' = last_timestamp /\ poisoned' = poisoned /\ points' = points
      /\ gaps' = gaps /\ last_parsed' = last_parsed /\ last_sample_boot' = last_sample_boot
      /\ days' = days /\ floor' = floor /\ worker' = worker /\ taken' = taken
      /\ owed' = owed
  BY DEF AppendRejected, disk, store, index, ghost
<1>2. NoJob \in [n : 0..MaxSamples, t : 0..MaxTime, v : 0..MaxCount]
  BY Bounds DEF NoJob
<1>3. HistoryTypes'
  BY <1>1, <1>2 DEF HistoryInv, HistoryTypes
<1>4. Working' /\ NeverBehind'
  BY <1>1 DEF HistoryInv, Working, NeverBehind
<1>5. DiskLines'
  BY <1>1 DEF HistoryInv, DiskLines
<1> QED BY <1>3, <1>4, <1>5 DEF HistoryInv

(* The state of the live process in what is retained.                        *)
LEMMA LiveStateIs ==
  ASSUME NEW rs \in Seq(Lines)
  PROVE  LiveState(rs) \in None..MaxCount
<1> DEFINE P == {i \in DOMAIN rs : rs[i].kind = "sample" /\ rs[i].boot = boot}
<1>1. DOMAIN rs = 1..Len(rs) /\ Len(rs) \in Nat
  OBVIOUS
<1>2. CASE P = {}
  BY <1>2, Bounds DEF LiveState
<1>3. CASE P # {}
  <2>1. P \subseteq 1..Len(rs)
    BY <1>1
  <2> DEFINE x == Max(P)
  <2>2. x \in P
    <3> HIDE DEF P
    <3> QED BY <1>1, <1>3, <2>1, MaxPlace
  <2>3. LiveState(rs) = rs[x].v
    BY <1>3 DEF LiveState
  <2> HIDE DEF x
  <2>4. rs[x] \in Lines
    BY <2>1, <2>2
  <2> QED BY <2>3, <2>4, LineFields
<1> QED BY <1>2, <1>3

(* Compaction replaces the file by some of its lines; it does not move the     *)
(* store's last timestamp forward.                                          *)
LEMMA CompactKeeps ==
  ASSUME HistoryInv, NEW c \in 1..floor, CompactReplaced(c)
  PROVE  HistoryInv'
<1> DEFINE found == Scan(file)
           new == Retained(found.records, c)
           k == Len(taken)
<1>1. /\ mode = "canonical" /\ file' = new /\ safe' = new
      /\ \/ /\ old' = {} /\ faults' = faults
            /\ owed' = (owed \cup {new[i].n : i \in DOMAIN new}) \ {0}
         \/ old' = old \cup {safe} /\ Fault /\ owed' = owed
      /\ last_timestamp' = (IF new = <<>> THEN None ELSE Last(new).t)
      /\ last_state' = LiveState(new)
      /\ worker' \in [pc : {"replaced"}, stale : BOOLEAN]
  BY DEF CompactReplaced
<1>2. /\ now' = now /\ mode' = mode /\ boot' = boot /\ poisoned' = poisoned
      /\ points' = points /\ gaps' = gaps /\ last_parsed' = last_parsed
      /\ last_sample_boot' = last_sample_boot /\ days' = days /\ floor' = floor
      /\ job' = job /\ taken' = taken
  BY DEF CompactReplaced, index
<1>3. /\ k \in Nat /\ MaxTime \in Int /\ faults \in 0..MaxFaults
      /\ file \in Seq(Below(k, MaxTime)) /\ safe \in Seq(Below(k, MaxTime))
      /\ \A f \in old : f \in Seq(Below(k, MaxTime))
      /\ last_timestamp \in Int /\ c \in Nat
  <2>1. c \in Nat
    BY DEF HistoryInv, HistoryTypes
  <2> QED BY <2>1, Facts
<1>4. ASSUME NEW b \in Int, file \in Seq(Below(k, b))
      PROVE  new \in Seq(Below(k, b)) /\ Chain(new)
  <2>1. Below(k, b) \subseteq Lines
    BY <1>4, BelowLines
  <2>2. /\ found.records \in Seq(Below(k, b)) /\ Chain(found.records)
        /\ Closed(found.records)
    BY <1>4, <2>1, ScanGood
  <2> HIDE DEF found
  <2> QED BY <1>3, <2>1, <2>2, RetainedIs
<1> HIDE DEF new, found
<1>5. new \in Seq(Below(k, MaxTime)) /\ Chain(new) /\ new \in Seq(Lines)
  BY <1>3, <1>4, BelowLines
<1> DEFINE b == IF new = <<>> THEN None ELSE Last(new).t
<1>6. b \in None..MaxTime /\ b \in Int
  <2>1. CASE new = <<>>
    BY <2>1, Bounds
  <2>2. CASE new # <<>>
    <3>1. Last(new) \in Lines
      BY <1>5, <2>2, LastFront
    <3>2. Last(new).t \in 0..MaxTime
      BY <3>1, LineFields
    <3> QED BY <2>2, <3>2, Bounds
  <2> QED BY <2>1, <2>2
<1>7. new \in Seq(Below(k, b))
  <2>1. ASSUME NEW i \in 1..Len(new) PROVE new[i] \in Below(k, b)
    <3>1. new[i] \in Below(k, MaxTime) /\ new # <<>> /\ Len(new) \in 1..Len(new) /\ i <= Len(new)
      BY <1>5
    <3>2. new[i].t <= b
      BY <1>5, <3>1 DEF Chain, Last
    <3> QED BY <3>1, <3>2 DEF Below
  <2>2. Len(new) \in Nat /\ new \in [1..Len(new) -> Lines] /\ DOMAIN new = 1..Len(new)
    BY <1>5, LenProperties
  <2> HIDE DEF b
  <2>3. new \in [1..Len(new) -> Below(k, b)]
    BY <2>1, <2>2
  <2> QED BY <2>2, <2>3, SeqDef
<1>8. ~poisoned => b <= last_timestamp
  <2> SUFFICES ASSUME ~poisoned PROVE b <= last_timestamp
    OBVIOUS
  <2>1. file \in Seq(Below(k, last_timestamp))
    BY <1>1 DEF HistoryInv, DiskLines
  <2>2. new \in Seq(Below(k, last_timestamp))
    BY <1>3, <1>4, <2>1
  <2>3. CASE new = <<>>
    <3>1. last_timestamp \in None..MaxTime
      BY Facts
    <3> QED BY <2>3, <3>1, Bounds
  <2>4. CASE new # <<>>
    <3>1. Last(new) = new[Len(new)] /\ Len(new) \in Nat \ {0}
      BY <1>5, <2>4, LastFront
    <3>2. Len(new) \in 1..Len(new)
      BY <3>1
    <3>3. Last(new) \in Below(k, last_timestamp) /\ Last(new).form \in Decodes
      BY <1>5, <2>2, <3>1, <3>2 DEF Chain
    <3> QED BY <2>4, <3>3 DEF Below, Decodes
  <2> QED BY <2>3, <2>4
<1>9. HistoryTypes'
  <2>1. worker' \in [pc : {"idle", "replaced"}, stale : BOOLEAN]
    BY <1>1
  <2>2. last_state' \in None..MaxCount
    BY <1>1, <1>5, LiveStateIs
  <2>3. faults' \in 0..MaxFaults
    BY <1>1, <1>3, Bounds DEF Fault
  <2>4. owed' \subseteq 1..Len(taken)
    <3>1. owed \subseteq 1..Len(taken)
      BY DEF HistoryInv, HistoryTypes
    <3>2. ASSUME NEW i \in DOMAIN new PROVE new[i].n \in 0..k
      <4>1. new[i] \in Below(k, MaxTime)
        BY <1>5
      <4>2. new[i].n \in 0..MaxSamples /\ new[i].n <= k
        BY <4>1, LineFields DEF Below
      <4> QED BY <1>3, <4>2
    <3>3. \A j \in 0..k : j # 0 => j \in 1..k
      BY <1>3
    <3>4. (owed \cup {new[i].n : i \in DOMAIN new}) \ {0} \subseteq 1..k
      <4>1. \A j \in {new[i].n : i \in DOMAIN new} : j \in 0..k
        BY <3>2
      <4> QED BY <3>1, <3>3, <4>1
    <3>5. owed' = (owed \cup {new[i].n : i \in DOMAIN new}) \ {0} \/ owed' = owed
      BY <1>1
    <3> QED BY <3>1, <3>4, <3>5
  <2>5. last_timestamp' \in None..MaxTime
    BY <1>1, <1>6
  <2> QED BY <1>2, <2>1, <2>2, <2>3, <2>4, <2>5 DEF HistoryInv, HistoryTypes
<1>10. Working'
  BY <1>1, <1>2 DEF HistoryInv, Working
<1>11. NeverBehind'
  <2> SUFFICES ASSUME job # NoJob, ~poisoned PROVE job.t >= b
    BY <1>1, <1>2 DEF NeverBehind
  <2>1. job.t >= last_timestamp
    BY DEF HistoryInv, NeverBehind
  <2>2. job.t \in Int
    BY NextLineIs
  <2> HIDE DEF b
  <2> QED BY <1>3, <1>6, <1>8, <2>1, <2>2
<1>12. DiskLines'
  <2>1. \A f \in old' : f \in Seq(Below(k, MaxTime))
    BY <1>1, <1>3
  <2>2. Len(taken') = k /\ last_timestamp' = b
    BY <1>1, <1>2
  <2> HIDE DEF b
  <2> QED BY <1>1, <1>5, <1>7, <2>1, <2>2 DEF DiskLines
<1> QED BY <1>9, <1>10, <1>11, <1>12 DEF HistoryInv

(* The index is replaced.                                                   *)
LEMMA InstallKeeps == HistoryInv /\ Install => HistoryInv'
<1> SUFFICES ASSUME HistoryInv, Install PROVE HistoryInv'
  OBVIOUS
<1>1. /\ gaps' = (IF worker.stale THEN gaps ELSE <<>>) /\ worker' = Idle /\ now' = now
      /\ faults' = faults /\ file' = file /\ safe' = safe /\ old' = old /\ mode' = mode
      /\ boot' = boot /\ last_state' = last_state /\ last_timestamp' = last_timestamp
      /\ poisoned' = poisoned /\ points' = points /\ last_parsed' = last_parsed
      /\ last_sample_boot' = last_sample_boot /\ days' = days /\ floor' = floor
      /\ job' = job /\ taken' = taken /\ owed' = owed
  BY DEF Install, disk, store, ghost
<1>2. <<>> \in Seq(Gaps)
  OBVIOUS
<1>3. Idle \in [pc : {"idle", "replaced"}, stale : BOOLEAN]
  BY DEF Idle
<1>4. HistoryTypes'
  BY <1>1, <1>2, <1>3 DEF HistoryInv, HistoryTypes
<1>5. Working' /\ NeverBehind'
  BY <1>1 DEF HistoryInv, Working, NeverBehind
<1>6. DiskLines'
  BY <1>1 DEF HistoryInv, DiskLines
<1> QED BY <1>4, <1>5, <1>6 DEF HistoryInv

(* Retention is changed.                                                    *)
LEMMA ReconfigureKeeps ==
  ASSUME HistoryInv, NEW d \in Retentions, Reconfigure(d)
  PROVE  HistoryInv'
<1> DEFINE c == Cutoff(d, now)
           kept == IF d = 0 THEN points ELSE PrunedBy(c)
           stale == worker.stale \/ (worker.pc # "idle" /\ kept # points)
<1>1. /\ days' = d /\ points' = kept /\ floor' = Max({floor, c})
      /\ worker' = [worker EXCEPT !.stale = stale] /\ now' = now
      /\ faults' = faults /\ file' = file /\ safe' = safe /\ old' = old /\ mode' = mode
      /\ boot' = boot /\ last_state' = last_state /\ last_timestamp' = last_timestamp
      /\ poisoned' = poisoned /\ gaps' = gaps /\ last_parsed' = last_parsed
      /\ last_sample_boot' = last_sample_boot
      /\ job' = job /\ taken' = taken /\ owed' = owed
  BY DEF Reconfigure, disk, store, ghost
<1>2. /\ points \in Seq(Points) /\ floor \in 0..MaxTime /\ now \in 0..MaxTime
      /\ worker \in [pc : {"idle", "replaced"}, stale : BOOLEAN]
  BY DEF HistoryInv, HistoryTypes
<1>3. kept \in Seq(Points)
  <2>1. PrunedBy(c) \in Seq(Points)
    BY <1>2, OnlyType DEF PrunedBy
  <2> QED BY <1>2, <2>1
<1>4. floor' \in 0..MaxTime
  BY <1>1, <1>2, CutoffIs, FloorIs
<1>5. worker' \in [pc : {"idle", "replaced"}, stale : BOOLEAN]
  <2>1. stale \in BOOLEAN
    BY <1>2
  <2> HIDE DEF stale
  <2> QED BY <1>1, <1>2, <2>1
<1>6. worker = Idle => worker' = Idle
  <2> SUFFICES ASSUME worker = Idle PROVE worker' = Idle
    OBVIOUS
  <2>1. stale = FALSE
    BY DEF Idle
  <2> HIDE DEF stale
  <2> QED BY <1>1, <2>1, StillIdle
<1> HIDE DEF kept, stale
<1>7. HistoryTypes'
  BY <1>1, <1>3, <1>4, <1>5 DEF HistoryInv, HistoryTypes
<1>8. Working' /\ NeverBehind'
  BY <1>1, <1>6 DEF HistoryInv, Working, NeverBehind
<1>9. DiskLines'
  BY <1>1 DEF HistoryInv, DiskLines
<1> QED BY <1>7, <1>8, <1>9 DEF HistoryInv

(* The clock steps.                                                         *)
LEMMA ClockKeeps ==
  ASSUME HistoryInv, NEW t \in 0..MaxTime, Clock(t)
  PROVE  HistoryInv'
<1>1. /\ now' = t /\ file' = file /\ safe' = safe /\ old' = old /\ mode' = mode
      /\ boot' = boot /\ last_state' = last_state /\ last_timestamp' = last_timestamp
      /\ poisoned' = poisoned /\ points' = points /\ gaps' = gaps
      /\ last_parsed' = last_parsed /\ last_sample_boot' = last_sample_boot
      /\ days' = days /\ floor' = floor /\ job' = job /\ worker' = worker
      /\ taken' = taken /\ owed' = owed
  BY DEF Clock, disk, store, index, ghost
<1>2. faults' \in 0..MaxFaults
  <2>1. faults \in 0..MaxFaults
    BY Facts
  <2> QED BY <2>1, Bounds DEF Clock, Fault
<1>3. HistoryTypes'
  BY <1>1, <1>2 DEF HistoryInv, HistoryTypes
<1>4. Working' /\ NeverBehind'
  BY <1>1 DEF HistoryInv, Working, NeverBehind
<1>5. DiskLines'
  BY <1>1 DEF HistoryInv, DiskLines
<1> QED BY <1>3, <1>4, <1>5 DEF HistoryInv

(* Every step keeps the invariant.                                          *)
LEMMA HistoryStep == HistoryInv /\ [Next]_vars => HistoryInv'
<1> SUFFICES ASSUME HistoryInv, [Next]_vars PROVE HistoryInv'
  OBVIOUS
<1>1. CASE UNCHANGED vars
  <2>1. /\ now' = now /\ faults' = faults /\ file' = file /\ safe' = safe /\ old' = old
        /\ mode' = mode /\ boot' = boot /\ last_state' = last_state
        /\ last_timestamp' = last_timestamp /\ poisoned' = poisoned /\ points' = points
        /\ gaps' = gaps /\ last_parsed' = last_parsed
        /\ last_sample_boot' = last_sample_boot /\ days' = days /\ floor' = floor
        /\ job' = job /\ worker' = worker /\ taken' = taken /\ owed' = owed
    BY <1>1 DEF vars, disk, store, index, ghost
  <2> QED BY <2>1 DEF HistoryInv, HistoryTypes, Working, DiskLines, NeverBehind
<1>2. CASE Next
  <2>1. CASE Open \/ OpenRefused \/ OpenFails \/ Crash
    BY <2>1, OpenKeeps, RefusedKeeps, OpenFailsKeeps, CrashKeeps
  <2>2. CASE \E v \in 0..MaxCount : AppendIndexed(v)
    BY <2>2, IndexedKeeps
  <2>3. CASE AppendWritten \/ AppendFails \/ AppendRejected
    BY <2>3, WrittenKeeps, FailsKeeps, RejectedKeeps
  <2>4. CASE \E c \in 1..floor : CompactReplaced(c)
    BY <2>4, CompactKeeps
  <2>5. CASE Install
    BY <2>5, InstallKeeps
  <2>6. CASE \E d \in Retentions : Reconfigure(d)
    BY <2>6, ReconfigureKeeps
  <2>7. CASE \E t \in {now - 1, now + 1} \cap 0..MaxTime : Clock(t)
    BY <2>7, ClockKeeps
  <2> QED BY <1>2, <2>1, <2>2, <2>3, <2>4, <2>5, <2>6, <2>7 DEF Next
<1> QED BY <1>1, <1>2

(* The invariant gives what the run checks.                                  *)
LEMMA HistorySound == HistoryInv => FileSound
<1> SUFFICES ASSUME HistoryInv PROVE FileSound
  OBVIOUS
<1> DEFINE S == Below(Len(taken), MaxTime)
<1>1. file \in Seq(S) /\ safe \in Seq(S) /\ \A f \in old : f \in Seq(S)
  BY Facts
<1>2. S \subseteq Lines /\ S \subseteq Records
  BY DEF Below, Lines
<1>3. ASSUME NEW f \in Seq(S) PROVE ToSet(f) \subseteq Records
  <2> HIDE DEF S
  <2>1. \A i \in DOMAIN f : f[i] \in S
    OBVIOUS
  <2> QED BY <1>2, <2>1 DEF ToSet
<1>4. ToSet(points) \subseteq Points /\ ToSet(gaps) \subseteq Gaps
  <2>1. points \in Seq(Points) /\ gaps \in Seq(Gaps)
    BY DEF HistoryInv, HistoryTypes
  <2> QED BY <2>1 DEF ToSet
<1>5. TypeOK
  BY <1>1, <1>3, <1>4 DEF TypeOK, HistoryInv, HistoryTypes, Working, Points, Gaps
<1>6. ReplacementValidates
  <2>1. ASSUME NEW c \in 1..floor PROVE Validates(Retained(Scan(file).records, c))
    <3>1. c \in Nat /\ file \in Seq(Lines)
      BY <1>1, BelowLines DEF HistoryInv, HistoryTypes
    <3>2. /\ Scan(file).records \in Seq(Lines) /\ Chain(Scan(file).records)
          /\ Closed(Scan(file).records)
      BY <3>1, ScanGood
    <3>3. /\ Retained(Scan(file).records, c) \in Seq(Lines)
          /\ Chain(Retained(Scan(file).records, c))
          /\ Closed(Retained(Scan(file).records, c))
      BY <3>1, <3>2, RetainedIs
    <3> QED BY <3>3, Rescan
  <2> QED BY <2>1 DEF ReplacementValidates
<1> QED BY <1>5, <1>6 DEF FileSound, HistoryInv

(* History::open, append, compact and reconfigure_retention keep the process   *)
(* and its file in step, for any times, retention, samples and faults: what   *)
(* compaction writes always validates as itself, and no sample is stamped      *)
(* behind what the file holds.                                              *)
THEOREM FileTheorem == Spec => []FileSound
BY HistoryInit, HistoryStep, HistorySound, PTL DEF Spec

-----------------------------------------------------------------------------
(* What is counted.  A file is a stream of the samples taken (Stream): each    *)
(* line has the process and the count of its sample, and from the floor on     *)
(* two neighbours of one process differ by exactly what the later one gained.  *)
(* A write extends it, a scan cuts it to epochs, compaction leaves out lines    *)
(* whose neighbours still show the same, so that a replay of any of them gives  *)
(* the gains themselves.                                                     *)

(* What stands next to each other in a stream is in R, a boot record after     *)
(* anything excepted; a process is later than all that wrote before it.       *)
Tied(rs, R) ==
  /\ \A i \in 1..(Len(rs) - 1) : rs[i + 1].kind # "boot" => <<rs[i], rs[i + 1]>> \in R
  /\ \A i, j \in 1..Len(rs) : i < j /\ rs[j].kind = "boot" => rs[i].boot < rs[j].boot

(* All of rs is taken from the first n lines of f.                           *)
Among(rs, f, n) == \A i \in 1..Len(rs) : \E j \in 1..n : rs[i] = f[j]

(* The empty stream is tied.                                                *)
LEMMA TiedEmpty == ASSUME NEW R PROVE Tied(<<>>, R)
<1>1. Len(<<>>) = 0 /\ 1..0 = {} /\ 1..(0 - 1) = {}
  OBVIOUS
<1> QED BY <1>1 DEF Tied

(* A stream begins with another.                                            *)
Begins(q, rs) == Len(q) <= Len(rs) /\ \A i \in 1..Len(q) : rs[i] = q[i]

(* The beginning of a tied stream is tied.                                  *)
LEMMA TiedBegins ==
  ASSUME NEW S, NEW q \in Seq(S), NEW rs \in Seq(S), Begins(q, rs), NEW R, Tied(rs, R)
  PROVE  Tied(q, R)
<1> DEFINE k == Len(q)
           m == Len(rs)
<1>1. k \in Nat /\ m \in Nat /\ k <= m /\ \A i \in 1..k : rs[i] = q[i]
  BY DEF Begins
<1>2. \A i \in 1..k : i \in 1..m
  BY <1>1
<1>3. \A i \in 1..(k - 1) : i \in 1..k /\ i + 1 \in 1..k /\ i \in 1..(m - 1)
  BY <1>1
<1> HIDE DEF k, m
<1>4. \A i \in 1..(k - 1) : q[i + 1].kind # "boot" => <<q[i], q[i + 1]>> \in R
  BY <1>1, <1>3 DEF Tied, m
<1>5. \A i, j \in 1..k : i < j /\ q[j].kind = "boot" => q[i].boot < q[j].boot
  BY <1>1, <1>2 DEF Tied, m
<1> QED BY <1>4, <1>5 DEF Tied, k

(* A tied stream grows by a line that fits its end, or by a later process.    *)
LEMMA TiedAppend ==
  ASSUME NEW S, NEW rs \in Seq(S), NEW l \in S, NEW R, Tied(rs, R),
         l.kind # "boot" /\ rs # <<>> => <<Last(rs), l>> \in R,
         l.kind = "boot" => \A i \in 1..Len(rs) : rs[i].boot < l.boot
  PROVE  Tied(Append(rs, l), R)
<1> DEFINE k == Len(rs)
           r == Append(rs, l)
<1>1. /\ k \in Nat /\ Len(r) = k + 1 /\ r[k + 1] = l
      /\ \A i \in 1..k : r[i] = rs[i]
  BY AppendProperties
<1>2. k # 0 => rs # <<>> /\ Last(rs) = rs[k]
  BY DEF Last
<1> HIDE DEF k, r
<1>3. \A i \in 1..(k + 1) : i = k + 1 \/ i \in 1..k
  BY <1>1
<1>4. ASSUME NEW i \in 1..(Len(r) - 1), r[i + 1].kind # "boot" PROVE <<r[i], r[i + 1]>> \in R
  <2>1. i \in 1..k
    BY <1>1
  <2>2. CASE i = k
    BY <1>1, <1>2, <1>4, <2>1, <2>2
  <2>3. CASE i # k
    <3>1. i \in 1..(k - 1) /\ i + 1 \in 1..k
      BY <1>1, <2>1, <2>3
    <3> QED BY <1>1, <1>4, <2>1, <3>1 DEF Tied, k
  <2> QED BY <2>2, <2>3
<1>5. ASSUME NEW i \in 1..Len(r), NEW j \in 1..Len(r), i < j, r[j].kind = "boot"
      PROVE  r[i].boot < r[j].boot
  <2>1. i \in 1..k
    BY <1>1, <1>5
  <2>2. CASE j = k + 1
    BY <1>1, <1>5, <2>1, <2>2 DEF k
  <2>3. CASE j \in 1..k
    BY <1>1, <1>5, <2>1, <2>3 DEF Tied, k
  <2> QED BY <1>1, <1>3, <1>5, <2>2, <2>3
<1> QED BY <1>4, <1>5 DEF Tied, r

-----------------------------------------------------------------------------
(* What the scanner holds after a line.                                      *)

(* The records begin what is held.                                          *)
LEMMA HeldBegins ==
  ASSUME NEW S, NEW s \in States(S)
  PROVE  Begins(s.records, Held(s)) /\ s.records \in Seq(S) /\ Held(s) \in Seq(S)
<1>1. s.records \in Seq(S) /\ s.epoch \in Seq(S) /\ Held(s) \in Seq(S)
  BY StateFields
<1> DEFINE a == s.records
           b == s.epoch
<1>2. Len(a) \in Nat /\ Len(b) \in Nat
  BY <1>1
<1>3. /\ Len(a \o b) = Len(a) + Len(b)
      /\ \A i \in 1..(Len(a) + Len(b)) :
           (a \o b)[i] = IF i <= Len(a) THEN a[i] ELSE b[i - Len(a)]
  BY <1>1, ConcatProperties
<1> HIDE DEF a, b
<1>4. \A i \in 1..Len(a) : i \in 1..(Len(a) + Len(b)) /\ i <= Len(a)
  BY <1>2
<1>5. Begins(a, a \o b)
  BY <1>2, <1>3, <1>4 DEF Begins
<1> QED BY <1>1, <1>5 DEF Held, a, b

(* A damaged line leaves the records and drops the epoch.                    *)
LEMMA InvalidateIs ==
  ASSUME NEW S, NEW s, Good(s, S), S \subseteq Lines, NEW t \in 0..MaxTime
  PROVE  /\ Invalidate(s, t).records = s.records /\ Invalidate(s, t).epoch = <<>>
         /\ Invalidate(s, t).st = "InvalidEpoch" /\ Held(Invalidate(s, t)) = s.records
         /\ ~Pending(Invalidate(s, t))
<1>1. Good(Invalidate(s, t), S)
  BY InvalidateGood
<1>2. s \in States(S)
  BY DEF Good
<1>3. Invalidate(s, t).records = s.records /\ Invalidate(s, t).st = "InvalidEpoch"
  <2>1. CASE Pending(s)
    <3>1. Exclude(s) \in States(S) /\ Exclude(s).records = s.records
      BY <2>1, ExcludeIs
    <3> QED BY <2>1, <3>1 DEF Invalidate, States
  <2>2. CASE ~Pending(s)
    BY <1>2, <2>2 DEF Invalidate, States
  <2> QED BY <2>1, <2>2
<1>4. ~Pending(Invalidate(s, t))
  BY <1>3 DEF Pending
<1>5. Invalidate(s, t).epoch = <<>> /\ Invalidate(s, t) \in States(S)
  BY <1>1, <1>4 DEF Good
<1>6. Held(Invalidate(s, t)) = Invalidate(s, t).records
  BY <1>5, StateFields
<1> QED BY <1>3, <1>4, <1>5, <1>6

(* A higher bound changes nothing that is held.                             *)
LEMMA AdvanceIs ==
  ASSUME NEW S, NEW s, Good(s, S), S \subseteq Lines, NEW t \in 0..MaxTime
  PROVE  /\ Advance(s, t).records = s.records /\ Advance(s, t).epoch = s.epoch
         /\ Advance(s, t).st = s.st /\ Advance(s, t).gaps = s.gaps
         /\ Held(Advance(s, t)) = Held(s) /\ (Pending(Advance(s, t)) <=> Pending(s))
<1>1. s \in States(S)
  BY DEF Good
<1>2. /\ Advance(s, t).records = s.records /\ Advance(s, t).epoch = s.epoch
      /\ Advance(s, t).st = s.st /\ Advance(s, t).gaps = s.gaps
  BY <1>1 DEF Advance, States
<1> QED BY <1>2 DEF Held, Pending

(* One step of the scanner, by what it holds: the epoch is dropped, or ends    *)
(* with a boot record, or grows.                                            *)
LEMMA ScannedHeld ==
  ASSUME NEW S, NEW s, Good(s, S), S \subseteq Lines, NEW l \in S, NEW z, z = Scanned(s, l)
  PROVE  \/ z.st = "InvalidEpoch" /\ ~Pending(z) /\ Held(z) = s.records /\ z.records = s.records
         \/ /\ l.kind = "boot" /\ l.form \in Decodes /\ l.t >= s.bound
            /\ z.st = "AwaitSample" /\ z.epoch = <<l>>
            /\ Held(z) = Append(z.records, l) /\ z.records \in {s.records, Held(s)}
         \/ /\ l.kind # "boot" /\ l.form \in Decodes /\ l.t >= s.bound
            /\ Pending(s) /\ z.st = "Usable"
            /\ Held(z) = Append(Held(s), l)
<1>1. /\ l \in Lines /\ l.t \in 0..MaxTime /\ l.t \in Nat
      /\ l.form \in {"ok", "late", "bare", "torn", "junk"}
      /\ l.kind \in {"boot", "sample", "check"}
  BY LineFields
<1>2. s \in States(S) /\ s.bound \in Int /\ s.bound \in None..MaxTime
  BY StateFields DEF Good
<1> DEFINE a == Advance(s, l.t)
<1>3. Good(a, S) /\ a.bound >= l.t /\ a.bound \in {s.bound, l.t}
  BY <1>1, AdvanceGood
<1>4. l.t >= s.bound => a.bound = l.t
  BY <1>1, <1>2, <1>3
<1>5. a.records = s.records /\ Held(a) = Held(s) /\ (Pending(a) <=> Pending(s))
  BY <1>1, AdvanceIs
<1> HIDE DEF a
<1>6. CASE l.form \in {"torn", "junk"}
  <2>1. Max({s.bound, 0}) \in 0..MaxTime
    <3>1. Max({s.bound, 0}) = IF s.bound >= 0 THEN s.bound ELSE 0
      BY <1>2, MaxOfTwo
    <3> QED BY <1>2, <3>1, Bounds
  <2>2. z = Invalidate(s, Max({s.bound, 0}))
    BY <1>6 DEF Scanned, Damaged, Decodes
  <2> QED BY <2>1, <2>2, InvalidateIs
<1>7. CASE l.form = "bare"
  <2>1. z = Invalidate(a, l.t)
    BY <1>7 DEF Scanned, a, Decodes
  <2> QED BY <1>1, <1>3, <1>5, <2>1, InvalidateIs
<1>8. CASE l.form \in Decodes /\ l.t < s.bound
  <2>1. z = Invalidate(s, l.t)
    BY <1>1, <1>2, <1>8 DEF Scanned, Decodes
  <2> QED BY <1>1, <2>1, InvalidateIs
<1>9. CASE l.form \in Decodes /\ l.t >= s.bound /\ l.kind = "boot"
  <2>1. z = StartBoot(a, l)
    BY <1>1, <1>2, <1>9 DEF Scanned, Decodes, a
  <2>2. /\ Good(z, S) /\ z.records = Finished(a).records /\ z.epoch = <<l>>
        /\ z.st = "AwaitSample"
    BY <1>3, <1>4, <1>9, <2>1, StartBootGood
  <2>3. z.records \in {s.records, Held(s)} /\ z.records \in Seq(S)
    <3>1. Finished(a).records \in {a.records, Held(a)}
      BY <1>3, FinishedIs
    <3> QED BY <1>2, <1>5, <2>2, <3>1, StateFields
  <2>4. z.records \o <<l>> = Append(z.records, l)
    BY <2>3
  <2> QED BY <1>9, <2>2, <2>3, <2>4 DEF Held
<1>10. CASE l.form \in Decodes /\ l.t >= s.bound /\ l.kind # "boot"
  <2>1. z = Ingest(a, l)
    BY <1>1, <1>2, <1>10 DEF Scanned, Decodes, a
  <2>2. CASE Belongs(a, l)
    <3>1. Held(z) = Append(Held(a), l) /\ z.st = "Usable"
      BY <1>3, <1>4, <1>10, <2>1, <2>2, BelongsGood
    <3> QED BY <1>5, <1>10, <2>2, <3>1 DEF Belongs
  <2>3. CASE ~Belongs(a, l)
    <3>1. Ingest(a, l) = Invalidate(a, l.t)
      BY <2>3 DEF Ingest, Belongs
    <3> QED BY <1>1, <1>3, <1>5, <2>1, <3>1, InvalidateIs
  <2> QED BY <2>2, <2>3
<1>11. l.form \in {"torn", "junk", "bare"} \/ l.form \in Decodes
  BY <1>1 DEF Decodes
<1>12. l.t < s.bound \/ l.t >= s.bound
  BY <1>1, <1>2
<1> QED BY <1>6, <1>7, <1>8, <1>9, <1>10, <1>11, <1>12

(* A pass over a line more is a step more of the scanner.                      *)
LEMMA PassAppend ==
  ASSUME NEW S, S \subseteq Lines, NEW f \in Seq(S), NEW l \in S
  PROVE  Pass(Append(f, l)) = Scanned(Pass(f), l)
<1> DEFINE m == Len(f)
           g == Append(f, l)
<1>1. /\ m \in Nat /\ g \in Seq(S) /\ Len(g) = m + 1 /\ g[m + 1] = l
      /\ \A i \in 1..m : g[i] = f[i]
  BY AppendProperties
<1>2. PICK A : Passed(A, f) /\ Pass(f) = A[m]
  BY PassIs
<1>3. PICK B : Passed(B, g) /\ Pass(g) = B[Len(g)]
  BY <1>1, PassIs
<1>4. A[0] = Fresh /\ \A n \in 1..m : A[n] = Scanned(A[n - 1], f[n])
  BY <1>2 DEF Passed
<1>5. B[0] = Fresh /\ \A n \in 1..(m + 1) : B[n] = Scanned(B[n - 1], g[n])
  BY <1>1, <1>3 DEF Passed
<1> HIDE DEF m, g
<1> DEFINE Q == {n \in 0..m : A[n] = B[n]}
<1>6. 0 \in Q
  BY <1>1, <1>4, <1>5
<1>7. ASSUME NEW n \in 1..m, n - 1 \in Q PROVE n \in Q
  <2>1. n \in 1..(m + 1) /\ n \in 0..m /\ A[n - 1] = B[n - 1]
    BY <1>1, <1>7
  <2> QED BY <1>1, <1>4, <1>5, <2>1
<1>8. A[m] = B[m]
  <2> HIDE DEF Q
  <2>1. \A n \in 0..m : n \in Q
    BY <1>1, <1>6, <1>7, Induct
  <2>2. m \in Q
    BY <1>1, <2>1
  <2> QED BY <2>2 DEF Q
<1>9. m + 1 \in 1..(m + 1) /\ m + 1 - 1 = m
  BY <1>1
<1>10. B[m + 1] = Scanned(B[m], l)
  BY <1>1, <1>5, <1>9
<1> QED BY <1>1, <1>2, <1>3, <1>8, <1>10 DEF g

(* The scanner after n lines of a tied file: what it holds is tied and from    *)
(* those lines, and an epoch in progress ends with the last of them.          *)
Tracks(s, f, n, R) ==
  /\ Tied(Held(s), R) /\ Among(Held(s), f, n)
  /\ Pending(s) => n \in 1..Len(f) /\ Last(Held(s)) = f[n]

(* One step of it.                                                          *)
LEMMA TracksStep ==
  ASSUME NEW S, S \subseteq Lines, NEW f \in Seq(S), NEW R, Tied(f, R),
         NEW n \in 1..Len(f), NEW s, Good(s, S), Tracks(s, f, n - 1, R),
         NEW z, z = Scanned(s, f[n])
  PROVE  Tracks(z, f, n, R)
<1> DEFINE m == Len(f)
           l == f[n]
<1>1. m \in Nat /\ n \in Nat /\ n >= 1 /\ n <= m /\ l \in S
  OBVIOUS
<1>2. s \in States(S) /\ Good(z, S) /\ z \in States(S)
  BY <1>1, ScannedGood DEF Good
<1>3. Begins(s.records, Held(s)) /\ s.records \in Seq(S) /\ Held(s) \in Seq(S)
  BY <1>2, HeldBegins
<1>4. Tied(s.records, R)
  BY <1>3, TiedBegins DEF Tracks
<1>5. \A j \in 1..(n - 1) : j \in 1..n
  BY <1>1
<1>6. Among(Held(s), f, n)
  BY <1>5 DEF Tracks, Among
<1>7. Among(s.records, f, n - 1) /\ Among(s.records, f, n)
  <2>1. \A i \in 1..Len(s.records) : i \in 1..Len(Held(s)) /\ Held(s)[i] = s.records[i]
    BY <1>3 DEF Begins
  <2> QED BY <1>5, <2>1 DEF Tracks, Among
<1>8. \/ z.st = "InvalidEpoch" /\ ~Pending(z) /\ Held(z) = s.records /\ z.records = s.records
      \/ /\ l.kind = "boot" /\ Held(z) = Append(z.records, l) /\ z.records \in {s.records, Held(s)}
      \/ /\ l.kind # "boot" /\ Pending(s) /\ Held(z) = Append(Held(s), l)
  BY <1>1, ScannedHeld
<1>9. ASSUME NEW rs \in Seq(S), Tied(rs, R), Among(rs, f, n - 1), Held(z) = Append(rs, l),
             l.kind # "boot" => Pending(s) /\ rs = Held(s)
      PROVE  Tracks(z, f, n, R)
  <2>1. ASSUME l.kind # "boot", rs # <<>> PROVE <<Last(rs), l>> \in R
    <3>1. n - 1 \in 1..m /\ Last(rs) = f[n - 1]
      BY <1>9, <2>1 DEF Tracks
    <3>2. n - 1 \in 1..(m - 1) /\ (n - 1) + 1 = n
      BY <1>1, <3>1
    <3> QED BY <2>1, <3>1, <3>2 DEF Tied
  <2>2. ASSUME l.kind = "boot", NEW i \in 1..Len(rs) PROVE rs[i].boot < l.boot
    <3>1. PICK j \in 1..(n - 1) : rs[i] = f[j]
      BY <1>9 DEF Among
    <3>2. j \in 1..m /\ n \in 1..m /\ j < n
      BY <1>1
    <3> QED BY <2>2, <3>1, <3>2 DEF Tied
  <2>3. Tied(Held(z), R)
    BY <1>1, <1>9, <2>1, <2>2, TiedAppend
  <2>4. /\ Len(Append(rs, l)) = Len(rs) + 1 /\ Append(rs, l)[Len(rs) + 1] = l
        /\ \A i \in 1..Len(rs) : Append(rs, l)[i] = rs[i]
        /\ Len(rs) \in Nat
    BY <1>1, AppendProperties
  <2>5. \A i \in 1..(Len(rs) + 1) : i = Len(rs) + 1 \/ i \in 1..Len(rs)
    BY <2>4
  <2>6. Among(Held(z), f, n)
    <3>1. n \in 1..n
      BY <1>1
    <3> QED BY <1>5, <1>9, <2>4, <2>5, <3>1 DEF Among
  <2>7. Last(Held(z)) = l
    BY <1>9, <2>4 DEF Last
  <2> QED BY <1>1, <2>3, <2>6, <2>7 DEF Tracks
<1>10. CASE z.st = "InvalidEpoch" /\ ~Pending(z) /\ Held(z) = s.records
  BY <1>4, <1>7, <1>10 DEF Tracks
<1>11. CASE l.kind = "boot" /\ Held(z) = Append(z.records, l) /\ z.records \in {s.records, Held(s)}
  <2>1. z.records \in Seq(S) /\ Tied(z.records, R) /\ Among(z.records, f, n - 1)
    BY <1>3, <1>4, <1>7, <1>11 DEF Tracks
  <2> QED BY <1>9, <1>11, <2>1
<1>12. CASE l.kind # "boot" /\ Pending(s) /\ Held(z) = Append(Held(s), l)
  <2>1. Held(s) \in Seq(S) /\ Tied(Held(s), R) /\ Among(Held(s), f, n - 1)
    BY <1>3 DEF Tracks
  <2> QED BY <1>9, <1>12, <2>1
<1> QED BY <1>8, <1>10, <1>11, <1>12

(* The pass over a tied file, and what validating it keeps.                  *)
LEMMA PassTied ==
  ASSUME NEW S, S \subseteq Lines, NEW f \in Seq(S), NEW R, Tied(f, R)
  PROVE  /\ Tracks(Pass(f), f, Len(f), R)
         /\ Tied(Scan(f).records, R) /\ Among(Scan(f).records, f, Len(f))
<1> DEFINE m == Len(f)
<1>1. m \in Nat /\ \A n \in 1..m : f[n] \in S
  OBVIOUS
<1>2. PICK A : Passed(A, f) /\ Pass(f) = A[m]
  BY PassIs
<1>3. A[0] = Fresh /\ \A n \in 1..m : A[n] = Scanned(A[n - 1], f[n])
  BY <1>2 DEF Passed
<1> HIDE DEF m
<1> DEFINE Q == {n \in 0..m : Good(A[n], S) /\ Tracks(A[n], f, n, R)}
<1>4. 0 \in Q
  <2>1. Good(Fresh, S)
    BY FreshGood
  <2>2. Fresh.epoch = <<>> /\ Fresh.records = <<>> /\ ~Pending(Fresh)
    BY DEF Fresh, Pending
  <2>3. Held(Fresh) = <<>>
    BY <2>1, <2>2, StateFields DEF Good
  <2>4. Among(<<>>, f, 0)
    BY DEF Among
  <2>5. Tracks(Fresh, f, 0, R)
    BY <2>2, <2>3, <2>4, TiedEmpty DEF Tracks
  <2> QED BY <1>1, <1>3, <2>1, <2>5
<1>5. ASSUME NEW n \in 1..m, n - 1 \in Q PROVE n \in Q
  <2>1. Good(A[n - 1], S) /\ Tracks(A[n - 1], f, n - 1, R) /\ A[n] = Scanned(A[n - 1], f[n])
    BY <1>3, <1>5
  <2>2. Good(A[n], S)
    BY <1>1, <2>1, ScannedGood
  <2>3. Tracks(A[n], f, n, R)
    BY <2>1, TracksStep DEF m
  <2>4. n \in 0..m
    BY <1>1
  <2> QED BY <2>2, <2>3, <2>4
<1>6. m \in Q
  <2> HIDE DEF Q
  <2>1. \A n \in 0..m : n \in Q
    BY <1>1, <1>4, <1>5, Induct
  <2> QED BY <1>1, <2>1
<1>7. Good(Pass(f), S) /\ Tracks(Pass(f), f, m, R)
  BY <1>2, <1>6
<1> DEFINE s == Pass(f)
<1>8. s \in States(S)
  BY <1>7 DEF Good
<1>9. Begins(s.records, Held(s)) /\ s.records \in Seq(S) /\ Held(s) \in Seq(S)
  BY <1>8, HeldBegins
<1>10. Tied(s.records, R) /\ Among(s.records, f, m)
  <2>1. \A i \in 1..Len(s.records) : i \in 1..Len(Held(s)) /\ Held(s)[i] = s.records[i]
    BY <1>9 DEF Begins
  <2> QED BY <1>7, <1>9, <2>1, TiedBegins DEF Tracks, Among
<1>11. Scan(f).records \in {s.records, Held(s)}
  BY <1>7, FinishedIs DEF Scan
<1> QED BY <1>7, <1>10, <1>11 DEF Tracks, m

-----------------------------------------------------------------------------
(* Where the members of a subsequence stood: in order, and all those chosen.  *)
Places(pos, out, rs, keep, n) ==
  /\ \A i \in 1..Len(out) : pos[i] \in 1..n /\ pos[i] \in keep /\ out[i] = rs[pos[i]]
  /\ \A i, j \in 1..Len(out) : i < j => pos[i] < pos[j]
  /\ \A k \in 1..n : k \in keep => \E i \in 1..Len(out) : pos[i] = k

(* A member more.                                                           *)
LEMMA PlacesStep ==
  ASSUME NEW S, NEW rs \in Seq(S), NEW keep, NEW n \in 1..Len(rs), NEW out \in Seq(S),
         NEW pos, Places(pos, out, rs, keep, n - 1), NEW r,
         r = IF n \in keep THEN Append(out, rs[n]) ELSE out
  PROVE  \E p : Places(p, r, rs, keep, n)
<1>1. n \in Nat /\ n >= 1 /\ rs[n] \in S /\ \A k \in 1..n : k = n \/ k \in 1..(n - 1)
  OBVIOUS
<1>2. \A k \in 1..(n - 1) : k \in 1..n /\ k < n
  BY <1>1
<1>3. CASE n \notin keep
  <2>1. Places(pos, r, rs, keep, n)
    BY <1>1, <1>2, <1>3 DEF Places
  <2> QED BY <2>1
<1>4. CASE n \in keep
  <2> DEFINE k == Len(out)
             p == [i \in 1..(k + 1) |-> IF i = k + 1 THEN n ELSE pos[i]]
  <2>1. /\ k \in Nat /\ r = Append(out, rs[n]) /\ Len(r) = k + 1 /\ r[k + 1] = rs[n]
        /\ \A i \in 1..k : r[i] = out[i]
    BY <1>1, <1>4, AppendProperties
  <2>2. \A i \in 1..k : i # k + 1 /\ i \in 1..(k + 1)
    BY <2>1
  <2>3. \A i \in 1..(k + 1) : i = k + 1 \/ i \in 1..k
    BY <2>1
  <2>4. p[k + 1] = n /\ \A i \in 1..k : p[i] = pos[i]
    BY <2>1, <2>2
  <2>5. \A i \in 1..k : pos[i] \in 1..(n - 1) /\ pos[i] \in keep /\ out[i] = rs[pos[i]]
    BY DEF Places
  <2> HIDE DEF p
  <2>6. ASSUME NEW i \in 1..(k + 1) PROVE p[i] \in 1..n /\ p[i] \in keep /\ r[i] = rs[p[i]]
    <3>1. CASE i = k + 1
      BY <1>1, <1>4, <2>1, <2>4, <3>1
    <3>2. CASE i \in 1..k
      BY <1>2, <2>1, <2>4, <2>5, <3>2
    <3> QED BY <2>3, <3>1, <3>2
  <2>7. ASSUME NEW i \in 1..(k + 1), NEW j \in 1..(k + 1), i < j PROVE p[i] < p[j]
    <3>1. i \in 1..k
      BY <2>1, <2>7
    <3>2. CASE j = k + 1
      BY <1>2, <2>4, <2>5, <3>1, <3>2
    <3>3. CASE j \in 1..k
      BY <2>4, <2>7, <3>1, <3>3 DEF Places
    <3> QED BY <2>3, <3>2, <3>3
  <2>8. ASSUME NEW q \in 1..n, q \in keep PROVE \E i \in 1..(k + 1) : p[i] = q
    <3>1. CASE q = n
      <4>1. k + 1 \in 1..(k + 1)
        BY <2>1
      <4> QED BY <2>4, <3>1, <4>1
    <3>2. CASE q \in 1..(n - 1)
      <4>1. PICK i \in 1..k : pos[i] = q
        BY <2>8, <3>2 DEF Places
      <4> QED BY <2>2, <2>4, <4>1
    <3> QED BY <1>1, <3>1, <3>2
  <2>9. Places(p, r, rs, keep, n)
    BY <2>1, <2>6, <2>7, <2>8 DEF Places
  <2> QED BY <2>9
<1> QED BY <1>3, <1>4

(* So Only has such places.                                                 *)
LEMMA OnlyPlaces ==
  ASSUME NEW S, NEW rs \in Seq(S), NEW keep
  PROVE  Only(rs, keep) \in Seq(S) /\ \E pos : Places(pos, Only(rs, keep), rs, keep, Len(rs))
<1> DEFINE m == Len(rs)
<1>1. m \in Nat
  OBVIOUS
<1>2. PICK A \in [0..m -> Seq(S)] : Picked(A, rs, keep) /\ Only(rs, keep) = A[m]
  BY OnlyIs
<1>3. /\ A[0] = <<>>
      /\ \A n \in 1..m : A[n] = IF n \in keep THEN Append(A[n - 1], rs[n]) ELSE A[n - 1]
  BY <1>2 DEF Picked
<1> HIDE DEF m
<1> DEFINE Q == {n \in 0..m : \E pos : Places(pos, A[n], rs, keep, n)}
<1>4. 0 \in Q
  <2>1. Len(<<>>) = 0 /\ 1..0 = {} /\ 0 \in 0..m
    BY <1>1
  <2>2. Places(<<>>, A[0], rs, keep, 0)
    BY <1>3, <2>1 DEF Places
  <2> QED BY <2>1, <2>2
<1>5. ASSUME NEW n \in 1..m, n - 1 \in Q PROVE n \in Q
  <2>1. n \in 0..m /\ n - 1 \in 0..m /\ A[n - 1] \in Seq(S)
    BY <1>1, <1>2
  <2>2. PICK pos : Places(pos, A[n - 1], rs, keep, n - 1)
    BY <1>5
  <2>3. \E p : Places(p, A[n], rs, keep, n)
    BY <1>3, <2>1, <2>2, PlacesStep DEF m
  <2> QED BY <2>1, <2>3
<1>6. m \in Q
  <2> HIDE DEF Q
  <2>1. \A n \in 0..m : n \in Q
    BY <1>1, <1>4, <1>5, Induct
  <2> QED BY <1>1, <2>1
<1> QED BY <1>2, <1>6, OnlyType DEF m

(* Members next to each other have nothing chosen between them, and nothing    *)
(* is chosen after the last one.                                            *)
LEMMA PlacesNext ==
  ASSUME NEW S, NEW rs \in Seq(S), NEW keep, NEW out \in Seq(S),
         NEW pos, Places(pos, out, rs, keep, Len(rs))
  PROVE  /\ \A i \in 1..(Len(out) - 1) :
              /\ i \in 1..Len(out) /\ i + 1 \in 1..Len(out) /\ pos[i] < pos[i + 1]
              /\ \A j \in (pos[i] + 1)..(pos[i + 1] - 1) : j \notin keep
         /\ out # <<>> =>
              /\ Len(out) \in 1..Len(out) /\ Last(out) = rs[pos[Len(out)]]
              /\ \A j \in (pos[Len(out)] + 1)..Len(rs) : j \notin keep
<1> DEFINE k == Len(out)
           m == Len(rs)
<1>1. k \in Nat /\ m \in Nat
  OBVIOUS
<1>2. \A i \in 1..k : pos[i] \in 1..m /\ pos[i] \in Nat /\ out[i] = rs[pos[i]]
  BY DEF Places
<1>3. out # <<>> => k \in 1..k /\ Last(out) = out[k]
  BY DEF Last
<1> HIDE DEF k, m
<1>4. ASSUME NEW i \in 1..(k - 1)
      PROVE  /\ i \in 1..k /\ i + 1 \in 1..k /\ pos[i] < pos[i + 1]
             /\ \A j \in (pos[i] + 1)..(pos[i + 1] - 1) : j \notin keep
  <2>1. i \in 1..k /\ i + 1 \in 1..k /\ i < i + 1
    BY <1>1
  <2>2. pos[i] < pos[i + 1]
    BY <2>1 DEF Places, k
  <2>3. ASSUME NEW j \in (pos[i] + 1)..(pos[i + 1] - 1), j \in keep PROVE FALSE
    <3>1. j \in 1..m /\ pos[i] < j /\ j < pos[i + 1]
      BY <1>1, <1>2, <2>1
    <3>2. PICK q \in 1..k : pos[q] = j
      BY <2>3, <3>1 DEF Places, k, m
    <3>3. ~(q < i) /\ q # i /\ ~(i + 1 < q) /\ q # i + 1
      <4>1. q < i => pos[q] < pos[i]
        BY <2>1 DEF Places, k
      <4>2. i + 1 < q => pos[i + 1] < pos[q]
        BY <2>1 DEF Places, k
      <4> QED BY <1>2, <2>1, <3>1, <3>2, <4>1, <4>2
    <3> QED BY <1>1, <3>3
  <2> QED BY <2>1, <2>2, <2>3
<1>5. ASSUME out # <<>>, NEW j \in (pos[k] + 1)..m, j \in keep PROVE FALSE
  <2>1. k \in 1..k /\ pos[k] \in 1..m /\ pos[k] \in Nat
    BY <1>2, <1>3, <1>5
  <2>2. j \in 1..m /\ pos[k] < j
    BY <1>1, <2>1
  <2>3. PICK q \in 1..k : pos[q] = j
    BY <1>5, <2>2 DEF Places, k, m
  <2>4. q < k => pos[q] < pos[k]
    BY <2>1 DEF Places, k
  <2> QED BY <1>1, <1>2, <2>1, <2>2, <2>3, <2>4
<1> QED BY <1>2, <1>3, <1>4, <1>5 DEF k, m

-----------------------------------------------------------------------------
(* The neighbours that compaction makes.                                    *)

(* The lines from a boot record to one of its epoch are of the epoch.         *)
LEMMA SameEpoch ==
  ASSUME NEW rs \in Seq(Lines), Chain(rs), NEW k \in 1..Len(rs),
         NEW i \in EpochOf(rs, k)..k
  PROVE  /\ i \in 1..Len(rs) /\ EpochOf(rs, i) = EpochOf(rs, k) /\ rs[i].boot = rs[k].boot
         /\ (i # EpochOf(rs, k) => rs[i].kind # "boot")
<1> DEFINE e == EpochOf(rs, k)
<1>1. /\ e \in 1..k /\ rs[e].kind = "boot"
      /\ \A j \in (e + 1)..k : rs[j].kind # "boot"
  BY EpochIs
<1>2. rs[k].boot = rs[e].boot
  BY EpochBoot
<1> HIDE DEF e
<1>3. Len(rs) \in Nat /\ k \in Nat /\ e \in Nat /\ i \in Nat /\ e <= i /\ i <= k /\ k <= Len(rs)
  BY <1>1 DEF e
<1>4. i \in 1..Len(rs) /\ e \in 1..i
  BY <1>1, <1>3
<1>5. \A j \in (e + 1)..i : j \in (e + 1)..k
  BY <1>3
<1>6. EpochOf(rs, i) = e
  BY <1>1, <1>4, <1>5, EpochIs
<1>7. rs[i].boot = rs[e].boot
  BY <1>4, <1>6, EpochBoot
<1>8. i # e => i \in (e + 1)..k
  BY <1>3
<1> QED BY <1>1, <1>2, <1>4, <1>6, <1>7, <1>8 DEF e

(* An epoch with a line before the cutoff has a baseline, which is the only    *)
(* one of those lines to be kept; only checkpoints follow it among them.      *)
LEMMA BaselineKept ==
  ASSUME NEW rs \in Seq(Lines), Chain(rs), NEW c \in Nat, NEW j \in 1..Len(rs),
         Wanted(rs, c, j), rs[j].t < c, rs[j].kind # "boot"
  PROVE  \E b \in 1..Len(rs) :
           /\ b \in Kept(rs, c) /\ EpochOf(rs, b) = EpochOf(rs, j) /\ rs[b].kind = "sample"
           /\ rs[b].t < c
           /\ \A i \in 1..Len(rs) :
                EpochOf(rs, i) = EpochOf(rs, j) /\ rs[i].t < c /\ rs[i].kind # "boot" /\ i # b
                  => i \notin Kept(rs, c) /\ (i > b => rs[i].kind = "check")
<1> DEFINE e == EpochOf(rs, j)
           B == Before(rs, c, j)
           b == Max(B)
<1>1. DOMAIN rs = 1..Len(rs) /\ Len(rs) \in Nat /\ \A i \in 1..Len(rs) : rs[i] \in Lines
  OBVIOUS
<1>2. \A i \in 1..Len(rs) : rs[i].t \in Nat /\ rs[i].kind \in {"boot", "sample", "check"}
  BY <1>1, LineFields
<1>3. e \in 1..j /\ rs[e].kind = "boot"
  BY EpochIs
<1> DEFINE f == e + 1
<1>4. e # j /\ f \in EpochOf(rs, j)..j /\ f # e /\ e \in 1..(Len(rs) - 1) /\ f <= j
  BY <1>1, <1>3
<1>5. f \in 1..Len(rs) /\ EpochOf(rs, f) = e
  BY <1>4, SameEpoch
<1>6. rs[f].kind = "sample"
  BY <1>3, <1>4 DEF Chain, Link
<1>7. rs[f].t < c
  <2>1. rs[f].t <= rs[j].t
    BY <1>4, <1>5 DEF Chain
  <2> QED BY <1>2, <1>5, <2>1
<1>8. B \subseteq 1..Len(rs) /\ f \in B
  BY <1>1, <1>5, <1>6, <1>7 DEF Before, Epoch
<1>9. b \in B /\ \A i \in B : i <= b
  <2> HIDE DEF B
  <2> QED BY <1>1, <1>8, MaxPlace
<1>10. b \in 1..Len(rs) /\ EpochOf(rs, b) = e /\ rs[b].kind = "sample" /\ rs[b].t < c
  BY <1>1, <1>9 DEF Before, Epoch
<1> HIDE DEF b, f
<1>11. ASSUME NEW i \in 1..Len(rs), EpochOf(rs, i) = e
       PROVE  Epoch(rs, i) = Epoch(rs, j) /\ Before(rs, c, i) = B /\ Wanted(rs, c, i)
  <2>1. Epoch(rs, i) = Epoch(rs, j)
    BY <1>11 DEF Epoch
  <2>2. rs[i].boot = rs[e].boot /\ rs[j].boot = rs[e].boot
    BY <1>11, EpochBoot
  <2> QED BY <2>1, <2>2 DEF Before, Wanted
<1>12. b \in Kept(rs, c)
  <2>1. Baseline(rs, c, b)
    BY <1>9, <1>10, <1>11 DEF Baseline, b
  <2> QED BY <1>1, <1>10, <1>11, <2>1 DEF Kept
<1>13. ASSUME NEW i \in 1..Len(rs), EpochOf(rs, i) = e, rs[i].t < c, rs[i].kind # "boot", i # b
       PROVE  i \notin Kept(rs, c) /\ (i > b => rs[i].kind = "check")
  <2>1. Before(rs, c, i) = B
    BY <1>11, <1>13
  <2>2. ~Baseline(rs, c, i)
    BY <1>13, <2>1 DEF Baseline, b
  <2>3. ~(rs[i].t >= c)
    BY <1>2, <1>13
  <2>4. i > b => rs[i].kind # "sample"
    <3>1. rs[i].kind = "sample" => i \in B
      BY <1>1, <1>13 DEF Before, Epoch
    <3> QED BY <1>1, <1>9, <1>10, <3>1
  <2> QED BY <1>2, <1>13, <2>2, <2>3, <2>4 DEF Kept
<1> QED BY <1>10, <1>12, <1>13

(* A line and the one before it among those kept: neighbours before, or the    *)
(* baseline after its boot record, or only checkpoints were between them.     *)
LEMMA KeptNear ==
  ASSUME NEW rs \in Seq(Lines), Chain(rs), NEW c \in Nat,
         NEW p \in Kept(rs, c), NEW k \in Kept(rs, c), p < k, rs[k].kind # "boot",
         \A j \in (p + 1)..(k - 1) : j \notin Kept(rs, c)
  PROVE  \/ p = k - 1
         \/ rs[k].t < c /\ rs[k].kind = "sample" /\ rs[p].kind = "boot"
         \/ \A j \in (p + 1)..(k - 1) : rs[j].kind = "check"
<1> DEFINE e == EpochOf(rs, k)
           j == k - 1
<1>1. /\ p \in 1..Len(rs) /\ k \in 1..Len(rs) /\ p \in Nat /\ k \in Nat /\ Len(rs) \in Nat
      /\ DOMAIN rs = 1..Len(rs) /\ Wanted(rs, c, k)
  BY DEF Kept
<1>2. \A i \in 1..Len(rs) : rs[i].t \in Nat
  <2>1. \A i \in 1..Len(rs) : rs[i] \in Lines
    OBVIOUS
  <2> QED BY <2>1, LineFields
<1>3. e \in 1..k /\ rs[e].kind = "boot" /\ e \in Kept(rs, c)
  BY <1>1, EpochIs, KeptBoot
<1>4. e # k /\ e \notin (p + 1)..(k - 1)
  BY <1>3
<1>5. e \in 1..p
  BY <1>1, <1>3, <1>4
<1> SUFFICES ASSUME p # k - 1
             PROVE  \/ rs[k].t < c /\ rs[k].kind = "sample" /\ rs[p].kind = "boot"
                    \/ \A i \in (p + 1)..(k - 1) : rs[i].kind = "check"
  OBVIOUS
<1>6. j \in (p + 1)..(k - 1) /\ j \in e..k /\ j # e /\ j \in Nat
  BY <1>1, <1>5
<1>7. \A i \in e..k : /\ i \in 1..Len(rs) /\ EpochOf(rs, i) = e /\ rs[i].boot = rs[k].boot
                      /\ (i # e => rs[i].kind # "boot")
  BY <1>1, SameEpoch
<1> HIDE DEF e, j
<1>8. Wanted(rs, c, j) /\ rs[j].kind # "boot"
  <2>1. Epoch(rs, j) = Epoch(rs, k)
    BY <1>6, <1>7 DEF Epoch, e
  <2> QED BY <1>1, <1>6, <1>7, <2>1 DEF Wanted
<1>9. rs[j].t < c
  <2>1. j \notin Kept(rs, c) /\ j \in 1..Len(rs)
    BY <1>6, <1>7
  <2>2. ~(rs[j].t >= c)
    BY <1>1, <1>8, <2>1 DEF Kept
  <2> QED BY <1>2, <2>1, <2>2
<1>10. PICK b \in 1..Len(rs) :
           /\ b \in Kept(rs, c) /\ EpochOf(rs, b) = e /\ rs[b].kind = "sample" /\ rs[b].t < c
           /\ \A i \in 1..Len(rs) :
                EpochOf(rs, i) = e /\ rs[i].t < c /\ rs[i].kind # "boot" /\ i # b
                  => i \notin Kept(rs, c) /\ (i > b => rs[i].kind = "check")
  <2>1. j \in 1..Len(rs) /\ EpochOf(rs, j) = e
    BY <1>6, <1>7
  <2> QED BY <1>8, <1>9, <2>1, BaselineKept
<1>11. \A i \in e..j : i \in e..k /\ rs[i].t < c
  <2>1. ASSUME NEW i \in e..j PROVE i \in e..k /\ rs[i].t < c
    <3>1. i \in e..k /\ i <= j
      BY <1>1, <1>3, <1>6 DEF j
    <3>2. i \in 1..Len(rs) /\ j \in 1..Len(rs)
      BY <1>6, <1>7, <3>1
    <3>3. rs[i].t <= rs[j].t
      BY <3>1, <3>2 DEF Chain
    <3> QED BY <1>2, <1>9, <3>1, <3>2, <3>3
  <2> QED BY <2>1
<1>12. p \in e..j /\ \A i \in (p + 1)..(k - 1) : i \in e..j /\ i # e
  BY <1>1, <1>3, <1>5, <1>6 DEF j
<1>13. CASE rs[k].t >= c
  <2>1. b < k
    <3>1. CASE b >= k
      <4>1. rs[k].t <= rs[b].t
        BY <1>1, <3>1 DEF Chain
      <4> QED BY <1>1, <1>2, <1>10, <1>13, <4>1
    <3> QED BY <1>1, <3>1
  <2>2. b \notin (p + 1)..(k - 1)
    BY <1>10
  <2>3. b <= p
    BY <1>1, <2>1, <2>2
  <2>4. b = p
    <3>1. CASE b # p
      <4>1. p # e
        <5>1. e <= b /\ e # b
          <6>1. EpochOf(rs, b) \in 1..b
            BY <1>10, EpochIs
          <6> QED BY <1>3, <1>10, <6>1
        <5> QED BY <1>1, <1>3, <2>3, <3>1, <5>1
      <4> QED BY <1>7, <1>10, <1>11, <1>12, <3>1, <4>1
    <3> QED BY <3>1
  <2>5. ASSUME NEW i \in (p + 1)..(k - 1) PROVE rs[i].kind = "check"
    <3>1. i \in e..j /\ i # e /\ i > b /\ i # b
      BY <1>1, <1>12, <2>4
    <3> QED BY <1>7, <1>10, <1>11, <3>1
  <2> QED BY <2>5
<1>14. CASE ~(rs[k].t >= c)
  <2>1. rs[k].t < c /\ k \in e..k /\ EpochOf(rs, k) = e
    BY <1>1, <1>2, <1>3, <1>14 DEF e
  <2>2. k = b
    BY <1>1, <1>10, <2>1
  <2>3. p = e
    <3>1. CASE p # e
      BY <1>1, <1>7, <1>10, <1>11, <1>12, <2>2, <3>1
    <3> QED BY <3>1
  <2> QED BY <1>3, <1>10, <2>1, <2>2, <2>3
<1> QED BY <1>13, <1>14

(* The last line kept of a stream that ends with the live process: the last    *)
(* one, or a sample that only checkpoints followed.                          *)
LEMMA KeptTail ==
  ASSUME NEW rs \in Seq(Lines), Chain(rs), NEW c \in Nat, NEW m \in 1..Len(rs), m = Len(rs),
         rs[m].boot = boot, rs[m].kind # "boot"
  PROVE  \E b \in 1..Len(rs) :
           /\ b \in Kept(rs, c) /\ \A i \in (b + 1)..m : i \notin Kept(rs, c)
           /\ rs[b].boot = boot
           /\ b = m \/ (rs[b].kind = "sample" /\ \A i \in (b + 1)..m : rs[i].kind = "check")
<1>1. DOMAIN rs = 1..Len(rs) /\ Len(rs) \in Nat /\ \A i \in 1..Len(rs) : rs[i] \in Lines
  OBVIOUS
<1>2. \A i \in 1..Len(rs) : rs[i].t \in Nat
  BY <1>1, LineFields
<1>3. Wanted(rs, c, m)
  BY DEF Wanted
<1>4. CASE rs[m].t >= c
  <2>1. m \in Kept(rs, c)
    BY <1>1, <1>3, <1>4 DEF Kept
  <2>2. (m + 1)..m = {}
    BY <1>1
  <2> QED BY <2>1, <2>2
<1>5. CASE ~(rs[m].t >= c)
  <2> DEFINE e == EpochOf(rs, m)
  <2>1. rs[m].t < c
    BY <1>2, <1>5
  <2>2. PICK b \in 1..Len(rs) :
           /\ b \in Kept(rs, c) /\ EpochOf(rs, b) = e /\ rs[b].kind = "sample" /\ rs[b].t < c
           /\ \A i \in 1..Len(rs) :
                EpochOf(rs, i) = e /\ rs[i].t < c /\ rs[i].kind # "boot" /\ i # b
                  => i \notin Kept(rs, c) /\ (i > b => rs[i].kind = "check")
    BY <1>3, <2>1, BaselineKept
  <2>3. e \in 1..b /\ e \in 1..m
    BY <2>2, EpochIs
  <2>4. b \in e..m
    BY <1>1, <2>3
  <2>5. rs[b].boot = rs[m].boot
    BY <2>4, SameEpoch
  <2>6. ASSUME NEW i \in (b + 1)..m PROVE i \notin Kept(rs, c) /\ rs[i].kind = "check"
    <3>1. i \in e..m /\ i # e /\ i > b /\ i # b /\ i <= m /\ i \in 1..Len(rs)
      BY <1>1, <2>3
    <3>2. EpochOf(rs, i) = e /\ rs[i].kind # "boot"
      BY <3>1, SameEpoch
    <3>3. rs[i].t <= rs[m].t
      BY <3>1 DEF Chain
    <3>4. rs[i].t < c
      BY <1>2, <2>1, <3>1, <3>3
    <3> QED BY <2>2, <3>1, <3>2, <3>4
  <2> QED BY <2>2, <2>5, <2>6
<1> QED BY <1>4, <1>5

-----------------------------------------------------------------------------
(* What the lines of a file show of the samples taken.  A boot record stands   *)
(* for a counter of zero, a checkpoint for that of its sample.                *)
Takes == [boot : 0..MaxBoots, t : 0..MaxTime, v : 0..MaxCount]

Shows(tk, l) == IF l.kind = "boot" THEN 0 ELSE tk[l.n].v

Gain(tk, n) ==
  LET earlier == {m \in 1..(n - 1) : tk[m].boot = tk[n].boot}
  IN  tk[n].v - (IF earlier = {} THEN 0 ELSE tk[Max(earlier)].v)

(* The lines of the samples taken, up to a process.                          *)
Told(tk, b) ==
  {l \in Lines : /\ l.boot <= b
                 /\ l.kind # "boot" => l.n \in 1..Len(tk) /\ l.boot = tk[l.n].boot
                 /\ l.kind = "sample" => l.v = tk[l.n].v}

(* A line and the next: of one process, whose counter never falls and that a   *)
(* checkpoint repeats; from the floor on the difference is what was gained.    *)
Steps(tk, fl) ==
  {p \in Lines \X Lines :
     /\ p[1].boot = p[2].boot /\ Shows(tk, p[1]) <= Shows(tk, p[2])
     /\ p[2].kind = "check" => Shows(tk, p[1]) = Shows(tk, p[2])
     /\ p[2].t >= fl => Shows(tk, p[2]) - Shows(tk, p[1]) = Gain(tk, p[2].n)}

Stream(f, tk, fl, b) == f \in Seq(Told(tk, b)) /\ Tied(f, Steps(tk, fl))

(* What a line shows is a count.                                            *)
LEMMA ShowsIs ==
  ASSUME NEW tk \in Seq(Takes), NEW b, NEW l \in Told(tk, b)
  PROVE  Shows(tk, l) \in 0..MaxCount /\ Shows(tk, l) \in Nat /\ l \in Lines
<1>1. 0 \in 0..MaxCount /\ MaxCount \in Nat
  BY Bounds
<1>2. l.kind # "boot" => tk[l.n] \in Takes
  BY DEF Told
<1> QED BY <1>1, <1>2 DEF Shows, Takes, Told

(* Two neighbours.                                                          *)
LEMMA StepIs ==
  ASSUME NEW tk, NEW fl, NEW x, NEW y, <<x, y>> \in Steps(tk, fl)
  PROVE  /\ x.boot = y.boot /\ Shows(tk, x) <= Shows(tk, y)
         /\ y.kind = "check" => Shows(tk, x) = Shows(tk, y)
         /\ y.t >= fl => Shows(tk, y) - Shows(tk, x) = Gain(tk, y.n)
BY DEF Steps

(* Checkpoints repeat what came before them.                                *)
LEMMA ChecksSame ==
  ASSUME NEW tk \in Seq(Takes), NEW fl, NEW b, NEW rs, Stream(rs, tk, fl, b),
         NEW p \in 1..Len(rs), NEW q \in p..Len(rs),
         \A k \in (p + 1)..q : rs[k].kind = "check"
  PROVE  Shows(tk, rs[p]) = Shows(tk, rs[q])
<1> DEFINE Q == {n \in Nat : p + n <= q => Shows(tk, rs[p + n]) = Shows(tk, rs[p])}
<1>1. rs \in Seq(Told(tk, b)) /\ Tied(rs, Steps(tk, fl)) /\ Len(rs) \in Nat
  BY DEF Stream
<1>2. 0 \in Q
  OBVIOUS
<1>3. ASSUME NEW n \in 1..(q - p), n - 1 \in Q PROVE n \in Q
  <2>1. /\ p + (n - 1) \in 1..(Len(rs) - 1) /\ p + n \in (p + 1)..q
        /\ (p + (n - 1)) + 1 = p + n /\ n \in Nat /\ n - 1 \in Nat /\ p + (n - 1) <= q
    BY <1>1
  <2>2. Shows(tk, rs[p + (n - 1)]) = Shows(tk, rs[p])
    BY <1>3, <2>1
  <2>3. rs[p + n].kind = "check"
    BY <2>1
  <2>4. <<rs[p + (n - 1)], rs[p + n]>> \in Steps(tk, fl)
    BY <1>1, <2>1, <2>3 DEF Tied
  <2>5. Shows(tk, rs[p + n]) = Shows(tk, rs[p])
    BY <2>2, <2>3, <2>4, StepIs
  <2> QED BY <2>1, <2>5
<1>4. q - p \in Nat /\ q - p \in 0..(q - p) /\ p + (q - p) = q
  BY <1>1
<1> HIDE DEF Q
<1>5. q - p \in Q
  BY <1>2, <1>3, <1>4, Induct
<1> QED BY <1>4, <1>5 DEF Q

(* The neighbours that compaction makes are as those it found.               *)
LEMMA KeptStep ==
  ASSUME NEW tk \in Seq(Takes), NEW fl \in Nat, NEW b, NEW rs, Stream(rs, tk, fl, b),
         Chain(rs), Closed(rs), NEW c \in 1..fl,
         NEW p \in Kept(rs, c), NEW k \in Kept(rs, c), p < k, rs[k].kind # "boot",
         \A j \in (p + 1)..(k - 1) : j \notin Kept(rs, c)
  PROVE  <<rs[p], rs[k]>> \in Steps(tk, fl)
<1>1. /\ rs \in Seq(Told(tk, b)) /\ Tied(rs, Steps(tk, fl)) /\ Told(tk, b) \subseteq Lines
      /\ Len(rs) \in Nat /\ c \in Nat
  BY DEF Stream, Told
<1>2. rs \in Seq(Lines)
  BY <1>1, SeqMonotonic
<1>3. p \in 1..Len(rs) /\ k \in 1..Len(rs)
  BY <1>1 DEF Kept
<1>4. rs[p] \in Told(tk, b) /\ rs[k] \in Told(tk, b)
  BY <1>1, <1>3
<1>5. /\ Shows(tk, rs[p]) \in Nat /\ Shows(tk, rs[k]) \in Nat
      /\ rs[p] \in Lines /\ rs[k] \in Lines
  BY <1>4, ShowsIs
<1>6. rs[k].t \in Nat
  BY <1>5, LineFields
<1>7. rs[p].boot = rs[k].boot
  BY <1>1, <1>2, KeptLink DEF Link
<1>8. /\ k - 1 \in 1..(Len(rs) - 1) /\ (k - 1) + 1 = k /\ k - 1 \in p..Len(rs)
  BY <1>1, <1>3
<1>9. <<rs[k - 1], rs[k]>> \in Steps(tk, fl)
  BY <1>1, <1>8 DEF Tied
<1>10. \/ p = k - 1
       \/ rs[k].t < c /\ rs[k].kind = "sample" /\ rs[p].kind = "boot"
       \/ \A j \in (p + 1)..(k - 1) : rs[j].kind = "check"
  BY <1>1, <1>2, KeptNear
<1>11. CASE p = k - 1
  BY <1>9, <1>11
<1>12. CASE rs[k].t < c /\ rs[k].kind = "sample" /\ rs[p].kind = "boot"
  <2>1. Shows(tk, rs[p]) = 0 /\ ~(rs[k].t >= fl)
    BY <1>1, <1>6, <1>12 DEF Shows
  <2> QED BY <1>5, <1>7, <1>12, <2>1 DEF Steps
<1>13. CASE \A j \in (p + 1)..(k - 1) : rs[j].kind = "check"
  <2>1. Shows(tk, rs[p]) = Shows(tk, rs[k - 1])
    BY <1>3, <1>8, <1>13, ChecksSame
  <2>2. /\ Shows(tk, rs[p]) <= Shows(tk, rs[k])
        /\ rs[k].kind = "check" => Shows(tk, rs[p]) = Shows(tk, rs[k])
        /\ rs[k].t >= fl => Shows(tk, rs[k]) - Shows(tk, rs[p]) = Gain(tk, rs[k].n)
    BY <1>9, <2>1, StepIs
  <2> QED BY <1>5, <1>7, <2>2 DEF Steps
<1> QED BY <1>10, <1>11, <1>12, <1>13

(* What compaction keeps of a stream is one.                                 *)
LEMMA RetainedStream ==
  ASSUME NEW tk \in Seq(Takes), NEW fl \in Nat, NEW b, NEW rs, Stream(rs, tk, fl, b),
         Chain(rs), Closed(rs), NEW c \in 1..fl
  PROVE  Stream(Retained(rs, c), tk, fl, b)
<1> DEFINE K == Kept(rs, c)
           out == Only(rs, K)
<1>1. /\ rs \in Seq(Told(tk, b)) /\ Tied(rs, Steps(tk, fl)) /\ Len(rs) \in Nat
  BY DEF Stream
<1>2. out \in Seq(Told(tk, b)) /\ \E pos : Places(pos, out, rs, K, Len(rs))
  BY <1>1, OnlyPlaces
<1>3. PICK pos : Places(pos, out, rs, K, Len(rs))
  BY <1>2
<1> HIDE DEF K, out
<1>4. \A i \in 1..(Len(out) - 1) :
        /\ i \in 1..Len(out) /\ i + 1 \in 1..Len(out) /\ pos[i] < pos[i + 1]
        /\ \A j \in (pos[i] + 1)..(pos[i + 1] - 1) : j \notin K
  BY <1>1, <1>2, <1>3, PlacesNext
<1>5. \A i \in 1..Len(out) : pos[i] \in K /\ out[i] = rs[pos[i]] /\ pos[i] \in 1..Len(rs)
  BY <1>3 DEF Places
<1>6. ASSUME NEW i \in 1..(Len(out) - 1), out[i + 1].kind # "boot"
      PROVE  <<out[i], out[i + 1]>> \in Steps(tk, fl)
  <2>1. /\ i \in 1..Len(out) /\ i + 1 \in 1..Len(out) /\ pos[i] < pos[i + 1]
        /\ \A j \in (pos[i] + 1)..(pos[i + 1] - 1) : j \notin K
    BY <1>4
  <2>2. pos[i] \in K /\ pos[i + 1] \in K /\ out[i] = rs[pos[i]] /\ out[i + 1] = rs[pos[i + 1]]
    BY <1>5, <2>1
  <2>3. <<rs[pos[i]], rs[pos[i + 1]]>> \in Steps(tk, fl)
    BY <1>6, <2>1, <2>2, KeptStep DEF K
  <2> QED BY <2>2, <2>3
<1>7. ASSUME NEW i \in 1..Len(out), NEW j \in 1..Len(out), i < j, out[j].kind = "boot"
      PROVE  out[i].boot < out[j].boot
  <2>1. pos[i] < pos[j] /\ pos[i] \in 1..Len(rs) /\ pos[j] \in 1..Len(rs)
    BY <1>3, <1>5, <1>7 DEF Places
  <2> QED BY <1>1, <1>5, <1>7, <2>1 DEF Tied
<1>8. Tied(out, Steps(tk, fl))
  BY <1>6, <1>7 DEF Tied
<1> QED BY <1>2, <1>8 DEF Stream, Retained, out, K

(* Before a line that is not a boot record stands the sample it repeats.      *)
LEMMA SampleBefore ==
  ASSUME NEW rs \in Seq(Lines), Chain(rs), NEW i \in 1..Len(rs), rs[i].kind # "boot"
  PROVE  \E j \in 1..i : /\ rs[j].kind = "sample" /\ rs[j].boot = rs[i].boot
                         /\ \A k \in (j + 1)..i : rs[k].kind = "check"
<1> DEFINE Has(n) == n \in 1..Len(rs) /\ rs[n].kind # "boot" =>
             \E j \in 1..n : /\ rs[j].kind = "sample" /\ rs[j].boot = rs[n].boot
                             /\ \A k \in (j + 1)..n : rs[k].kind = "check"
           Q == {n \in Nat : Has(n)}
<1>1. Len(rs) \in Nat
  OBVIOUS
<1>2. 0 \in Q
  BY <1>1
<1>3. ASSUME NEW n \in 1..Len(rs), n - 1 \in Q PROVE n \in Q
  <2> SUFFICES ASSUME rs[n].kind # "boot"
               PROVE  \E j \in 1..n : /\ rs[j].kind = "sample" /\ rs[j].boot = rs[n].boot
                                      /\ \A k \in (j + 1)..n : rs[k].kind = "check"
    BY <1>1
  <2>1. rs[n].kind \in {"boot", "sample", "check"}
    BY LineFields
  <2>2. CASE rs[n].kind = "sample"
    <3>1. n \in 1..n /\ \A k \in (n + 1)..n : FALSE
      BY <1>1
    <3> QED BY <2>2, <3>1
  <2>3. CASE rs[n].kind = "check"
    <3>1. n # 1 /\ n - 1 \in 1..(Len(rs) - 1) /\ (n - 1) + 1 = n
      BY <1>1, <2>3 DEF Chain
    <3>2. rs[n - 1].kind # "boot" /\ rs[n - 1].boot = rs[n].boot
      BY <2>3, <3>1 DEF Chain, Link
    <3>3. PICK j \in 1..(n - 1) : /\ rs[j].kind = "sample" /\ rs[j].boot = rs[n - 1].boot
                                  /\ \A k \in (j + 1)..(n - 1) : rs[k].kind = "check"
      BY <1>1, <1>3, <3>1, <3>2
    <3>4. j \in 1..n /\ \A k \in (j + 1)..n : k = n \/ k \in (j + 1)..(n - 1)
      BY <1>1, <3>3
    <3> QED BY <2>3, <3>2, <3>3, <3>4
  <2> QED BY <2>1, <2>2, <2>3
<1> HIDE DEF Q
<1>4. \A n \in 0..Len(rs) : n \in Q
  BY <1>1, <1>2, <1>3, Induct
<1>5. i \in 0..Len(rs)
  BY <1>1
<1> QED BY <1>4, <1>5 DEF Q

(* The state that compaction hands to the store is what the last line shows.  *)
LEMMA LiveStateLast ==
  ASSUME NEW tk \in Seq(Takes), NEW fl, NEW b, NEW rs, Stream(rs, tk, fl, b), Chain(rs),
         NEW m \in 1..Len(rs), m = Len(rs), rs[m].boot = boot, rs[m].kind # "boot"
  PROVE  LiveState(rs) = Shows(tk, rs[m])
<1> DEFINE mine == {i \in 1..Len(rs) : rs[i].kind = "sample" /\ rs[i].boot = boot}
<1>1. /\ rs \in Seq(Told(tk, b)) /\ Told(tk, b) \subseteq Lines /\ Len(rs) \in Nat
      /\ DOMAIN rs = 1..Len(rs)
  BY DEF Stream, Told
<1>2. rs \in Seq(Lines)
  BY <1>1, SeqMonotonic
<1>3. PICK j \in 1..m : /\ rs[j].kind = "sample" /\ rs[j].boot = rs[m].boot
                        /\ \A k \in (j + 1)..m : rs[k].kind = "check"
  BY <1>2, SampleBefore
<1>4. j \in mine /\ mine \subseteq 1..Len(rs)
  BY <1>1, <1>3
<1>5. Max(mine) \in mine /\ \A i \in mine : i <= Max(mine)
  BY <1>1, <1>4, MaxPlace
<1>6. Max(mine) = j
  <2>1. Max(mine) \in 1..Len(rs) /\ rs[Max(mine)].kind = "sample" /\ j <= Max(mine)
    BY <1>4, <1>5
  <2>2. Max(mine) \notin (j + 1)..m
    BY <1>3, <2>1
  <2> QED BY <1>1, <1>3, <2>1, <2>2
<1>7. LiveState(rs) = rs[j].v
  BY <1>1, <1>4, <1>6 DEF LiveState
<1>8. j \in 1..Len(rs) /\ m \in j..Len(rs) /\ rs[j] \in Told(tk, b)
  BY <1>1, <1>3
<1>9. Shows(tk, rs[j]) = rs[j].v
  BY <1>3, <1>8 DEF Shows, Told
<1>10. Shows(tk, rs[j]) = Shows(tk, rs[m])
  BY <1>3, <1>8, ChecksSame
<1> QED BY <1>7, <1>9, <1>10

-----------------------------------------------------------------------------
(* The scanner's bound is the time of a line that was written whole.          *)
LEMMA PassBound ==
  ASSUME NEW k \in Nat, NEW b \in None..MaxTime, NEW f \in Seq(Below(k, b))
  PROVE  Pass(f).bound <= b
<1> DEFINE m == Len(f)
           S == Below(k, b)
<1>1. m \in Nat /\ \A n \in 1..m : f[n] \in S
  OBVIOUS
<1>2. S \subseteq Lines
  BY BelowLines
<1>3. PICK A : Passed(A, f) /\ Pass(f) = A[m]
  BY <1>2, PassIs
<1>4. A[0] = Fresh /\ \A n \in 1..m : A[n] = Scanned(A[n - 1], f[n])
  BY <1>3 DEF Passed
<1> HIDE DEF m, S
<1> DEFINE Q == {n \in 0..m : Good(A[n], S) /\ A[n].bound <= b}
<1>5. 0 \in Q
  <2>1. Good(Fresh, S) /\ Fresh.bound = None
    BY <1>2, FreshGood DEF Fresh
  <2> QED BY <1>1, <1>4, <2>1, Bounds
<1>6. ASSUME NEW n \in 1..m, n - 1 \in Q PROVE n \in Q
  <2>1. Good(A[n - 1], S) /\ f[n] \in S /\ A[n] = Scanned(A[n - 1], f[n]) /\ A[n - 1].bound <= b
    BY <1>1, <1>4, <1>6
  <2>2. /\ Good(A[n], S)
        /\ A[n].bound = A[n - 1].bound \/ (f[n].form \notin {"torn", "junk"} /\ A[n].bound = f[n].t)
    BY <1>2, <2>1, ScannedGood
  <2>3. f[n].form \notin {"torn", "junk"} => f[n].t <= b
    BY <2>1 DEF S, Below
  <2> QED BY <1>1, <2>1, <2>2, <2>3
<1>7. m \in Q
  <2> HIDE DEF Q
  <2>1. \A n \in 0..m : n \in Q
    BY <1>1, <1>5, <1>6, Induct
  <2> QED BY <1>1, <2>1
<1> QED BY <1>3, <1>7 DEF m

-----------------------------------------------------------------------------
(* What is written to a stream.                                             *)

(* A line that may be written to f.                                         *)
Fits(f, l, tk, fl) ==
  /\ l.kind # "boot" /\ f # <<>> => <<Last(f), l>> \in Steps(tk, fl)
  /\ l.kind = "boot" => \A i \in 1..Len(f) : f[i].boot < l.boot

(* Another form of a line.                                                   *)
LEMMA ToldReform ==
  ASSUME NEW tk, NEW b, NEW l \in Told(tk, b), NEW g \in {"ok", "late", "bare", "torn", "junk"},
         NEW r, r = [l EXCEPT !.form = g]
  PROVE  /\ r \in Told(tk, b) /\ r.kind = l.kind /\ r.t = l.t /\ r.boot = l.boot /\ r.n = l.n
         /\ Shows(tk, r) = Shows(tk, l) /\ r.form = g
<1>1. l \in Lines
  BY DEF Told
<1>2. l \in Records /\ Sound(l)
  BY <1>1 DEF Lines
<1>3. /\ r \in Records /\ r.kind = l.kind /\ r.t = l.t /\ r.boot = l.boot /\ r.n = l.n
      /\ r.v = l.v /\ r.form = g
  BY <1>2 DEF Records
<1>4. r \in Lines
  BY <1>2, <1>3 DEF Lines, Sound
<1>5. Shows(tk, r) = Shows(tk, l)
  BY <1>3 DEF Shows
<1> QED BY <1>3, <1>4, <1>5 DEF Told

(* A line that fits is added.                                                *)
LEMMA StreamAppend ==
  ASSUME NEW tk, NEW fl, NEW b, NEW f, Stream(f, tk, fl, b), NEW l \in Told(tk, b),
         Fits(f, l, tk, fl)
  PROVE  Stream(Append(f, l), tk, fl, b)
<1>1. f \in Seq(Told(tk, b)) /\ Tied(f, Steps(tk, fl))
  BY DEF Stream
<1>2. Append(f, l) \in Seq(Told(tk, b))
  BY <1>1
<1>3. Tied(Append(f, l), Steps(tk, fl))
  BY <1>1, TiedAppend DEF Fits
<1> QED BY <1>2, <1>3 DEF Stream

(* The last line of a stream takes another form.                             *)
LEMMA StreamReform ==
  ASSUME NEW tk, NEW fl, NEW b, NEW f, Stream(f, tk, fl, b), f # <<>>,
         NEW g \in {"ok", "late", "bare", "torn", "junk"}
  PROVE  Stream(Append(Front(f), [Last(f) EXCEPT !.form = g]), tk, fl, b)
<1> DEFINE T == Told(tk, b)
           q == Front(f)
           r == [Last(f) EXCEPT !.form = g]
<1>1. f \in Seq(T) /\ Tied(f, Steps(tk, fl))
  BY DEF Stream
<1>2. /\ Len(f) \in Nat \ {0} /\ Last(f) = f[Len(f)] /\ Last(f) \in T
      /\ q \in Seq(T) /\ Len(q) = Len(f) - 1 /\ \A i \in 1..(Len(f) - 1) : q[i] = f[i]
  BY <1>1, LastFront
<1>3. /\ r \in T /\ r.kind = Last(f).kind /\ r.t = Last(f).t /\ r.boot = Last(f).boot
      /\ r.n = Last(f).n /\ Shows(tk, r) = Shows(tk, Last(f))
  BY <1>2, ToldReform
<1> HIDE DEF q, r
<1>4. Begins(q, f)
  BY <1>2 DEF Begins
<1>5. Stream(q, tk, fl, b)
  BY <1>1, <1>2, <1>4, TiedBegins DEF Stream
<1>6. ASSUME r.kind # "boot", q # <<>> PROVE <<Last(q), r>> \in Steps(tk, fl)
  <2>1. Len(q) \in 1..(Len(f) - 1) /\ Last(q) = q[Len(q)]
    <3>1. Len(q) \in Nat \ {0} /\ Last(q) = q[Len(q)]
      BY <1>2, <1>6, LastFront
    <3> QED BY <1>2, <3>1
  <2>2. Last(q) = f[Len(q)] /\ Len(q) + 1 = Len(f)
    BY <1>2, <2>1
  <2>3. <<Last(q), Last(f)>> \in Steps(tk, fl)
    BY <1>1, <1>2, <1>3, <1>6, <2>1, <2>2 DEF Tied
  <2>4. r \in Lines /\ Last(q) \in Lines /\ Last(f) \in Lines
    BY <1>2, <1>3, <2>1, <2>2 DEF Told
  <2>5. /\ Last(q).boot = Last(f).boot /\ Shows(tk, Last(q)) <= Shows(tk, Last(f))
        /\ Last(f).kind = "check" => Shows(tk, Last(q)) = Shows(tk, Last(f))
        /\ Last(f).t >= fl => Shows(tk, Last(f)) - Shows(tk, Last(q)) = Gain(tk, Last(f).n)
    BY <2>3, StepIs
  <2> QED BY <1>3, <2>4, <2>5 DEF Steps
<1>7. ASSUME r.kind = "boot", NEW i \in 1..Len(q) PROVE q[i].boot < r.boot
  <2>1. i \in 1..(Len(f) - 1) /\ i \in 1..Len(f) /\ Len(f) \in 1..Len(f) /\ i < Len(f)
    BY <1>2
  <2>2. f[i].boot < f[Len(f)].boot
    BY <1>1, <1>2, <1>3, <1>7, <2>1 DEF Tied
  <2> QED BY <1>2, <1>3, <2>1, <2>2
<1>8. Fits(q, r, tk, fl)
  BY <1>6, <1>7 DEF Fits
<1> QED BY <1>3, <1>5, <1>8, StreamAppend DEF q, r

(* A write of the next line leaves a stream, also when it first ends a line     *)
(* that has no terminator.                                                  *)
LEMMA WriteStream ==
  ASSUME NEW tk, NEW fl, NEW b, NEW f, Stream(f, tk, fl, b), NEW l \in Told(tk, b),
         Fits(f, l, tk, fl)
  PROVE  Stream(Write(f, l), tk, fl, b)
<1>1. CASE Unterminated(f)
  BY <1>1, StreamReform DEF Write, Unterminated
<1>2. CASE ~Unterminated(f)
  BY <1>2, StreamAppend DEF Write
<1> QED BY <1>1, <1>2

(* The same of separation, which leaves the file terminated.                 *)
LEMMA SeparatedStream ==
  ASSUME NEW tk, NEW fl, NEW b, NEW f, Stream(f, tk, fl, b)
  PROVE  Stream(Separated(f), tk, fl, b) /\ ~Unterminated(Separated(f))
<1>1. CASE ~Unterminated(f)
  BY <1>1 DEF Separated
<1>2. CASE Unterminated(f)
  <2>1. f # <<>>
    BY <1>2 DEF Unterminated
  <2>2. PICK g \in {"late", "junk"} : Separated(f) = Append(Front(f), [Last(f) EXCEPT !.form = g])
    BY <1>2 DEF Separated
  <2>3. f \in Seq(Told(tk, b))
    BY DEF Stream
  <2>4. Last(f) \in Told(tk, b) /\ Front(f) \in Seq(Told(tk, b))
    BY <2>1, <2>3, LastFront
  <2> DEFINE r == [Last(f) EXCEPT !.form = g]
  <2>5. r \in Told(tk, b) /\ r.form = g
    BY <2>4, ToldReform
  <2> HIDE DEF r
  <2>6. Last(Append(Front(f), r)) = r
    BY <2>4, <2>5 DEF Last
  <2>7. Separated(f) = Append(Front(f), r) /\ g \in {"ok", "late", "bare", "torn", "junk"}
    BY <2>2 DEF r
  <2>8. Stream(Append(Front(f), r), tk, fl, b)
    BY <2>1, <2>7, StreamReform DEF r
  <2>9. ~Unterminated(Separated(f))
    BY <2>5, <2>6, <2>7 DEF Unterminated
  <2> QED BY <2>7, <2>8, <2>9
<1> QED BY <1>1, <1>2

(* The same of a write that fails.                                          *)
LEMMA TailsStream ==
  ASSUME NEW tk, NEW fl, NEW b, NEW f, Stream(f, tk, fl, b), NEW l \in Told(tk, b),
         Fits(f, l, tk, fl), NEW z \in Tails(f, l)
  PROVE  Stream(z, tk, fl, b)
<1>1. ASSUME NEW g \in {"torn", "bare"} PROVE Stream(Write(f, [l EXCEPT !.form = g]), tk, fl, b)
  <2> DEFINE r == [l EXCEPT !.form = g]
  <2>1. /\ r \in Told(tk, b) /\ r.kind = l.kind /\ r.t = l.t /\ r.boot = l.boot /\ r.n = l.n
        /\ Shows(tk, r) = Shows(tk, l)
    BY ToldReform
  <2> HIDE DEF r
  <2>2. ASSUME l.kind # "boot", f # <<>> PROVE <<Last(f), r>> \in Steps(tk, fl)
    <3>1. <<Last(f), l>> \in Steps(tk, fl)
      BY <2>2 DEF Fits
    <3>2. Last(f) \in Lines /\ r \in Lines
      BY <2>1, <3>1 DEF Steps, Told
    <3>3. /\ Last(f).boot = l.boot /\ Shows(tk, Last(f)) <= Shows(tk, l)
          /\ l.kind = "check" => Shows(tk, Last(f)) = Shows(tk, l)
          /\ l.t >= fl => Shows(tk, l) - Shows(tk, Last(f)) = Gain(tk, l.n)
      BY <3>1, StepIs
    <3> QED BY <2>1, <3>2, <3>3 DEF Steps
  <2>3. Fits(f, r, tk, fl)
    BY <2>1, <2>2 DEF Fits
  <2> QED BY <2>1, <2>3, WriteStream DEF r
<1>2. \/ z \in {f, Write(f, l)}
      \/ z = Write(f, [l EXCEPT !.form = "torn"]) \/ z = Write(f, [l EXCEPT !.form = "bare"])
  BY DEF Tails
<1> QED BY <1>1, <1>2, WriteStream

-----------------------------------------------------------------------------
(* Later samples change nothing that was gained before.                      *)
LEMMA GainBegins ==
  ASSUME NEW tk \in Seq(Takes), NEW tk2 \in Seq(Takes), Begins(tk, tk2), NEW n \in 1..Len(tk)
  PROVE  Gain(tk2, n) = Gain(tk, n) /\ n \in 1..Len(tk2)
<1> DEFINE e == {m \in 1..(n - 1) : tk[m].boot = tk[n].boot}
           e2 == {m \in 1..(n - 1) : tk2[m].boot = tk2[n].boot}
<1>1. Len(tk) \in Nat /\ Len(tk2) \in Nat /\ Len(tk) <= Len(tk2)
  BY DEF Begins
<1>2. \A m \in 1..(n - 1) : m \in 1..Len(tk)
  BY <1>1
<1>3. \A m \in 1..Len(tk) : tk2[m] = tk[m]
  BY DEF Begins
<1>4. e2 = e
  BY <1>2, <1>3
<1>5. e # {} => Max(e) \in e
  <2>1. n - 1 \in Nat /\ e \subseteq 1..(n - 1)
    BY <1>1
  <2> HIDE DEF e
  <2> QED BY <2>1, MaxPlace
<1>6. e # {} => tk2[Max(e)] = tk[Max(e)]
  BY <1>2, <1>3, <1>5
<1>7. n \in 1..Len(tk2) /\ tk2[n] = tk[n]
  BY <1>1, <1>3
<1> QED BY <1>4, <1>6, <1>7 DEF Gain

(* A stream remains one when samples are taken, processes start and the floor  *)
(* rises.                                                                   *)
LEMMA StreamGrows ==
  ASSUME NEW tk \in Seq(Takes), NEW tk2 \in Seq(Takes), Begins(tk, tk2),
         NEW fl \in Nat, NEW fl2 \in Nat, fl <= fl2, NEW b \in Nat, NEW b2 \in Nat, b <= b2,
         NEW f, Stream(f, tk, fl, b)
  PROVE  Stream(f, tk2, fl2, b2)
<1>1. /\ f \in Seq(Told(tk, b)) /\ Tied(f, Steps(tk, fl)) /\ Len(f) \in Nat
      /\ \A m \in 1..Len(tk) : m \in 1..Len(tk2) /\ tk2[m] = tk[m]
      /\ \A i \in 1..Len(f) : f[i] \in Told(tk, b)
  <2>1. f \in Seq(Told(tk, b)) /\ Tied(f, Steps(tk, fl))
    BY DEF Stream
  <2>2. Len(tk) \in Nat /\ Len(tk2) \in Nat /\ Len(tk) <= Len(tk2)
    BY DEF Begins
  <2> QED BY <2>1, <2>2 DEF Begins
<1>2. ASSUME NEW l \in Told(tk, b)
      PROVE  l \in Told(tk2, b2) /\ Shows(tk2, l) = Shows(tk, l) /\ l.t \in Nat /\ l \in Lines
  <2>1. l \in Lines /\ l.boot <= b
    BY DEF Told
  <2>2. l.boot \in Nat /\ l.t \in Nat /\ (l.kind = "sample" => l.kind # "boot")
    BY <2>1, LineFields
  <2>3. l.boot <= b2
    BY <2>1, <2>2
  <2> QED BY <1>1, <2>1, <2>2, <2>3 DEF Told, Shows
<1>3. f \in Seq(Told(tk2, b2))
  BY <1>1, <1>2, SeqMonotonic
<1>4. ASSUME NEW i \in 1..(Len(f) - 1), f[i + 1].kind # "boot"
      PROVE  <<f[i], f[i + 1]>> \in Steps(tk2, fl2)
  <2> DEFINE x == f[i]
             y == f[i + 1]
  <2>1. x \in Told(tk, b) /\ y \in Told(tk, b) /\ <<x, y>> \in Steps(tk, fl)
    <3>1. i \in 1..Len(f) /\ i + 1 \in 1..Len(f)
      BY <1>1
    <3> QED BY <1>1, <1>4, <3>1 DEF Tied
  <2> HIDE DEF x, y
  <2>2. /\ x.boot = y.boot /\ Shows(tk, x) <= Shows(tk, y)
        /\ y.kind = "check" => Shows(tk, x) = Shows(tk, y)
        /\ y.t >= fl => Shows(tk, y) - Shows(tk, x) = Gain(tk, y.n)
    BY <2>1, StepIs
  <2>3. /\ Shows(tk2, x) = Shows(tk, x) /\ Shows(tk2, y) = Shows(tk, y) /\ y.t \in Nat
        /\ x \in Lines /\ y \in Lines
    BY <1>2, <2>1
  <2>4. y.n \in 1..Len(tk)
    BY <1>4, <2>1 DEF Told, y
  <2>5. Gain(tk2, y.n) = Gain(tk, y.n)
    BY <2>4, GainBegins
  <2>6. y.t >= fl2 => y.t >= fl
    BY <2>3
  <2>7. <<x, y>> \in Steps(tk2, fl2)
    BY <2>2, <2>3, <2>5, <2>6 DEF Steps
  <2> QED BY <2>7 DEF x, y
<1>5. Tied(f, Steps(tk2, fl2))
  BY <1>1, <1>4 DEF Tied
<1> QED BY <1>3, <1>5 DEF Stream

-----------------------------------------------------------------------------
(* Points that show what was gained, in the order of time.                    *)
Truth(ps, tk, fl) ==
  /\ \A i \in 1..Len(ps) : /\ ps[i].n \in 1..Len(tk)
                           /\ ps[i].t >= fl => ps[i].d = Gain(tk, ps[i].n)
  /\ \A i, j \in 1..Len(ps) : i < j => ps[i].t <= ps[j].t

(* One more.                                                                *)
LEMMA TruthAppend ==
  ASSUME NEW tk, NEW fl, NEW ps \in Seq(Points), Truth(ps, tk, fl), NEW p \in Points,
         p.n \in 1..Len(tk), p.t >= fl => p.d = Gain(tk, p.n),
         \A i \in 1..Len(ps) : ps[i].t <= p.t
  PROVE  /\ Truth(Append(ps, p), tk, fl)
         /\ \A i \in 1..Len(Append(ps, p)) : Append(ps, p)[i].t <= p.t
         /\ Append(ps, p)[Len(Append(ps, p))] = p /\ Len(Append(ps, p)) = Len(ps) + 1
         /\ \A i \in 1..Len(ps) : Append(ps, p)[i] = ps[i]
<1> DEFINE r == Append(ps, p)
           k == Len(ps)
<1>1. /\ k \in Nat /\ Len(r) = k + 1 /\ r[k + 1] = p /\ \A i \in 1..k : r[i] = ps[i]
  BY AppendProperties
<1>2. p.t \in Nat
  BY DEF Points
<1> HIDE DEF r
<1>3. \A i \in 1..(k + 1) : i \in 1..k \/ i = k + 1
  BY <1>1
<1>4. \A i, j \in 1..(k + 1) : i < j => i \in 1..k
  BY <1>1
<1>5. \A i \in 1..(k + 1) : r[i].n \in 1..Len(tk) /\ (r[i].t >= fl => r[i].d = Gain(tk, r[i].n))
  BY <1>1, <1>3 DEF Truth
<1>6. \A i \in 1..(k + 1) : r[i].t <= p.t
  BY <1>1, <1>2, <1>3
<1>7. \A i, j \in 1..(k + 1) : i < j => r[i].t <= r[j].t
  BY <1>1, <1>3, <1>4, <1>6 DEF Truth
<1>8. Truth(r, tk, fl)
  BY <1>1, <1>5, <1>7 DEF Truth
<1> QED BY <1>1, <1>6, <1>8 DEF r

(* Fewer.                                                                   *)
LEMMA TruthOnly ==
  ASSUME NEW tk, NEW fl, NEW ps \in Seq(Points), Truth(ps, tk, fl), NEW keep
  PROVE  Truth(Only(ps, keep), tk, fl)
<1> DEFINE out == Only(ps, keep)
<1>1. out \in Seq(Points) /\ \E pos : Places(pos, out, ps, keep, Len(ps))
  BY OnlyPlaces
<1>2. PICK pos : Places(pos, out, ps, keep, Len(ps))
  BY <1>1
<1> HIDE DEF out
<1>3. \A i \in 1..Len(out) : pos[i] \in 1..Len(ps) /\ out[i] = ps[pos[i]]
  BY <1>2 DEF Places
<1>4. \A i, j \in 1..Len(out) : i < j => pos[i] < pos[j]
  BY <1>2 DEF Places
<1>5. \A i, j \in 1..Len(out) : i < j => out[i].t <= out[j].t
  BY <1>3, <1>4 DEF Truth
<1>6. \A i \in 1..Len(out) : /\ out[i].n \in 1..Len(tk)
                             /\ out[i].t >= fl => out[i].d = Gain(tk, out[i].n)
  BY <1>3 DEF Truth
<1>7. Truth(out, tk, fl)
  BY <1>5, <1>6 DEF Truth
<1> QED BY <1>7 DEF out

(* They remain so when samples are taken and the floor rises.                *)
LEMMA TruthGrows ==
  ASSUME NEW tk \in Seq(Takes), NEW tk2 \in Seq(Takes), Begins(tk, tk2),
         NEW fl \in Nat, NEW fl2 \in Nat, fl <= fl2, NEW ps \in Seq(Points), Truth(ps, tk, fl)
  PROVE  Truth(ps, tk2, fl2)
<1>1. ASSUME NEW i \in 1..Len(ps)
      PROVE  ps[i].n \in 1..Len(tk2) /\ (ps[i].t >= fl2 => ps[i].d = Gain(tk2, ps[i].n))
  <2>1. ps[i].n \in 1..Len(tk) /\ (ps[i].t >= fl => ps[i].d = Gain(tk, ps[i].n))
    BY DEF Truth
  <2>2. ps[i].n \in 1..Len(tk2) /\ Gain(tk2, ps[i].n) = Gain(tk, ps[i].n)
    BY <2>1, GainBegins
  <2>3. ps[i].t \in Nat
    <3>1. ps[i] \in Points
      OBVIOUS
    <3> QED BY <3>1 DEF Points
  <2> QED BY <2>1, <2>2, <2>3
<1> QED BY <1>1 DEF Truth

-----------------------------------------------------------------------------
(* Replay.                                                                   *)

(* The numbers of some points.                                              *)
Numbers(ps) == {ps[i].n : i \in 1..Len(ps)}

(* The times of points.                                                     *)
LEMMA PointTimes ==
  ASSUME NEW ps \in Seq(Points)
  PROVE  \A i \in 1..Len(ps) : ps[i] \in Points /\ ps[i].t \in Nat /\ ps[i].t \in 0..MaxTime
<1>1. \A i \in 1..Len(ps) : ps[i] \in Points
  OBVIOUS
<1> QED BY <1>1 DEF Points

(* The index x is that of the lines before l.                                *)
Ready(x, l, tk, fl) ==
  /\ Truth(x.points, tk, fl) /\ \A i \in 1..Len(x.points) : x.points[i].t <= l.t
  /\ l.t >= fl => Normalize(x.last, Shows(tk, l), Reset(x.last, x.lastBoot, l.boot))
                    = Gain(tk, l.n)

(* The index z after l.                                                      *)
Took(z, x, l, tk, fl, c) ==
  /\ z \in Indexes /\ Truth(z.points, tk, fl) /\ z.last = Shows(tk, l) /\ z.lastBoot = l.boot
  /\ z.state = x.state /\ \A i \in 1..Len(z.points) : z.points[i].t <= l.t
  /\ Numbers(x.points) \subseteq Numbers(z.points)
  /\ l.t >= c => l.n \in Numbers(z.points)

(* A line is indexed with what it gained.                                    *)
LEMMA IndexedTrue ==
  ASSUME NEW tk \in Seq(Takes), NEW fl, NEW b, NEW c \in Nat, NEW x \in Indexes,
         NEW l \in Told(tk, b), l.kind # "boot", Ready(x, l, tk, fl),
         NEW z, z = Indexed(x, l.t, l.boot, Shows(tk, l), l.n, c)
  PROVE  Took(z, x, l, tk, fl, c)
<1> DEFINE v == Shows(tk, l)
           d == Normalize(x.last, v, Reset(x.last, x.lastBoot, l.boot))
           p == [n |-> l.n, t |-> l.t, d |-> d]
           ps == x.points
<1>1. /\ v \in 0..MaxCount /\ l \in Lines /\ l.n \in 1..Len(tk)
  BY ShowsIs DEF Told
<1>2. /\ l.t \in 0..MaxTime /\ l.t \in Nat /\ l.n \in 1..MaxSamples
  BY <1>1, LineFields, Bounds
<1>3. x.last \in None..MaxCount /\ ps \in Seq(Points)
  BY DEF Indexes
<1>4. d \in 0..MaxCount
  <2>1. Reset(x.last, x.lastBoot, l.boot) \in BOOLEAN
    BY DEF Reset
  <2> QED BY <1>1, <1>3, <2>1, NormalizeIs
<1> HIDE DEF d, v
<1>5. p \in Points /\ p.n = l.n /\ p.t = l.t /\ p.d = d
  BY <1>2, <1>4 DEF Points
<1>6. z \in Indexes /\ z.state = x.state
  BY <1>1, IndexedIs DEF v
<1>7. /\ z.points = (IF l.t < c THEN ps ELSE Append(ps, p)) /\ z.last = v /\ z.lastBoot = l.boot
  BY DEF Indexed, Indexes, d, v
<1> HIDE DEF p, ps
<1>8. CASE l.t < c
  <2>1. z.points = ps /\ ~(l.t >= c)
    BY <1>2, <1>7, <1>8
  <2> QED BY <1>6, <1>7, <2>1 DEF ps, v, Ready, Took
<1>9. CASE ~(l.t < c)
  <2> DEFINE r == Append(ps, p)
  <2>1. /\ Truth(r, tk, fl) /\ \A i \in 1..Len(r) : r[i].t <= p.t
        /\ r[Len(r)] = p /\ Len(r) = Len(ps) + 1 /\ \A i \in 1..Len(ps) : r[i] = ps[i]
    <3>1. (p.t >= fl => p.d = Gain(tk, p.n)) /\ \A i \in 1..Len(ps) : ps[i].t <= p.t
      BY <1>5 DEF d, v, ps, Ready
    <3>2. Truth(ps, tk, fl) /\ p.n \in 1..Len(tk)
      BY <1>1, <1>5 DEF ps, Ready
    <3> QED BY <1>3, <1>5, <3>1, <3>2, TruthAppend
  <2>2. z.points = r
    BY <1>7, <1>9
  <2> HIDE DEF r
  <2>3. Len(ps) \in Nat
    BY <1>3
  <2>4. Len(r) \in 1..Len(r) /\ \A i \in 1..Len(ps) : i \in 1..Len(r)
    BY <2>1, <2>3
  <2>5. Numbers(ps) \subseteq Numbers(r) /\ l.n \in Numbers(r)
    BY <1>5, <2>1, <2>4 DEF Numbers
  <2> QED BY <1>5, <1>6, <1>7, <2>1, <2>2, <2>5 DEF ps, v, Took
<1> QED BY <1>8, <1>9

(* The index after n lines of a stream.                                      *)
IndexAt(x, rs, n, tk, fl, c) ==
  /\ x \in Indexes /\ Truth(x.points, tk, fl)
  /\ n = 0 => x.points = <<>> /\ x.last = None
  /\ n > 0 => \A i \in 1..Len(x.points) : x.points[i].t <= rs[n].t
  /\ n > 0 /\ rs[n].kind = "boot" => x.last = None \/ x.lastBoot < rs[n].boot
  /\ n > 0 /\ rs[n].kind # "boot" => /\ x.state = Shows(tk, rs[n]) /\ x.last = Shows(tk, rs[n])
                                     /\ x.lastBoot = rs[n].boot
  /\ \A j \in 1..n : rs[j].kind # "boot" /\ rs[j].t >= c => rs[j].n \in Numbers(x.points)

(* A boot record leaves the points.                                          *)
LEMMA IndexBoot ==
  ASSUME NEW tk \in Seq(Takes), NEW fl, NEW b, NEW c \in Nat, NEW rs, Stream(rs, tk, fl, b),
         Chain(rs), NEW n \in 1..Len(rs), NEW x, IndexAt(x, rs, n - 1, tk, fl, c),
         rs[n].kind = "boot", NEW z, z = Enriched(x, rs[n], c)
  PROVE  IndexAt(z, rs, n, tk, fl, c)
<1>1. /\ rs \in Seq(Told(tk, b)) /\ Tied(rs, Steps(tk, fl)) /\ Len(rs) \in Nat
      /\ Told(tk, b) \subseteq Lines
  BY DEF Stream, Told
<1>2. x \in Indexes /\ Truth(x.points, tk, fl)
  BY DEF IndexAt
<1>3. \A i \in 1..Len(rs) : rs[i] \in Lines
  BY <1>1
<1>4. z = [x EXCEPT !.state = None]
  BY DEF Enriched
<1>5. /\ z \in Indexes /\ z.points = x.points /\ z.last = x.last /\ z.lastBoot = x.lastBoot
  <2>1. None \in None..MaxCount
    BY Bounds
  <2> QED BY <1>2, <1>4, <2>1 DEF Indexes
<1>6. x.points \in Seq(Points) /\ x.lastBoot \in Int
  BY <1>2 DEF Indexes
<1>7. n > 0 /\ n # 0 /\ n \in Nat /\ n - 1 \in Nat
  BY <1>1
<1>8. CASE n = 1
  <2>1. x.points = <<>> /\ x.last = None
    BY <1>8 DEF IndexAt
  <2>2. Len(x.points) = 0 /\ \A i \in 1..0 : FALSE
    BY <2>1
  <2>3. \A i \in 1..Len(z.points) : z.points[i].t <= rs[n].t
    BY <1>5, <2>2
  <2>4. \A j \in 1..n : j = n
    BY <1>8
  <2> QED BY <1>2, <1>5, <1>7, <2>1, <2>3, <2>4 DEF IndexAt
<1>9. CASE n # 1
  <2>1. /\ n - 1 \in 1..Len(rs) /\ n - 1 > 0 /\ n - 1 <= n /\ n - 1 < n
        /\ \A j \in 1..n : j \in 1..(n - 1) \/ j = n
    BY <1>1, <1>9
  <2>2. /\ rs[n - 1].t <= rs[n].t /\ rs[n - 1].boot < rs[n].boot
    BY <1>1, <2>1 DEF Chain, Tied
  <2>3. /\ rs[n - 1].t \in Nat /\ rs[n].t \in Nat /\ rs[n - 1].boot \in Nat /\ rs[n].boot \in Nat
    BY <1>3, <2>1, LineFields
  <2>4. \A i \in 1..Len(x.points) : x.points[i].t \in Nat /\ x.points[i].t <= rs[n - 1].t
    BY <1>6, <2>1, PointTimes DEF IndexAt
  <2>5. \A i \in 1..Len(z.points) : z.points[i].t <= rs[n].t
    BY <1>5, <2>2, <2>3, <2>4
  <2>6. x.last = None \/ x.lastBoot < rs[n].boot
    BY <1>6, <2>1, <2>2, <2>3 DEF IndexAt
  <2>7. \A j \in 1..n : rs[j].kind # "boot" /\ rs[j].t >= c => rs[j].n \in Numbers(z.points)
    BY <1>5, <2>1 DEF IndexAt
  <2> QED BY <1>2, <1>5, <1>7, <2>5, <2>6, <2>7 DEF IndexAt
<1> QED BY <1>8, <1>9

(* What a line gained over the one before it is what replay finds.            *)
LEMMA ReplayGain ==
  ASSUME NEW tk \in Seq(Takes), NEW fl \in Nat, NEW b, NEW c \in Nat, NEW rs,
         Stream(rs, tk, fl, b), Chain(rs), NEW n \in 1..Len(rs), n # 1,
         NEW x, IndexAt(x, rs, n - 1, tk, fl, c), rs[n].kind # "boot", rs[n].t >= fl
  PROVE  Normalize(x.last, Shows(tk, rs[n]), Reset(x.last, x.lastBoot, rs[n].boot))
           = Gain(tk, rs[n].n)
<1>1. /\ rs \in Seq(Told(tk, b)) /\ Tied(rs, Steps(tk, fl)) /\ Len(rs) \in Nat
      /\ Told(tk, b) \subseteq Lines
  BY DEF Stream, Told
<1>2. n - 1 \in 1..(Len(rs) - 1) /\ n - 1 \in 1..Len(rs) /\ (n - 1) + 1 = n /\ n - 1 > 0
  BY <1>1
<1> DEFINE p == rs[n - 1]
           l == rs[n]
<1>3. p \in Told(tk, b) /\ l \in Told(tk, b)
  BY <1>1, <1>2
<1>4. <<p, l>> \in Steps(tk, fl)
  BY <1>1, <1>2 DEF Tied
<1>5. /\ p.boot = l.boot /\ Shows(tk, p) <= Shows(tk, l)
      /\ Shows(tk, l) - Shows(tk, p) = Gain(tk, l.n)
  BY <1>4, StepIs
<1>6. Shows(tk, p) \in Nat /\ Shows(tk, l) \in Nat
  BY <1>3, ShowsIs
<1>7. p.boot \in Nat /\ l.boot \in Nat
  BY <1>1, <1>3, LineFields
<1>8. CASE p.kind = "boot"
  <2>1. Shows(tk, p) = 0
    BY <1>8 DEF Shows
  <2>2. x.last = None \/ x.lastBoot < l.boot
    BY <1>2, <1>5, <1>8 DEF IndexAt
  <2>3. x.lastBoot \in Int
    BY DEF IndexAt, Indexes
  <2> HIDE DEF p, l
  <2>4. x.last = None \/ Reset(x.last, x.lastBoot, l.boot)
    BY <1>7, <2>2, <2>3 DEF Reset
  <2>5. Normalize(x.last, Shows(tk, l), Reset(x.last, x.lastBoot, l.boot)) = Shows(tk, l)
    BY <2>4 DEF Normalize
  <2> QED BY <1>5, <1>6, <2>1, <2>5 DEF l
<1>9. CASE p.kind # "boot"
  <2>1. x.last = Shows(tk, p) /\ x.lastBoot = p.boot
    BY <1>2, <1>9 DEF IndexAt
  <2> HIDE DEF p, l
  <2>2. x.last # None /\ ~Reset(x.last, x.lastBoot, l.boot)
    BY <1>5, <1>6, <2>1, Bounds DEF Reset
  <2>3. Normalize(x.last, Shows(tk, l), Reset(x.last, x.lastBoot, l.boot))
          = Shows(tk, l) - Shows(tk, p)
    BY <1>5, <1>6, <2>1, <2>2 DEF Normalize
  <2> QED BY <1>5, <2>3 DEF l
<1> QED BY <1>8, <1>9

(* A sample or a checkpoint.                                                 *)
LEMMA IndexSample ==
  ASSUME NEW tk \in Seq(Takes), NEW fl \in Nat, NEW b, NEW c \in Nat, NEW rs,
         Stream(rs, tk, fl, b), Chain(rs), NEW n \in 1..Len(rs),
         NEW x, IndexAt(x, rs, n - 1, tk, fl, c), rs[n].kind # "boot",
         NEW z, z = Enriched(x, rs[n], c)
  PROVE  IndexAt(z, rs, n, tk, fl, c)
<1> DEFINE l == rs[n]
           v == Shows(tk, l)
           y == Indexed(x, l.t, l.boot, v, l.n, c)
<1>1. /\ rs \in Seq(Told(tk, b)) /\ Tied(rs, Steps(tk, fl)) /\ Len(rs) \in Nat
      /\ Told(tk, b) \subseteq Lines
  BY DEF Stream, Told
<1>2. x \in Indexes /\ Truth(x.points, tk, fl) /\ x.points \in Seq(Points)
  BY DEF IndexAt, Indexes
<1>3. n # 1
  <2>1. rs # <<>>
    BY <1>1
  <2> QED BY <2>1 DEF Chain
<1>4. /\ n - 1 \in 1..(Len(rs) - 1) /\ n - 1 \in 1..Len(rs) /\ (n - 1) + 1 = n /\ n - 1 > 0
      /\ n - 1 <= n /\ n > 0 /\ n # 0 /\ \A j \in 1..n : j \in 1..(n - 1) \/ j = n
  BY <1>1, <1>3
<1>5. l \in Told(tk, b) /\ l \in Lines /\ rs[n - 1] \in Lines
  BY <1>1, <1>4
<1>6. v \in 0..MaxCount /\ v \in Nat /\ l.kind \in {"boot", "sample", "check"}
  BY <1>5, ShowsIs, LineFields
<1>7. \A i \in 1..Len(x.points) : x.points[i].t <= l.t
  <2>1. rs[n - 1].t <= l.t
    BY <1>4 DEF Chain
  <2>2. rs[n - 1].t \in Nat /\ l.t \in Nat
    BY <1>5, LineFields
  <2>3. \A i \in 1..Len(x.points) : x.points[i].t \in Nat /\ x.points[i].t <= rs[n - 1].t
    BY <1>2, <1>4, PointTimes DEF IndexAt
  <2> HIDE DEF l
  <2> QED BY <2>1, <2>2, <2>3
<1>8. l.t >= fl => Normalize(x.last, v, Reset(x.last, x.lastBoot, l.boot)) = Gain(tk, l.n)
  BY <1>3, ReplayGain
<1>9. z.state = v /\ z.points = y.points /\ z.last = y.last /\ z.lastBoot = y.lastBoot /\ z \in Indexes
      /\ y \in Indexes
  <2>1. y \in Indexes /\ y.state = x.state
    BY <1>2, <1>5, <1>6, IndexedIs
  <2>2. CASE l.kind = "sample"
    <3>1. l.v = v
      BY <1>5, <2>2 DEF Told, Shows
    <3>2. z = [y EXCEPT !.state = v]
      BY <2>2, <3>1 DEF Enriched
    <3>3. v \in None..MaxCount
      BY <1>6, Bounds
    <3> HIDE DEF y, v
    <3> QED BY <2>1, <3>2, <3>3 DEF Indexes
  <2>3. CASE l.kind = "check"
    <3>1. rs[n - 1].kind # "boot"
      BY <1>4, <2>3 DEF Chain, Link
    <3>2. <<rs[n - 1], l>> \in Steps(tk, fl)
      BY <1>1, <1>4 DEF Tied
    <3>3. Shows(tk, rs[n - 1]) = v
      BY <2>3, <3>2, StepIs
    <3>4. x.state = v
      BY <1>4, <3>1, <3>3 DEF IndexAt
    <3>5. z = y
      BY <2>3, <3>4 DEF Enriched
    <3> QED BY <2>1, <3>4, <3>5
  <2> QED BY <1>6, <2>2, <2>3
<1>10. /\ Truth(y.points, tk, fl) /\ y.last = v /\ y.lastBoot = l.boot
       /\ \A i \in 1..Len(y.points) : y.points[i].t <= l.t
       /\ Numbers(x.points) \subseteq Numbers(y.points)
       /\ l.t >= c => l.n \in Numbers(y.points)
  <2>1. y = Indexed(x, l.t, l.boot, Shows(tk, l), l.n, c) /\ l.kind # "boot" /\ v = Shows(tk, l)
    OBVIOUS
  <2>2. Ready(x, l, tk, fl)
    BY <1>2, <1>7, <1>8 DEF Ready
  <2> HIDE DEF l, v, y
  <2>3. Took(y, x, l, tk, fl, c)
    BY <1>2, <1>5, <2>1, <2>2, IndexedTrue
  <2> QED BY <2>1, <2>3 DEF Took
<1> HIDE DEF y
<1>11. \A j \in 1..n : rs[j].kind # "boot" /\ rs[j].t >= c => rs[j].n \in Numbers(z.points)
  BY <1>4, <1>9, <1>10 DEF IndexAt
<1> QED BY <1>4, <1>9, <1>10, <1>11 DEF IndexAt

(* Replaying a stream shows what was gained, and all that is not pruned.      *)
LEMMA ReplayTrue ==
  ASSUME NEW tk \in Seq(Takes), NEW fl \in Nat, NEW b \in Nat, NEW c \in Nat, NEW rs,
         Stream(rs, tk, fl, b), Chain(rs), NEW z, z = Replayed(rs, c)
  PROVE  /\ Truth(z.points, tk, fl) /\ (z.last = None \/ z.lastBoot <= b)
         /\ \A j \in 1..Len(rs) : rs[j].kind # "boot" /\ rs[j].t >= c => rs[j].n \in Numbers(z.points)
<1> DEFINE m == Len(rs)
<1>1. /\ rs \in Seq(Told(tk, b)) /\ Told(tk, b) \subseteq Lines /\ m \in Nat
      /\ \A i \in 1..m : rs[i].boot <= b
  BY DEF Stream, Told
<1>2. rs \in Seq(Lines)
  BY <1>1, SeqMonotonic
<1>3. PICK A : Replays(A, rs, c) /\ Replayed(rs, c) = A[m]
  BY <1>2, ReplayIs
<1>4. A[0] = NoIndex /\ \A n \in 1..m : A[n] = Enriched(A[n - 1], rs[n], c)
  BY <1>3 DEF Replays
<1> HIDE DEF m
<1> DEFINE Q == {n \in 0..m : IndexAt(A[n], rs, n, tk, fl, c)}
<1>5. 0 \in Q
  <2>1. NoIndex \in Indexes
    <3>1. <<>> \in Seq(Points) /\ None \in None..MaxCount /\ 0 \in 0..MaxBoots
      BY Bounds
    <3> QED BY <3>1 DEF NoIndex, Indexes
  <2>2. NoIndex.points = <<>> /\ NoIndex.last = None
    BY DEF NoIndex
  <2>3. Truth(<<>>, tk, fl)
    BY DEF Truth
  <2>4. IndexAt(NoIndex, rs, 0, tk, fl, c)
    BY <2>1, <2>2, <2>3 DEF IndexAt
  <2> QED BY <1>1, <1>4, <2>4
<1>6. ASSUME NEW n \in 1..m, n - 1 \in Q PROVE n \in Q
  <2>1. IndexAt(A[n - 1], rs, n - 1, tk, fl, c) /\ A[n] = Enriched(A[n - 1], rs[n], c)
        /\ n \in 1..Len(rs) /\ n \in 0..m
    BY <1>1, <1>4, <1>6 DEF m
  <2>2. IndexAt(A[n], rs, n, tk, fl, c)
    BY <2>1, IndexBoot, IndexSample
  <2> QED BY <2>1, <2>2
<1>7. m \in Q
  <2> HIDE DEF Q
  <2>1. \A n \in 0..m : n \in Q
    BY <1>1, <1>5, <1>6, Induct
  <2> QED BY <1>1, <2>1
<1>8. IndexAt(z, rs, m, tk, fl, c)
  BY <1>3, <1>7
<1>9. z.last = None \/ z.lastBoot <= b
  <2>1. CASE m = 0
    BY <1>8, <2>1 DEF IndexAt
  <2>2. CASE m # 0
    <3>1. m \in 1..m /\ m > 0
      BY <1>1, <2>2
    <3>2. rs[m].boot <= b /\ rs[m] \in Lines
      BY <1>1, <3>1 DEF m
    <3>3. rs[m].boot \in Nat /\ z.lastBoot \in Int
      BY <1>8, <3>2, LineFields DEF IndexAt, Indexes
    <3> QED BY <1>8, <3>1, <3>2, <3>3 DEF IndexAt
  <2> QED BY <2>1, <2>2
<1> QED BY <1>8, <1>9 DEF IndexAt, m

-----------------------------------------------------------------------------
(* A rollup.                                                                 *)

(* The first of some positions is one of them.                              *)
LEMMA MinPlace ==
  ASSUME NEW m \in Nat, NEW P, P \subseteq 1..m, P # {}
  PROVE  Min(P) \in P /\ \A i \in P : Min(P) <= i
<1> DEFINE R == {(m + 1) - i : i \in P}
<1>1. \A i \in P : i \in 1..m
  OBVIOUS
<1>2. R \subseteq 1..m /\ R # {}
  <2>1. ASSUME NEW r \in R PROVE r \in 1..m
    <3>1. PICK i \in P : r = (m + 1) - i
      OBVIOUS
    <3>2. i \in 1..m
      BY <1>1
    <3> QED BY <3>1, <3>2
  <2>2. PICK i \in P : TRUE
    OBVIOUS
  <2>3. (m + 1) - i \in R
    OBVIOUS
  <2> QED BY <2>1, <2>3
<1>3. Max(R) \in R /\ \A r \in R : r <= Max(R)
  BY <1>2, MaxPlace
<1>4. PICK x \in P : Max(R) = (m + 1) - x
  BY <1>3
<1>5. \A y \in P : (m + 1) - y \in R
  OBVIOUS
<1> HIDE DEF R
<1>6. \A y \in P : x <= y
  BY <1>1, <1>3, <1>4, <1>5
<1> QED BY <1>6 DEF Min

(* A is the time each of two buckets accounts for, after each point.          *)
Divides(A, from, to) ==
  /\ A \in [0..Len(points) -> [0..1 -> Int]] /\ A[0] = [b \in 0..1 |-> 0]
  /\ \A i \in 1..Len(points) :
       A[i] = IF i \notin Within(from, to) THEN A[i - 1]
              ELSE [A[i - 1] EXCEPT
                      ![Bucket(i, from, to, 2)] = @ + (points[i].t - Since(i, from))]

(* The bucket and the beginning of what a point accounts for.                *)
LEMMA BucketIs ==
  ASSUME points \in Seq(Points), NEW from \in 0..MaxTime, NEW to \in 0..MaxTime, from < to,
         NEW i \in 1..Len(points), from < points[i].t
  PROVE  Bucket(i, from, to, 2) \in 0..1
<1>1. points[i].t \in Nat /\ from \in Nat /\ to \in Nat
  BY PointTimes
<1> DEFINE a == points[i].t - from
           w == to - from
<1>2. a \in Nat /\ w \in Nat \ {0}
  BY <1>1
<1> DEFINE q == (a * 2) \div w
<1>3. q \in Nat
  <2> HIDE DEF a, w
  <2> QED BY <1>2
<1>4. Bucket(i, from, to, 2) = Min({q, 2 - 1})
  BY DEF Bucket
<1> HIDE DEF q
<1>5. Min({q, 1}) = IF q <= 1 THEN q ELSE 1
  BY <1>3, MinOfTwo
<1> QED BY <1>3, <1>4, <1>5

(* The beginning of what a point accounts for.                               *)
LEMMA SinceIs ==
  ASSUME points \in Seq(Points), NEW from \in 0..MaxTime, NEW i \in 1..Len(points)
  PROVE  /\ Since(i, from) \in Int
         /\ i # 1 /\ from < points[i - 1].t => Since(i, from) = points[i - 1].t
<1>1. points[i].t \in Nat /\ from \in Nat
  BY PointTimes
<1>2. CASE i = 1
  BY <1>1, <1>2 DEF Since
<1>3. CASE i # 1
  <2>1. i - 1 \in 1..Len(points)
    BY <1>3
  <2>2. points[i - 1].t \in Nat
    BY <2>1, PointTimes
  <2>3. Max({points[i - 1].t, from}) = IF points[i - 1].t >= from THEN points[i - 1].t ELSE from
    BY <1>1, <2>2, MaxOfTwo
  <2> QED BY <1>1, <1>3, <2>2, <2>3 DEF Since
<1> QED BY <1>2, <1>3

(* Durations is such a recursion.                                            *)
LEMMA DurationsIs ==
  ASSUME points \in Seq(Points), NEW from \in 0..MaxTime, NEW to \in 0..MaxTime, from < to
  PROVE  \E A : Divides(A, from, to) /\ Durations(from, to, 2) = A[Len(points)]
<1> DEFINE m == Len(points)
           V == [0..1 -> Int]
           W == Within(from, to)
           zero == [b \in 0..(2 - 1) |-> 0]
           More(y, i) == IF i \notin W THEN y
                         ELSE [y EXCEPT ![Bucket(i, from, to, 2)]
                                          = @ + (points[i].t - Since(i, from))]
           D(F) == F = [i \in 0..m |-> IF i = 0 THEN zero
                          ELSE IF i \notin W THEN F[i - 1]
                          ELSE [F[i - 1] EXCEPT ![Bucket(i, from, to, 2)]
                                          = @ + (points[i].t - Since(i, from))]]
           A == CHOOSE F : D(F)
           G == [i \in 1..m |-> [y \in V |-> More(y, i)]]
<1>1. m \in Nat /\ zero \in V /\ zero = [b \in 0..1 |-> 0]
  OBVIOUS
<1>2. Durations(from, to, 2) = A[m]
  BY Zenon DEF Durations
<1>3. ASSUME NEW i \in 1..m, NEW y \in V PROVE More(y, i) \in V
  <2>1. i \in W => Bucket(i, from, to, 2) \in 0..1
    BY BucketIs DEF Within
  <2>2. Since(i, from) \in Int /\ points[i].t \in Int
    BY SinceIs, PointTimes
  <2> QED BY <2>1, <2>2
<1> HIDE DEF m, V, zero
<1>4. PICK F : Follows(F, V, m, zero, G)
  <2>1. G \in [1..m -> [V -> V]]
    BY <1>3
  <2> HIDE DEF G
  <2> QED BY <1>1, <2>1, Recursion
<1>5. F \in [0..m -> V] /\ F[0] = zero /\ \A i \in 1..m : F[i] = G[i][F[i - 1]]
  BY <1>4 DEF Follows
<1>6. ASSUME NEW i \in 1..m PROVE F[i] = More(F[i - 1], i)
  <2>1. i - 1 \in 0..m
    BY <1>1
  <2>2. F[i - 1] \in V
    BY <1>5, <2>1
  <2> HIDE DEF More
  <2> QED BY <1>5, <2>2
<1>7. ASSUME NEW i \in 0..m
      PROVE  F[i] = IF i = 0 THEN zero ELSE More(F[i - 1], i)
  <2>1. i = 0 \/ i \in 1..m
    BY <1>1
  <2> HIDE DEF More
  <2> QED BY <1>5, <1>6, <2>1
<1>8. D(F)
  BY <1>5, <1>7
<1>9. D(A)
  <2> HIDE DEF D
  <2> QED BY <1>8
<1> HIDE DEF A, G
<1>10. /\ A[0] = zero
       /\ \A i \in 1..m : A[i] = IF i = 0 THEN zero ELSE More(A[i - 1], i)
  <2>1. A = [i \in 0..m |-> IF i = 0 THEN zero ELSE More(A[i - 1], i)]
    BY <1>9
  <2> HIDE DEF D, More
  <2>2. \A i \in 0..m : A[i] = IF i = 0 THEN zero ELSE More(A[i - 1], i)
    BY <2>1, Zenon
  <2> QED BY <1>1, <2>2
<1>11. \A i \in 1..m : A[i] = More(A[i - 1], i)
  <2>1. \A i \in 1..m : i # 0
    OBVIOUS
  <2> HIDE DEF More
  <2> QED BY <1>10, <2>1
<1>12. DOMAIN A = 0..m /\ A = [i \in 0..m |-> A[i]]
  BY <1>9
<1> DEFINE Q == {i \in 0..m : A[i] \in V}
<1>13. 0 \in Q
  BY <1>1, <1>10
<1>14. ASSUME NEW i \in 1..m, i - 1 \in Q PROVE i \in Q
  <2>1. A[i - 1] \in V /\ i \in 0..m
    BY <1>1, <1>14
  <2>2. More(A[i - 1], i) \in V
    BY <1>3, <2>1
  <2> HIDE DEF More
  <2> QED BY <1>11, <2>1, <2>2
<1>15. \A i \in 0..m : i \in Q
  <2> HIDE DEF Q
  <2> QED BY <1>1, <1>13, <1>14, Induct
<1>16. A \in [0..m -> V]
  BY <1>12, <1>15
<1>17. Divides(A, from, to)
  <2>1. A \in [0..Len(points) -> [0..1 -> Int]]
    BY <1>16 DEF m, V
  <2>2. A[0] = [b \in 0..1 |-> 0]
    BY <1>1, <1>10
  <2>3. \A i \in 1..Len(points) :
          A[i] = IF i \notin Within(from, to) THEN A[i - 1]
                 ELSE [A[i - 1] EXCEPT
                         ![Bucket(i, from, to, 2)] = @ + (points[i].t - Since(i, from))]
    BY <1>11, Zenon DEF m
  <2> HIDE DEF W
  <2> QED BY <2>1, <2>2, <2>3, Zenon DEF Divides
<1> HIDE DEF D, More, W
<1> QED BY <1>2, <1>17 DEF m

(* A bucket more.                                                           *)
LEMMA SumGrows ==
  ASSUME NEW y \in [0..1 -> Int], NEW b \in 0..1, NEW d \in Int, NEW z,
         z = [y EXCEPT ![b] = @ + d]
  PROVE  z[0] + z[1] = (y[0] + y[1]) + d
<1>1. b = 0 \/ b = 1
  OBVIOUS
<1>2. CASE b = 0
  <2>1. z[0] = y[0] + d /\ z[1] = y[1] /\ y[0] \in Int /\ y[1] \in Int
    BY <1>2
  <2> QED BY <2>1
<1>3. CASE b = 1
  <2>1. z[0] = y[0] /\ z[1] = y[1] + d /\ y[0] \in Int /\ y[1] \in Int
    BY <1>3
  <2> QED BY <2>1
<1> QED BY <1>1, <1>2, <1>3

(* The points of a window stand together, each reaching back to the one before. *)
LEMMA WindowIs ==
  ASSUME points \in Seq(Points),
         \A i, j \in 1..Len(points) : i < j => points[i].t <= points[j].t,
         NEW from \in 0..MaxTime, NEW to \in 0..MaxTime, Within(from, to) # {},
         NEW f, f = Min(Within(from, to)), NEW g, g = Max(Within(from, to))
  PROVE  /\ f \in 1..Len(points) /\ g \in 1..Len(points) /\ f <= g
         /\ \A i \in 1..Len(points) : i \in Within(from, to) <=> f <= i /\ i <= g
         /\ \A i \in 1..Len(points) : f < i /\ i <= g => Since(i, from) = points[i - 1].t
<1> DEFINE m == Len(points)
           W == Within(from, to)
<1>1. m \in Nat /\ DOMAIN points = 1..m
  OBVIOUS
<1>2. W \subseteq 1..m /\ W # {}
  BY <1>1 DEF Within
<1>3. f \in W /\ \A i \in W : f <= i
  BY <1>1, <1>2, MinPlace
<1>4. g \in W /\ \A i \in W : i <= g
  BY <1>1, <1>2, MaxPlace
<1>5. f \in 1..m /\ g \in 1..m /\ f <= g
  BY <1>2, <1>3, <1>4
<1>6. \A i \in 1..m : points[i].t \in Nat
  BY PointTimes
<1>7. from < points[f].t /\ points[g].t <= to
  BY <1>3, <1>4 DEF Within
<1>8. ASSUME NEW i \in 1..m, f <= i, i <= g PROVE i \in W
  <2>1. points[f].t <= points[i].t /\ points[i].t <= points[g].t
    <3>1. \A j \in 1..m : points[j].t <= points[j].t
      BY <1>6
    <3>2. (f = i \/ f < i) /\ (i = g \/ i < g)
      BY <1>5, <1>8
    <3> QED BY <1>5, <3>1, <3>2
  <2>2. points[f].t \in Nat /\ points[i].t \in Nat /\ points[g].t \in Nat
    BY <1>5, <1>6
  <2>3. from < points[i].t /\ points[i].t <= to
    BY <1>7, <2>1, <2>2
  <2> QED BY <1>1, <2>3 DEF Within
<1>9. ASSUME NEW i \in 1..m, f < i, i <= g PROVE Since(i, from) = points[i - 1].t
  <2>1. i - 1 \in 1..m /\ f <= i - 1 /\ i - 1 <= g /\ i # 1
    BY <1>5, <1>9
  <2>2. from < points[i - 1].t
    BY <1>8, <2>1 DEF Within
  <2> QED BY <2>1, <2>2, SinceIs
<1> QED BY <1>3, <1>4, <1>5, <1>8, <1>9

(* The buckets account for all the time between the effective bounds.         *)
LEMMA RollupCounts ==
  ASSUME points \in Seq(Points),
         \A i, j \in 1..Len(points) : i < j => points[i].t <= points[j].t
  PROVE  RollupCovers
<1> SUFFICES ASSUME NEW from \in 0..MaxTime, NEW to \in 0..MaxTime, from < to,
                    Within(from, to) # {}
             PROVE  Durations(from, to, 2)[0] + Durations(from, to, 2)[1]
                      = EffectiveTo(from, to) - EffectiveFrom(from, to)
  BY DEF RollupCovers
<1> DEFINE m == Len(points)
           f == Min(Within(from, to))
           g == Max(Within(from, to))
           s == Since(f, from)
<1>1. m \in Nat /\ \A i \in 1..m : points[i].t \in Nat
  BY PointTimes
<1>2. PICK A : Divides(A, from, to) /\ Durations(from, to, 2) = A[m]
  BY DurationsIs
<1>3. /\ A \in [0..m -> [0..1 -> Int]] /\ A[0] = [b \in 0..1 |-> 0]
      /\ \A i \in 1..m :
           A[i] = IF i \notin Within(from, to) THEN A[i - 1]
                  ELSE [A[i - 1] EXCEPT
                          ![Bucket(i, from, to, 2)] = @ + (points[i].t - Since(i, from))]
  BY <1>2, Zenon DEF Divides
<1>4. /\ f \in 1..m /\ g \in 1..m /\ f <= g
      /\ \A i \in 1..m : i \in Within(from, to) <=> f <= i /\ i <= g
      /\ \A i \in 1..m : f < i /\ i <= g => Since(i, from) = points[i - 1].t
  BY WindowIs
<1>5. s \in Int
  BY <1>4, SinceIs
<1>6. EffectiveTo(from, to) = points[g].t /\ EffectiveFrom(from, to) = s
  BY DEF EffectiveTo, EffectiveFrom
<1> HIDE DEF f, g, m
<1>7. s = Since(f, from)
  OBVIOUS
<1> HIDE DEF s
<1> DEFINE Sum(i) == A[i][0] + A[i][1]
           Q == {i \in 0..m : /\ i < f => Sum(i) = 0
                              /\ f <= i /\ i <= g => Sum(i) = points[i].t - s
                              /\ g < i => Sum(i) = points[g].t - s}
<1>8. 0 \in Q
  <2>1. Sum(0) = 0 /\ 0 < f /\ ~(f <= 0) /\ ~(g < 0)
    BY <1>1, <1>3, <1>4
  <2> HIDE DEF Sum
  <2> QED BY <1>1, <2>1
<1>9. ASSUME NEW i \in 1..m, i - 1 \in Q PROVE i \in Q
  <2>1. A[i - 1] \in [0..1 -> Int] /\ i \in 0..m /\ i - 1 \in 0..m
    <3>1. i \in 0..m /\ i - 1 \in 0..m
      BY <1>1
    <3> QED BY <1>3, <3>1
  <2>2. CASE i \in Within(from, to)
    <3>1. f <= i /\ i <= g /\ ~(i < f) /\ ~(g < i) /\ from < points[i].t
      BY <1>1, <1>4, <2>2 DEF Within
    <3>2. Bucket(i, from, to, 2) \in 0..1 /\ Since(i, from) \in Int
      BY <3>1, BucketIs, SinceIs DEF m
    <3>3. A[i] = [A[i - 1] EXCEPT ![Bucket(i, from, to, 2)] = @ + (points[i].t - Since(i, from))]
      BY <1>3, <2>2
    <3>4. Sum(i) = Sum(i - 1) + (points[i].t - Since(i, from))
      <4>1. points[i].t - Since(i, from) \in Int
        BY <1>1, <3>2
      <4> QED BY <2>1, <3>2, <3>3, <4>1, SumGrows
    <3>5. Sum(i - 1) \in Int
      BY <2>1
    <3> HIDE DEF Sum
    <3>6. CASE i = f
      <4>1. i - 1 < f
        BY <3>6
      <4>2. Sum(i - 1) = 0
        BY <1>9, <4>1
      <4> QED BY <1>1, <1>5, <1>7, <2>1, <3>1, <3>4, <3>6, <4>2
    <3>7. CASE i # f
      <4>1. f < i /\ f <= i - 1 /\ i - 1 <= g /\ i - 1 \in 1..m
        <5>1. f \in Nat \ {0} /\ g \in Nat /\ i \in Nat /\ f < i /\ i <= m
          BY <1>1, <1>4, <3>1, <3>7
        <5> QED BY <1>1, <3>1, <5>1
      <4>2. Sum(i - 1) = points[i - 1].t - s /\ Since(i, from) = points[i - 1].t
        BY <1>4, <1>9, <3>1, <4>1
      <4>3. points[i].t \in Nat /\ points[i - 1].t \in Nat
        BY <1>1, <4>1
      <4>4. Sum(i) = points[i].t - s
        BY <1>5, <3>4, <4>2, <4>3
      <4> QED BY <2>1, <3>1, <4>4
    <3> QED BY <3>6, <3>7
  <2>3. CASE i \notin Within(from, to)
    <3>1. Sum(i) = Sum(i - 1)
      BY <1>3, <2>3
    <3>2. i < f \/ g < i
      BY <1>1, <1>4, <2>3
    <3> HIDE DEF Sum
    <3>3. CASE i < f
      <4>1. i - 1 < f /\ ~(f <= i) /\ ~(g < i)
        BY <1>4, <3>3
      <4> QED BY <1>9, <2>1, <3>1, <3>3, <4>1
    <3>4. CASE g < i
      <4>1. ~(i < f) /\ ~(i <= g)
        BY <1>4, <3>4
      <4>2. CASE i - 1 = g
        <5>1. Sum(i - 1) = points[g].t - s
          BY <1>4, <1>9, <4>2
        <5> QED BY <2>1, <3>1, <4>1, <5>1
      <4>3. CASE i - 1 # g
        <5>1. g < i - 1
          BY <1>4, <3>4, <4>3
        <5>2. Sum(i - 1) = points[g].t - s
          BY <1>9, <5>1
        <5> QED BY <2>1, <3>1, <4>1, <5>2
      <4> QED BY <4>2, <4>3
    <3> QED BY <3>2, <3>3, <3>4
  <2> QED BY <2>2, <2>3
<1>10. m \in Q
  <2> HIDE DEF Q
  <2>1. \A i \in 0..m : i \in Q
    BY <1>1, <1>8, <1>9, Induct
  <2> QED BY <1>1, <2>1
<1>11. Sum(m) = points[g].t - s
  <2> HIDE DEF Sum
  <2>1. f <= m /\ (m = g \/ g < m) /\ (m = g => m <= g)
    BY <1>1, <1>4
  <2> QED BY <1>10, <2>1
<1> QED BY <1>2, <1>6, <1>11

-----------------------------------------------------------------------------
(* What a process has counted.                                               *)
Mine(tk, b) == {m \in 1..Len(tk) : tk[m].boot = b}
Count(tk, b) == IF Mine(tk, b) = {} THEN 0 ELSE tk[Max(Mine(tk, b))].v

(* It is a count.                                                           *)
LEMMA CountIs ==
  ASSUME NEW tk \in Seq(Takes), NEW b
  PROVE  Count(tk, b) \in 0..MaxCount /\ Count(tk, b) \in Nat
<1>1. 0 \in 0..MaxCount /\ MaxCount \in Nat /\ Len(tk) \in Nat
  BY Bounds
<1>2. CASE Mine(tk, b) = {}
  BY <1>1, <1>2 DEF Count
<1>3. CASE Mine(tk, b) # {}
  <2>1. Mine(tk, b) \subseteq 1..Len(tk)
    BY DEF Mine
  <2>2. Max(Mine(tk, b)) \in 1..Len(tk)
    BY <1>1, <1>3, <2>1, MaxPlace
  <2>3. tk[Max(Mine(tk, b))] \in Takes
    BY <2>2
  <2> QED BY <1>1, <1>3, <2>3 DEF Count, Takes
<1> QED BY <1>2, <1>3

(* A sample is taken.                                                       *)
LEMMA TakeIs ==
  ASSUME NEW tk \in Seq(Takes), NEW e \in Takes, NEW tk2, tk2 = Append(tk, e)
  PROVE  /\ tk2 \in Seq(Takes) /\ Begins(tk, tk2) /\ Len(tk2) = Len(tk) + 1
         /\ tk2[Len(tk) + 1] = e /\ Len(tk) + 1 \in 1..Len(tk2)
         /\ Gain(tk2, Len(tk) + 1) = e.v - Count(tk, e.boot)
         /\ Count(tk2, e.boot) = e.v /\ Mine(tk2, e.boot) # {}
<1> DEFINE k == Len(tk)
<1>1. /\ k \in Nat /\ tk2 \in Seq(Takes) /\ Len(tk2) = k + 1 /\ tk2[k + 1] = e
      /\ \A m \in 1..k : tk2[m] = tk[m]
  BY AppendProperties
<1>2. Begins(tk, tk2) /\ k + 1 \in 1..Len(tk2)
  BY <1>1 DEF Begins
<1>3. Gain(tk2, k + 1) = e.v - Count(tk, e.boot)
  <2> DEFINE earlier == {m \in 1..((k + 1) - 1) : tk2[m].boot = tk2[k + 1].boot}
  <2>1. (k + 1) - 1 = k
    BY <1>1
  <2>2. earlier = Mine(tk, e.boot)
    BY <1>1, <2>1 DEF Mine
  <2>3. Gain(tk2, k + 1) = tk2[k + 1].v - (IF earlier = {} THEN 0 ELSE tk2[Max(earlier)].v)
    BY DEF Gain
  <2> HIDE DEF earlier
  <2>4. CASE earlier = {}
    BY <1>1, <2>2, <2>3, <2>4 DEF Count
  <2>5. CASE earlier # {}
    <3>1. earlier \subseteq 1..k
      BY <2>2 DEF Mine
    <3>2. Max(earlier) \in 1..k
      BY <1>1, <2>5, <3>1, MaxPlace
    <3>3. tk2[Max(earlier)] = tk[Max(earlier)]
      BY <1>1, <3>2
    <3> QED BY <1>1, <2>2, <2>3, <2>5, <3>3 DEF Count
  <2> QED BY <2>4, <2>5
<1>4. Mine(tk2, e.boot) \subseteq 1..(k + 1) /\ k + 1 \in Mine(tk2, e.boot)
  BY <1>1, <1>2 DEF Mine
<1>5. Max(Mine(tk2, e.boot)) = k + 1
  <2>1. /\ Max(Mine(tk2, e.boot)) \in Mine(tk2, e.boot)
        /\ k + 1 <= Max(Mine(tk2, e.boot))
    BY <1>1, <1>4, MaxPlace
  <2>2. Max(Mine(tk2, e.boot)) \in 1..(k + 1)
    BY <1>4, <2>1
  <2> QED BY <1>1, <2>1, <2>2
<1>6. Count(tk2, e.boot) = e.v
  BY <1>1, <1>4, <1>5 DEF Count
<1> QED BY <1>1, <1>2, <1>3, <1>4, <1>6

(* The last sample taken is the count of its process.                        *)
LEMMA CountLast ==
  ASSUME NEW tk \in Seq(Takes), NEW b, NEW n \in 1..Len(tk), n = Len(tk), tk[n].boot = b
  PROVE  Count(tk, b) = tk[n].v
<1>1. Mine(tk, b) \subseteq 1..Len(tk) /\ n \in Mine(tk, b) /\ Len(tk) \in Nat
  BY DEF Mine
<1>2. Max(Mine(tk, b)) \in Mine(tk, b) /\ n <= Max(Mine(tk, b))
  BY <1>1, MaxPlace
<1>3. Max(Mine(tk, b)) \in 1..Len(tk)
  BY <1>1, <1>2
<1>4. Max(Mine(tk, b)) = n
  BY <1>1, <1>2, <1>3
<1> QED BY <1>1, <1>4 DEF Count

-----------------------------------------------------------------------------
(* The invariant.                                                            *)

(* Whatever the path may show is a stream.                                   *)
Streams ==
  /\ Stream(file, taken, floor, boot) /\ Stream(safe, taken, floor, boot)
  /\ \A f \in old : Stream(f, taken, floor, boot)

(* No sample is of a later process; the one to be written is the last taken.   *)
Signed ==
  /\ \A m \in 1..Len(taken) : taken[m].boot <= boot
  /\ job # NoJob => /\ job.n = Len(taken) /\ job.v = taken[job.n].v
                    /\ taken[job.n].boot = boot /\ Gain(taken, job.n) \in Nat

(* Until a write fails, the file ends with an epoch of the process in progress, *)
(* whose last line shows what the store remembers and what was counted before   *)
(* the sample to be written.                                                 *)
LiveEnd ==
  mode = "canonical" /\ ~poisoned =>
    /\ file # <<>> /\ Pending(Pass(file)) /\ Last(file).boot = boot /\ Last(file).form \in Decodes
    /\ last_state = IF Last(file).kind = "boot" THEN None ELSE Shows(taken, Last(file))
    /\ Shows(taken, Last(file))
         = IF job = NoJob THEN Count(taken, boot) ELSE job.v - Gain(taken, job.n)

(* The index remembers the last sample of the process, or one of another.      *)
Known ==
  mode # "down" =>
    IF Mine(taken, boot) = {} THEN last_parsed = None \/ last_sample_boot # boot
    ELSE last_sample_boot = boot /\ last_parsed = Count(taken, boot)

Shown == Truth(points, taken, floor)

CountsInv == HistoryInv /\ Streams /\ Signed /\ LiveEnd /\ Known /\ Shown

(* Its parts, for the steps.                                                 *)
LEMMA CountFacts ==
  ASSUME CountsInv
  PROVE  /\ taken \in Seq(Takes) /\ Len(taken) \in Nat /\ floor \in Nat /\ floor \in 0..MaxTime
         /\ boot \in Nat /\ boot \in 0..MaxBoots /\ points \in Seq(Points)
         /\ now \in 0..MaxTime /\ days \in Retentions /\ HistoryInv
         /\ Begins(taken, taken)
<1>1. taken \in Seq(Takes) /\ points \in Seq(Points)
  BY DEF CountsInv, HistoryInv, HistoryTypes, Takes
<1>2. floor \in 0..MaxTime /\ boot \in 0..MaxBoots /\ now \in 0..MaxTime /\ days \in Retentions
  BY DEF CountsInv, HistoryInv, HistoryTypes
<1>3. Len(taken) \in Nat
  BY <1>1
<1>4. Begins(taken, taken)
  BY <1>3 DEF Begins
<1> QED BY <1>1, <1>2, <1>3, <1>4 DEF CountsInv

(* The tail after the last sample is what the process counted since.          *)
LEMMA TailIs ==
  ASSUME CountsInv, mode # "down", NEW v \in Nat, Count(taken, boot) <= v
  PROVE  Normalize(last_parsed, v, Reset(last_parsed, last_sample_boot, boot))
           = v - Count(taken, boot)
<1>1. Count(taken, boot) \in Nat
  BY CountFacts, CountIs
<1>2. CASE Mine(taken, boot) = {}
  <2>1. Count(taken, boot) = 0
    BY <1>2 DEF Count
  <2>2. last_parsed = None \/ Reset(last_parsed, last_sample_boot, boot)
    BY <1>2 DEF CountsInv, Known, Reset
  <2>3. Normalize(last_parsed, v, Reset(last_parsed, last_sample_boot, boot)) = v
    BY <2>2 DEF Normalize
  <2> QED BY <2>1, <2>3
<1>3. CASE Mine(taken, boot) # {}
  <2>1. last_sample_boot = boot /\ last_parsed = Count(taken, boot)
    BY <1>3 DEF CountsInv, Known
  <2>2. ~Reset(last_parsed, last_sample_boot, boot) /\ last_parsed # None
    BY <1>1, <2>1, Bounds DEF Reset
  <2> QED BY <1>1, <2>1, <2>2 DEF Normalize
<1> QED BY <1>2, <1>3

(* The invariant gives what the run checks.                                  *)
LEMMA CountsGive == CountsInv => CountsExact
<1> SUFFICES ASSUME CountsInv PROVE CountsExact
  OBVIOUS
<1>1. /\ taken \in Seq(Takes) /\ points \in Seq(Points) /\ Len(taken) \in Nat
  BY CountFacts
<1>2. DeltasExact
  <2>1. DOMAIN points = 1..Len(points)
    BY <1>1
  <2>2. \A n : Gained(n) = Gain(taken, n)
    BY DEF Gained, Gain
  <2> QED BY <2>1, <2>2 DEF CountsInv, Shown, Truth, DeltasExact
<1>3. TailExact
  <2>1. DOMAIN taken = 1..Len(taken)
    BY <1>1
  <2>2. Counted = Count(taken, boot)
    BY <2>1 DEF Counted, Count, Mine
  <2>3. Count(taken, boot) \in Nat
    BY <1>1, CountIs
  <2>4. ASSUME mode # "down", NEW count \in Counted..MaxCount
        PROVE  LiveTail(count) = count - Counted
    <3>1. count \in Nat /\ Count(taken, boot) <= count
      BY <2>2, <2>3, Bounds
    <3> QED BY <2>2, <2>4, <3>1, TailIs DEF LiveTail
  <2> QED BY <2>4 DEF TailExact
<1>4. RollupCovers
  BY <1>1, RollupCounts DEF CountsInv, Shown, Truth
<1> QED BY <1>2, <1>3, <1>4 DEF CountsExact

-----------------------------------------------------------------------------
(* The steps.                                                                *)

(* The invariant holds at the start.                                        *)
LEMMA CountsInit == Init => CountsInv
<1> SUFFICES ASSUME Init PROVE CountsInv
  OBVIOUS
<1>1. HistoryInv
  BY HistoryInit
<1>2. /\ file = <<>> /\ safe = <<>> /\ old = {} /\ mode = "down" /\ taken = <<>> /\ job = NoJob
      /\ points = <<>> /\ floor = 0 /\ boot = 0
  BY DEF Init
<1>3. Stream(<<>>, taken, floor, boot)
  BY TiedEmpty DEF Stream
<1>4. Streams
  BY <1>2, <1>3 DEF Streams
<1>5. Signed
  BY <1>2 DEF Signed
<1>6. LiveEnd /\ Known
  BY <1>2 DEF LiveEnd, Known
<1>7. Shown
  BY <1>2 DEF Shown, Truth
<1> QED BY <1>1, <1>4, <1>5, <1>6, <1>7 DEF CountsInv

(* Validating a stream gives one, of whole epochs.                           *)
LEMMA ScanStream ==
  ASSUME NEW tk, NEW fl, NEW b, NEW f, Stream(f, tk, fl, b)
  PROVE  /\ Stream(Scan(f).records, tk, fl, b)
         /\ Chain(Scan(f).records) /\ Closed(Scan(f).records)
<1>1. f \in Seq(Told(tk, b)) /\ Tied(f, Steps(tk, fl)) /\ Told(tk, b) \subseteq Lines
  BY DEF Stream, Told
<1>2. /\ Scan(f).records \in Seq(Told(tk, b)) /\ Chain(Scan(f).records)
      /\ Closed(Scan(f).records)
  BY <1>1, ScanGood
<1>3. Tied(Scan(f).records, Steps(tk, fl))
  BY <1>1, PassTied
<1> QED BY <1>2, <1>3 DEF Stream

(* The streams survive a later process and a higher floor.                   *)
LEMMA StreamsStart ==
  ASSUME CountsInv, NEW f, Stream(f, taken, floor, boot), NEW fl \in Nat, floor <= fl,
         NEW b \in Nat, boot <= b
  PROVE  Stream(f, taken, fl, b)
BY CountFacts, StreamGrows

(* A process that begins has taken no sample.                                *)
LEMMA NoneMine ==
  ASSUME CountsInv
  PROVE  Mine(taken, boot + 1) = {} /\ Count(taken, boot + 1) = 0
<1>1. taken \in Seq(Takes) /\ boot \in Nat
  BY CountFacts
<1>2. ASSUME NEW m \in 1..Len(taken), taken[m].boot = boot + 1 PROVE FALSE
  <2>1. taken[m].boot <= boot
    BY DEF CountsInv, Signed
  <2> QED BY <1>1, <1>2, <2>1
<1>3. Mine(taken, boot + 1) = {}
  BY <1>2 DEF Mine
<1> QED BY <1>3 DEF Count

(* The boot record of the next process.                                      *)
LEMMA BootFits ==
  ASSUME CountsInv, boot < MaxBoots, NEW f, NEW fl, Stream(f, taken, fl, boot)
  PROVE  /\ BootLine \in Told(taken, boot + 1) /\ Fits(f, BootLine, taken, fl)
         /\ BootLine.kind = "boot" /\ BootLine.boot = boot + 1 /\ BootLine.form = "ok"
         /\ BootLine.t = now
<1>1. BootLine \in Below(Len(taken), now)
  BY BootLineIs DEF CountsInv
<1>2. BootLine \in Lines
  BY <1>1 DEF Below
<1>3. /\ BootLine.kind = "boot" /\ BootLine.boot = boot + 1 /\ BootLine.form = "ok"
      /\ BootLine.t = now
  BY DEF BootLine, Line
<1>4. boot \in Nat
  BY CountFacts
<1>5. BootLine \in Told(taken, boot + 1)
  BY <1>2, <1>3, <1>4 DEF Told
<1>6. ASSUME NEW i \in 1..Len(f) PROVE f[i].boot < BootLine.boot
  <2>1. f[i] \in Told(taken, boot)
    BY DEF Stream
  <2>2. f[i].boot <= boot /\ f[i] \in Lines
    BY <2>1 DEF Told
  <2>3. f[i].boot \in Nat
    BY <2>2, LineFields
  <2> QED BY <1>3, <1>4, <2>2, <2>3
<1>7. Fits(f, BootLine, taken, fl)
  BY <1>3, <1>6 DEF Fits
<1> QED BY <1>3, <1>5, <1>7

(* A boot record that is not earlier than the rest begins an epoch.           *)
LEMMA BootPending ==
  ASSUME NEW S, NEW s, Good(s, S), S \subseteq Lines, NEW l \in S, l.kind = "boot",
         l.form \in Decodes, l.t >= s.bound
  PROVE  Pending(Scanned(s, l))
<1> DEFINE a == Advance(s, l.t)
<1>1. /\ l \in Lines /\ l.t \in 0..MaxTime /\ l.t \in Nat
  BY LineFields
<1>2. s.bound \in Int
  BY StateFields DEF Good
<1>3. Good(a, S) /\ a.bound >= s.bound /\ a.bound >= l.t /\ a.bound \in {s.bound, l.t}
  BY <1>1, AdvanceGood
<1>4. a.bound = l.t
  BY <1>1, <1>2, <1>3
<1>5. Scanned(s, l) = StartBoot(a, l)
  BY <1>1, <1>2 DEF Scanned, Decodes
<1> HIDE DEF a
<1>6. StartBoot(a, l).st = "AwaitSample"
  BY <1>3, <1>4, StartBootGood
<1> QED BY <1>5, <1>6 DEF Pending

(* A line of the epoch in progress is taken into it.                         *)
LEMMA SamplePending ==
  ASSUME NEW S, NEW s, Good(s, S), S \subseteq Lines, NEW l \in S, l.kind # "boot",
         l.form \in Decodes, l.t >= s.bound, Belongs(s, l)
  PROVE  Pending(Scanned(s, l))
<1> DEFINE a == Advance(s, l.t)
<1>1. /\ l \in Lines /\ l.t \in 0..MaxTime /\ l.t \in Nat
  BY LineFields
<1>2. s.bound \in Int
  BY StateFields DEF Good
<1>3. Good(a, S) /\ a.bound >= s.bound /\ a.bound >= l.t /\ a.bound \in {s.bound, l.t}
  BY <1>1, AdvanceGood
<1>4. a.bound = l.t
  BY <1>1, <1>2, <1>3
<1>5. Scanned(s, l) = Ingest(a, l)
  BY <1>1, <1>2 DEF Scanned, Decodes
<1>6. Belongs(a, l)
  BY <1>1, AdvanceIs DEF Belongs
<1> HIDE DEF a
<1>7. Ingest(a, l).st = "Usable"
  BY <1>3, <1>4, <1>6, BelongsGood
<1> QED BY <1>5, <1>7 DEF Pending

(* What the start of a process does to what is counted.                      *)
LEMMA StartingCounts ==
  ASSUME CountsInv, NEW m \in {"canonical", "memory"}, Starting(m)
  PROVE  /\ mode' = m /\ boot' = boot + 1 /\ boot' \in Nat /\ boot <= boot' /\ boot < MaxBoots
         /\ floor' \in Nat /\ floor <= floor' /\ taken' = taken /\ job' = NoJob
         /\ poisoned' = FALSE /\ last_state' = None /\ Signed'
         /\ Mine(taken', boot') = {} /\ Count(taken', boot') = 0
<1>1. /\ mode' = m /\ boot' = boot + 1 /\ boot < MaxBoots /\ job' = NoJob /\ last_state' = None
      /\ poisoned' = FALSE /\ taken' = taken /\ floor' = Max({floor, Cutoff(days, now)})
  BY DEF Starting, ghost
<1>2. boot \in Nat /\ floor \in Nat /\ taken \in Seq(Takes) /\ floor \in 0..MaxTime
  BY CountFacts
<1>3. Cutoff(days, now) \in Nat
  BY CountFacts, CutoffIs
<1>4. floor' = IF floor >= Cutoff(days, now) THEN floor ELSE Cutoff(days, now)
  BY <1>1, <1>2, <1>3, MaxOfTwo
<1>5. floor' \in Nat /\ floor <= floor' /\ boot' \in Nat /\ boot <= boot'
  BY <1>1, <1>2, <1>3, <1>4
<1>6. Mine(taken', boot') = {} /\ Count(taken', boot') = 0
  BY <1>1, NoneMine
<1>7. ASSUME NEW i \in 1..Len(taken) PROVE taken[i].boot <= boot'
  <2>1. taken[i].boot <= boot
    BY DEF CountsInv, Signed
  <2>2. taken[i] \in Takes
    BY <1>2
  <2>3. taken[i].boot \in Nat
    BY <2>2 DEF Takes
  <2> QED BY <1>1, <1>2, <2>1, <2>3
<1>8. Signed'
  BY <1>1, <1>7 DEF Signed
<1> QED BY <1>1, <1>5, <1>6, <1>8

(* History::open.                                                           *)
LEMMA OpenCounts == CountsInv /\ Open => CountsInv'
<1> SUFFICES ASSUME CountsInv, Open PROVE CountsInv'
  OBVIOUS
<1> DEFINE found == Scan(file)
           x == Replayed(found.records, Cutoff(days, now))
           sep == Separated(file)
           k == Len(taken)
<1>1. /\ now >= found.bound /\ Starting("canonical")
      /\ file' = Write(sep, BootLine) /\ safe' = file'
      /\ old' = (IF file = <<>> THEN {} ELSE old) /\ last_timestamp' = now
      /\ points' = x.points /\ last_parsed' = x.last /\ last_sample_boot' = x.lastBoot
  BY DEF Open
<1>2. /\ mode' = "canonical" /\ boot' = boot + 1 /\ boot' \in Nat /\ boot <= boot' /\ boot < MaxBoots
      /\ floor' \in Nat /\ floor <= floor' /\ taken' = taken /\ job' = NoJob
      /\ poisoned' = FALSE /\ last_state' = None /\ Signed'
      /\ Mine(taken', boot') = {} /\ Count(taken', boot') = 0
  BY <1>1, StartingCounts
<1>3. /\ taken \in Seq(Takes) /\ k \in Nat /\ floor \in Nat /\ boot \in Nat /\ HistoryInv
      /\ now \in 0..MaxTime /\ days \in Retentions /\ Begins(taken, taken)
  BY CountFacts
<1>4. HistoryInv'
  BY <1>3, OpenKeeps
<1>5. Stream(file, taken, floor, boot) /\ \A f \in old : Stream(f, taken, floor, boot)
  BY DEF CountsInv, Streams
<1>6. Stream(sep, taken, floor, boot) /\ ~Unterminated(sep)
  BY <1>5, SeparatedStream
<1>7. file' = Append(sep, BootLine)
  BY <1>1, <1>6 DEF Write
<1>8. /\ BootLine \in Told(taken, boot') /\ Fits(sep, BootLine, taken, floor)
      /\ BootLine.kind = "boot" /\ BootLine.boot = boot' /\ BootLine.form = "ok" /\ BootLine.t = now
  BY <1>2, <1>6, BootFits
<1>9. sep \in Seq(Lines) /\ BootLine \in Lines
  <2>1. Told(taken, boot) \subseteq Lines /\ Told(taken, boot') \subseteq Lines
    BY DEF Told
  <2>2. sep \in Seq(Told(taken, boot))
    BY <1>6 DEF Stream
  <2> QED BY <1>8, <2>1, <2>2, SeqMonotonic
<1> HIDE DEF sep
<1>10. Stream(file', taken, floor, boot')
  <2>1. Stream(sep, taken, floor, boot')
    BY <1>2, <1>3, <1>6, StreamGrows
  <2> QED BY <1>7, <1>8, <2>1, StreamAppend
<1>11. Streams'
  <2>1. Stream(file', taken', floor', boot')
    BY <1>2, <1>3, <1>10, StreamGrows
  <2>2. \A f \in old' : Stream(f, taken', floor', boot')
    BY <1>1, <1>2, <1>3, <1>5, StreamGrows
  <2> QED BY <1>1, <2>1, <2>2 DEF Streams
<1>12. Pending(Pass(file'))
  <2>1. found.bound <= now
    <3>1. found.bound \in None..MaxTime
      <4>1. file \in Seq(Below(k, MaxTime))
        BY <1>3, Facts
      <4>2. Below(k, MaxTime) \subseteq Lines
        BY <4>1, BelowLines
      <4> QED BY <4>1, <4>2, ScanGood
    <3> QED BY <1>1, <1>3, <3>1, Bounds
  <2>2. now \in Int /\ now \in None..MaxTime
    BY <1>3, Bounds
  <2>3. file \in Seq(Below(k, now))
    <3>1. file \in Seq(Below(k, MaxTime)) /\ MaxTime \in Int
      BY <1>3, Facts
    <3> QED BY <1>3, <2>1, <2>2, <3>1, Bounded
  <2>4. sep \in Seq(Below(k, now))
    BY <1>3, <2>2, <2>3, SeparatedIs DEF sep
  <2>5. Pass(sep).bound <= now
    BY <1>3, <2>2, <2>4, PassBound
  <2>6. Good(Pass(sep), Lines) /\ Pass(file') = Scanned(Pass(sep), BootLine)
    BY <1>7, <1>9, PassGood, PassAppend
  <2>7. Pass(sep).bound \in Int
    BY <2>6, StateFields DEF Good
  <2>8. BootLine.t >= Pass(sep).bound /\ BootLine.form \in Decodes
    BY <1>8, <2>2, <2>5, <2>7 DEF Decodes
  <2> QED BY <1>8, <1>9, <2>6, <2>8, BootPending
<1>13. Last(file') = BootLine /\ file' # <<>>
  BY <1>7, <1>9 DEF Last
<1>14. LiveEnd'
  <2>1. Shows(taken', BootLine) = 0
    BY <1>8 DEF Shows
  <2>2. BootLine.form \in Decodes
    BY <1>8 DEF Decodes
  <2> QED BY <1>2, <1>8, <1>12, <1>13, <2>1, <2>2 DEF LiveEnd
<1>15. /\ Truth(x.points, taken, floor) /\ (x.last = None \/ x.lastBoot <= boot)
       /\ x.points \in Seq(Points) /\ x.lastBoot \in Int
  <2>1. Stream(found.records, taken, floor, boot) /\ Chain(found.records)
    BY <1>5, ScanStream
  <2>2. Cutoff(days, now) \in Nat
    BY <1>3, CutoffIs
  <2>3. Truth(x.points, taken, floor) /\ (x.last = None \/ x.lastBoot <= boot)
    BY <1>3, <2>1, <2>2, ReplayTrue
  <2>4. x \in Indexes
    <3>1. found.records \in Seq(Told(taken, boot)) /\ Told(taken, boot) \subseteq Lines
      BY <2>1 DEF Stream, Told
    <3>2. found.records \in Seq(Lines)
      BY <3>1, SeqMonotonic
    <3> QED BY <2>1, <2>2, <3>2, ReplayedIs
  <2> HIDE DEF x
  <2> QED BY <2>3, <2>4 DEF Indexes
<1> HIDE DEF x
<1>16. Shown'
  BY <1>1, <1>2, <1>3, <1>15, TruthGrows DEF Shown
<1>17. Known'
  <2>1. x.last = None \/ x.lastBoot # boot'
    BY <1>2, <1>3, <1>15
  <2> QED BY <1>1, <1>2, <2>1 DEF Known
<1> QED BY <1>2, <1>4, <1>11, <1>14, <1>16, <1>17 DEF CountsInv

(* A process without the store.                                              *)
LEMMA MemoryCounts ==
  ASSUME CountsInv, InMemory, HistoryInv',
         Stream(file', taken, floor, boot + 1), Stream(safe', taken, floor, boot + 1),
         \A f \in old' : Stream(f, taken, floor, boot + 1)
  PROVE  CountsInv'
<1>1. /\ Starting("memory") /\ points' = <<>> /\ last_parsed' = None
  BY DEF InMemory
<1>2. /\ mode' = "memory" /\ boot' = boot + 1 /\ boot' \in Nat
      /\ floor' \in Nat /\ floor <= floor' /\ taken' = taken /\ Signed'
      /\ Mine(taken', boot') = {}
  BY <1>1, StartingCounts
<1>3. taken \in Seq(Takes) /\ floor \in Nat /\ Begins(taken, taken) /\ boot' <= boot'
  BY <1>2, CountFacts
<1>4. Streams'
  <2>1. ASSUME NEW f, Stream(f, taken, floor, boot') PROVE Stream(f, taken', floor', boot')
    BY <1>2, <1>3, <2>1, StreamGrows
  <2>2. /\ Stream(file', taken, floor, boot') /\ Stream(safe', taken, floor, boot')
        /\ \A f \in old' : Stream(f, taken, floor, boot')
    BY <1>2
  <2> QED BY <2>1, <2>2 DEF Streams
<1>5. LiveEnd' /\ Known'
  BY <1>1, <1>2 DEF LiveEnd, Known
<1>6. Shown'
  BY <1>1 DEF Shown, Truth
<1> QED BY <1>2, <1>4, <1>5, <1>6 DEF CountsInv

(* An open that refuses.                                                     *)
LEMMA RefusedCounts == CountsInv /\ OpenRefused => CountsInv'
<1> SUFFICES ASSUME CountsInv, OpenRefused PROVE CountsInv'
  OBVIOUS
<1>1. InMemory /\ file' = file /\ safe' = safe /\ old' = old
  BY DEF OpenRefused, disk
<1>2. HistoryInv'
  BY RefusedKeeps DEF CountsInv
<1>3. boot + 1 \in Nat /\ boot <= boot + 1 /\ floor \in Nat /\ floor <= floor
  BY CountFacts
<1>4. /\ Stream(file, taken, floor, boot) /\ Stream(safe, taken, floor, boot)
      /\ \A f \in old : Stream(f, taken, floor, boot)
  BY DEF CountsInv, Streams
<1>5. /\ Stream(file, taken, floor, boot + 1) /\ Stream(safe, taken, floor, boot + 1)
      /\ \A f \in old : Stream(f, taken, floor, boot + 1)
  BY <1>3, <1>4, StreamsStart
<1> QED BY <1>1, <1>2, <1>5, MemoryCounts

(* An open that fails.                                                       *)
LEMMA OpenFailsCounts == CountsInv /\ OpenFails => CountsInv'
<1> SUFFICES ASSUME CountsInv, OpenFails PROVE CountsInv'
  OBVIOUS
<1>1. /\ InMemory
      /\ \/ /\ file = <<>> /\ file' \in {<<>>, <<BootLine>>} /\ safe' = file' /\ old' = {<<>>}
         \/ /\ file' \in {file} \cup Tails(Separated(file), BootLine)
            /\ safe' = safe /\ old' = old
  BY DEF OpenFails
<1>2. HistoryInv'
  BY OpenFailsKeeps DEF CountsInv
<1>3. boot + 1 \in Nat /\ boot <= boot + 1 /\ floor \in Nat /\ floor <= floor
  BY CountFacts
<1>4. boot < MaxBoots
  BY <1>1 DEF InMemory, Starting
<1>5. /\ Stream(file, taken, floor, boot) /\ Stream(safe, taken, floor, boot)
      /\ \A f \in old : Stream(f, taken, floor, boot)
  BY DEF CountsInv, Streams
<1>6. /\ Stream(file, taken, floor, boot + 1) /\ Stream(safe, taken, floor, boot + 1)
      /\ \A f \in old : Stream(f, taken, floor, boot + 1)
  BY <1>3, <1>5, StreamsStart
<1>7. CASE file = <<>> /\ file' \in {<<>>, <<BootLine>>} /\ safe' = file' /\ old' = {<<>>}
  <2>1. BootLine \in Told(taken, boot + 1) /\ Fits(<<>>, BootLine, taken, floor)
    BY <1>4, <1>5, <1>7, BootFits
  <2>2. Stream(Append(<<>>, BootLine), taken, floor, boot + 1)
    BY <1>6, <1>7, <2>1, StreamAppend
  <2>3. Append(<<>>, BootLine) = <<BootLine>>
    OBVIOUS
  <2>4. Stream(file', taken, floor, boot + 1)
    BY <1>6, <1>7, <2>2, <2>3
  <2> QED BY <1>1, <1>2, <1>6, <1>7, <2>4, MemoryCounts
<1>8. CASE /\ file' \in {file} \cup Tails(Separated(file), BootLine)
           /\ safe' = safe /\ old' = old
  <2>1. Stream(Separated(file), taken, floor, boot)
    BY <1>5, SeparatedStream
  <2>2. Stream(Separated(file), taken, floor, boot + 1)
    BY <1>3, <2>1, StreamsStart
  <2>3. BootLine \in Told(taken, boot + 1) /\ Fits(Separated(file), BootLine, taken, floor)
    BY <1>4, <2>1, BootFits
  <2>4. Stream(file', taken, floor, boot + 1)
    BY <1>6, <1>8, <2>2, <2>3, TailsStream
  <2> QED BY <1>1, <1>2, <1>6, <1>8, <2>4, MemoryCounts
<1> QED BY <1>1, <1>7, <1>8

(* A crash.                                                                 *)
LEMMA CrashCounts == CountsInv /\ Crash => CountsInv'
<1> SUFFICES ASSUME CountsInv, Crash PROVE CountsInv'
  OBVIOUS
<1>1. /\ file' \in {file, safe} \cup old /\ safe' = file' /\ old' = {} /\ mode' = "down"
      /\ points' = <<>> /\ job' = NoJob /\ boot' = boot /\ floor' = floor /\ taken' = taken
  BY DEF Crash, ghost
<1>2. HistoryInv'
  BY CrashKeeps DEF CountsInv
<1>3. Streams'
  BY <1>1 DEF CountsInv, Streams
<1>4. Signed'
  BY <1>1 DEF CountsInv, Signed
<1>5. LiveEnd' /\ Known'
  BY <1>1 DEF LiveEnd, Known
<1>6. Shown'
  BY <1>1 DEF Shown, Truth
<1> QED BY <1>2, <1>3, <1>4, <1>5, <1>6 DEF CountsInv

-----------------------------------------------------------------------------
(* A member of a subsequence is one of the sequence.                         *)
LEMMA OnlyFrom ==
  ASSUME NEW S, NEW ps \in Seq(S), NEW keep
  PROVE  /\ Only(ps, keep) \in Seq(S)
         /\ \A i \in 1..Len(Only(ps, keep)) :
              \E j \in 1..Len(ps) : j \in keep /\ Only(ps, keep)[i] = ps[j]
         /\ \A j \in 1..Len(ps) : j \in keep =>
              \E i \in 1..Len(Only(ps, keep)) : Only(ps, keep)[i] = ps[j]
<1> DEFINE out == Only(ps, keep)
<1>1. out \in Seq(S) /\ \E pos : Places(pos, out, ps, keep, Len(ps))
  BY OnlyPlaces
<1>2. PICK pos : Places(pos, out, ps, keep, Len(ps))
  BY <1>1
<1> HIDE DEF out
<1>3. \A i \in 1..Len(out) : \E j \in 1..Len(ps) : j \in keep /\ out[i] = ps[j]
  BY <1>2 DEF Places
<1>4. \A j \in 1..Len(ps) : j \in keep => \E i \in 1..Len(out) : out[i] = ps[j]
  BY <1>2 DEF Places
<1> QED BY <1>1, <1>3, <1>4 DEF out

(* Pruning keeps what is true of the points.                                 *)
LEMMA PruneCounts ==
  ASSUME CountsInv, NEW c
  PROVE  /\ PrunedBy(c) \in Seq(Points) /\ Truth(PrunedBy(c), taken, floor)
         /\ \A i \in 1..Len(PrunedBy(c)) : \E j \in 1..Len(points) : PrunedBy(c)[i] = points[j]
<1>1. points \in Seq(Points) /\ Truth(points, taken, floor)
  BY CountFacts DEF CountsInv, Shown
<1>2. /\ PrunedBy(c) \in Seq(Points)
      /\ \A i \in 1..Len(PrunedBy(c)) : \E j \in 1..Len(points) : PrunedBy(c)[i] = points[j]
  <2> DEFINE keep == {i \in DOMAIN points : points[i].t >= c}
  <2>1. PrunedBy(c) = Only(points, keep)
    BY DEF PrunedBy
  <2> HIDE DEF keep
  <2> QED BY <1>1, <2>1, OnlyFrom
<1>3. Truth(PrunedBy(c), taken, floor)
  BY <1>1, TruthOnly DEF PrunedBy
<1> QED BY <1>2, <1>3

(* A sample is stamped no earlier than any point.                            *)
LEMMA StampLast ==
  ASSUME CountsInv
  PROVE  \A i \in 1..Len(points) : points[i].t <= Stamp(now)
<1> DEFINE P == {now} \cup (IF points = <<>> THEN {} ELSE {Last(points).t})
                      \cup (IF mode = "canonical" THEN {last_timestamp} ELSE {})
<1>1. points \in Seq(Points) /\ Truth(points, taken, floor) /\ now \in 0..MaxTime
  BY CountFacts DEF CountsInv, Shown
<1>2. last_timestamp \in None..MaxTime
  BY Facts DEF CountsInv
<1> SUFFICES ASSUME NEW i \in 1..Len(points) PROVE points[i].t <= Stamp(now)
  OBVIOUS
<1>3. points # <<>> /\ Len(points) \in Nat /\ Len(points) \in 1..Len(points)
  BY <1>1
<1>4. Last(points) = points[Len(points)]
  BY DEF Last
<1>5. points[i].t \in 0..MaxTime /\ Last(points).t \in 0..MaxTime
  BY <1>1, <1>3, <1>4, PointTimes
<1>6. points[i].t <= Last(points).t
  <2>1. i = Len(points) \/ i < Len(points)
    BY <1>3
  <2> QED BY <1>1, <1>3, <1>4, <1>5, <2>1 DEF Truth
<1>7. P \subseteq None..MaxTime /\ P # {} /\ Last(points).t \in P
  BY <1>1, <1>2, <1>3, <1>5, Bounds
<1>8. Stamp(now) = Max(P)
  BY DEF Stamp
<1> HIDE DEF P
<1>9. Max(P) \in P /\ Last(points).t <= Max(P)
  BY <1>7, MaxTimeOf
<1>10. Max(P) \in Int
  <2>1. Max(P) \in None..MaxTime
    BY <1>7, <1>9
  <2> QED BY <2>1, Bounds
<1> QED BY <1>5, <1>6, <1>8, <1>9, <1>10, Bounds

(* A sample is taken.                                                       *)
LEMMA IndexedCounts ==
  ASSUME CountsInv, NEW v \in 0..MaxCount, AppendIndexed(v)
  PROVE  CountsInv'
<1> DEFINE t == Stamp(now)
           k == Len(taken)
           n == k + 1
           c == Cutoff(days, t)
           d == Normalize(last_parsed, v, Reset(last_parsed, last_sample_boot, boot))
           p == [n |-> n, t |-> t, d |-> d]
           e == [boot |-> boot, t |-> t, v |-> v]
<1>1. /\ mode # "down" /\ job = NoJob /\ n <= MaxSamples /\ v >= Counted
      /\ points' = Append(PrunedBy(c), p) /\ last_parsed' = v /\ last_sample_boot' = boot
      /\ floor' = Max({floor, c})
      /\ job' = (IF mode = "canonical" THEN [n |-> n, t |-> t, v |-> v] ELSE NoJob)
      /\ taken' = Append(taken, e)
  BY DEF AppendIndexed
<1>2. /\ file' = file /\ safe' = safe /\ old' = old /\ mode' = mode /\ boot' = boot
      /\ poisoned' = poisoned /\ last_state' = last_state
  BY DEF AppendIndexed, disk, store
<1>3. /\ taken \in Seq(Takes) /\ k \in Nat /\ floor \in Nat /\ boot \in Nat /\ HistoryInv
      /\ now \in 0..MaxTime /\ days \in Retentions /\ boot \in 0..MaxBoots /\ boot <= boot
  BY CountFacts
<1>4. HistoryInv'
  BY <1>3, IndexedKeeps
<1>5. t \in 0..MaxTime /\ v \in Nat
  BY <1>3, StampIs, Bounds
<1>6. c \in Nat
  BY <1>3, <1>5, CutoffIs
<1> HIDE DEF c
<1>7. floor' \in Nat /\ floor <= floor'
  <2>1. floor' = IF floor >= c THEN floor ELSE c
    BY <1>1, <1>3, <1>6, MaxOfTwo
  <2> QED BY <1>3, <1>6, <2>1
<1>8. e \in Takes /\ e.boot = boot /\ e.v = v
  BY <1>3, <1>5 DEF Takes
<1> HIDE DEF t, e
<1>9. /\ taken' \in Seq(Takes) /\ Begins(taken, taken') /\ Len(taken') = n /\ taken'[n] = e
      /\ n \in 1..Len(taken') /\ Gain(taken', n) = v - Count(taken, boot)
      /\ Count(taken', boot) = v /\ Mine(taken', boot) # {}
  BY <1>1, <1>3, <1>8, TakeIs
<1>10. Count(taken, boot) \in Nat /\ Count(taken, boot) <= v
  <2>1. Counted = Count(taken, boot)
    <3>1. DOMAIN taken = 1..k
      BY <1>3
    <3> QED BY <3>1 DEF Counted, Count, Mine
  <2>2. Count(taken, boot) \in Nat
    BY <1>3, CountIs
  <2> QED BY <1>1, <1>5, <2>1, <2>2
<1>11. d = Gain(taken', n) /\ Gain(taken', n) \in Nat
  BY <1>1, <1>5, <1>9, <1>10, TailIs
<1>12. Streams'
  <2>1. ASSUME NEW f, Stream(f, taken, floor, boot) PROVE Stream(f, taken', floor', boot')
    BY <1>2, <1>3, <1>7, <1>9, <2>1, StreamGrows
  <2>2. /\ Stream(file, taken, floor, boot) /\ Stream(safe, taken, floor, boot)
        /\ \A f \in old : Stream(f, taken, floor, boot)
    BY DEF CountsInv, Streams
  <2> QED BY <1>2, <2>1, <2>2 DEF Streams
<1>13. Signed'
  <2>1. ASSUME NEW m \in 1..Len(taken') PROVE taken'[m].boot <= boot'
    <3>1. m \in 1..k \/ m = n
      BY <1>3, <1>9
    <3>2. CASE m = n
      BY <1>2, <1>3, <1>8, <1>9, <3>2
    <3>3. CASE m \in 1..k
      <4>1. taken'[m] = taken[m]
        BY <1>9, <3>3 DEF Begins
      <4> QED BY <1>2, <3>3, <4>1 DEF CountsInv, Signed
    <3> QED BY <3>1, <3>2, <3>3
  <2>2. ASSUME job' # NoJob
        PROVE  /\ job'.n = Len(taken') /\ job'.v = taken'[job'.n].v
               /\ taken'[job'.n].boot = boot' /\ Gain(taken', job'.n) \in Nat
    <3>1. job' = [n |-> n, t |-> t, v |-> v]
      BY <1>1, <2>2
    <3>2. job'.n = n /\ job'.v = v
      BY <3>1
    <3> QED BY <1>2, <1>8, <1>9, <1>11, <3>2
  <2> QED BY <2>1, <2>2 DEF Signed
<1>14. LiveEnd'
  <2> SUFFICES ASSUME mode = "canonical", ~poisoned
               PROVE  /\ file # <<>> /\ Pending(Pass(file)) /\ Last(file).boot = boot
                      /\ Last(file).form \in Decodes
                      /\ last_state = IF Last(file).kind = "boot" THEN None
                                      ELSE Shows(taken', Last(file))
                      /\ Shows(taken', Last(file))
                           = IF job' = NoJob THEN Count(taken', boot)
                             ELSE job'.v - Gain(taken', job'.n)
    BY <1>2 DEF LiveEnd
  <2>1. /\ file # <<>> /\ Pending(Pass(file)) /\ Last(file).boot = boot
        /\ Last(file).form \in Decodes
        /\ last_state = IF Last(file).kind = "boot" THEN None ELSE Shows(taken, Last(file))
        /\ Shows(taken, Last(file)) = Count(taken, boot)
    BY <1>1 DEF CountsInv, LiveEnd
  <2>2. Shows(taken', Last(file)) = Shows(taken, Last(file))
    <3>1. file \in Seq(Told(taken, boot))
      BY DEF CountsInv, Streams, Stream
    <3>2. Last(file) \in Told(taken, boot)
      BY <2>1, <3>1, LastFront
    <3>3. Last(file).kind # "boot" => Last(file).n \in 1..k
      BY <3>2 DEF Told
    <3> QED BY <1>9, <3>3 DEF Shows, Begins
  <2>3. job'.n = n /\ job'.v = v /\ job' # NoJob
    <3>1. job' = [n |-> n, t |-> t, v |-> v]
      BY <1>1
    <3>2. job'.n = n /\ job'.v = v
      BY <3>1
    <3>3. NoJob.n = 0 /\ n # 0
      BY <1>3 DEF NoJob
    <3> QED BY <3>2, <3>3
  <2>4. Count(taken, boot) = v - Gain(taken', n)
    BY <1>5, <1>9, <1>10
  <2> QED BY <2>1, <2>2, <2>3, <2>4
<1>15. Known'
  BY <1>1, <1>2, <1>9 DEF Known
<1>16. Shown'
  <2> DEFINE ps == PrunedBy(c)
  <2>1. /\ ps \in Seq(Points) /\ Truth(ps, taken, floor)
        /\ \A i \in 1..Len(ps) : \E j \in 1..Len(points) : ps[i] = points[j]
    BY PruneCounts
  <2>2. Truth(ps, taken', floor')
    <3> HIDE DEF ps
    <3> QED BY <1>3, <1>7, <1>9, <2>1, TruthGrows
  <2>3. \A i \in 1..Len(points) : points[i].t <= t
    BY StampLast DEF t
  <2>4. \A i \in 1..Len(ps) : ps[i].t <= t
    <3> HIDE DEF ps
    <3> QED BY <2>1, <2>3
  <2>5. d \in 0..MaxCount
    <3>1. last_parsed \in None..MaxCount
      BY <1>3 DEF HistoryInv, HistoryTypes
    <3>2. Reset(last_parsed, last_sample_boot, boot) \in BOOLEAN
      BY DEF Reset
    <3> QED BY <3>1, <3>2, NormalizeIs
  <2> HIDE DEF d, ps
  <2>6. n \in 1..MaxSamples
    BY <1>1, <1>3, Bounds
  <2>7. p \in Points /\ p.n = n /\ p.t = t /\ p.d = d
    BY <1>5, <2>5, <2>6 DEF Points
  <2> HIDE DEF p
  <2>8. Truth(Append(ps, p), taken', floor')
    BY <1>9, <1>11, <2>1, <2>2, <2>4, <2>7, TruthAppend
  <2> QED BY <1>1, <2>8 DEF Shown, ps
<1> QED BY <1>4, <1>12, <1>13, <1>14, <1>15, <1>16 DEF CountsInv

-----------------------------------------------------------------------------
(* The line of the sample to be written.                                     *)
LEMMA NextFits ==
  ASSUME CountsInv, job # NoJob, ~poisoned
  PROVE  /\ NextLine \in Told(taken, boot) /\ Fits(file, NextLine, taken, floor)
         /\ mode = "canonical" /\ NextLine.kind # "boot" /\ NextLine.form = "ok"
         /\ NextLine.boot = boot /\ NextLine.t = job.t /\ Shows(taken, NextLine) = job.v
         /\ NextLine.kind = "check" => Last(file).kind # "boot"
<1> DEFINE l == NextLine
<1>1. /\ l \in Below(Len(taken), job.t) /\ l.form = "ok" /\ mode = "canonical" /\ job.t \in 0..MaxTime
  BY NextLineIs DEF CountsInv
<1>2. l \in Lines
  BY <1>1 DEF Below
<1>3. /\ job.n = Len(taken) /\ job.v = taken[job.n].v /\ taken[job.n].boot = boot
      /\ Gain(taken, job.n) \in Nat /\ job.n \in 1..Len(taken)
  BY DEF CountsInv, Signed, HistoryInv, Working
<1>4. job.v \in 0..MaxCount
  BY DEF CountsInv, HistoryInv, HistoryTypes
<1>5. /\ l.kind = (IF last_state = job.v THEN "check" ELSE "sample") /\ l.boot = boot
      /\ l.n = job.n /\ l.t = job.t /\ l.v = (IF last_state = job.v THEN None ELSE job.v)
  BY DEF NextLine, Line
<1>6. /\ file # <<>> /\ Last(file).boot = boot
      /\ last_state = IF Last(file).kind = "boot" THEN None ELSE Shows(taken, Last(file))
      /\ Shows(taken, Last(file)) = job.v - Gain(taken, job.n)
  BY <1>1 DEF CountsInv, LiveEnd
<1> HIDE DEF l
<1>7. boot \in Nat /\ l.kind # "boot"
  BY <1>5, CountFacts
<1>8. Shows(taken, l) = job.v
  BY <1>3, <1>5, <1>7 DEF Shows
<1>9. l \in Told(taken, boot)
  BY <1>2, <1>3, <1>5, <1>7 DEF Told
<1>10. l.kind = "check" => Last(file).kind # "boot" /\ Shows(taken, Last(file)) = job.v
  BY <1>4, <1>5, <1>6, Bounds
<1>11. Last(file) \in Lines
  <2>1. file \in Seq(Told(taken, boot)) /\ Told(taken, boot) \subseteq Lines
    BY DEF CountsInv, Streams, Stream, Told
  <2> QED BY <1>6, <2>1, LastFront
<1>12. <<Last(file), l>> \in Steps(taken, floor)
  <2>1. Shows(taken, Last(file)) <= Shows(taken, l)
    BY <1>3, <1>4, <1>6, <1>8
  <2>2. Shows(taken, l) - Shows(taken, Last(file)) = Gain(taken, l.n)
    BY <1>3, <1>4, <1>5, <1>6, <1>8
  <2> QED BY <1>2, <1>5, <1>6, <1>8, <1>10, <1>11, <2>1, <2>2 DEF Steps
<1>13. Fits(file, l, taken, floor)
  BY <1>7, <1>12 DEF Fits
<1> QED BY <1>1, <1>5, <1>7, <1>8, <1>9, <1>10, <1>13 DEF l

(* A sample is written.                                                     *)
LEMMA WrittenCounts == CountsInv /\ AppendWritten => CountsInv'
<1> SUFFICES ASSUME CountsInv, AppendWritten PROVE CountsInv'
  OBVIOUS
<1> DEFINE k == Len(taken)
           l == NextLine
           s == Pass(file)
<1>1. /\ job # NoJob /\ ~poisoned /\ job.t >= last_timestamp
      /\ file' = Write(file, l) /\ safe' = file' /\ last_state' = job.v /\ job' = NoJob
  BY DEF AppendWritten
<1>2. /\ old' = old /\ mode' = mode /\ boot' = boot /\ poisoned' = poisoned /\ points' = points
      /\ last_parsed' = last_parsed /\ last_sample_boot' = last_sample_boot
      /\ floor' = floor /\ taken' = taken
  BY DEF AppendWritten, index
<1>3. /\ l \in Told(taken, boot) /\ Fits(file, l, taken, floor)
      /\ mode = "canonical" /\ l.kind # "boot" /\ l.form = "ok"
      /\ l.boot = boot /\ l.t = job.t /\ Shows(taken, l) = job.v
      /\ l.kind = "check" => Last(file).kind # "boot"
  BY <1>1, NextFits
<1>4. /\ taken \in Seq(Takes) /\ k \in Nat /\ HistoryInv
  BY CountFacts
<1>5. HistoryInv'
  BY <1>4, WrittenKeeps
<1>6. /\ file # <<>> /\ Pending(s) /\ Last(file).boot = boot /\ Last(file).form \in Decodes
  BY <1>1, <1>3 DEF CountsInv, LiveEnd
<1>7. file' = Append(file, l)
  BY <1>1, <1>6 DEF Write, Unterminated, Decodes
<1>8. /\ Stream(file, taken, floor, boot) /\ file \in Seq(Told(taken, boot))
      /\ Tied(file, Steps(taken, floor)) /\ Told(taken, boot) \subseteq Lines
  BY DEF CountsInv, Streams, Stream, Told
<1>9. file \in Seq(Lines) /\ l \in Lines
  BY <1>3, <1>8, SeqMonotonic
<1> HIDE DEF l
<1>10. Streams'
  <2>1. Stream(file', taken, floor, boot)
    BY <1>3, <1>7, <1>8, StreamAppend
  <2>2. \A f \in old : Stream(f, taken, floor, boot)
    BY DEF CountsInv, Streams
  <2> QED BY <1>1, <1>2, <2>1, <2>2 DEF Streams
<1>11. Signed'
  BY <1>1, <1>2 DEF CountsInv, Signed
<1>12. Pending(Pass(file'))
  <2>1. Good(s, Lines) /\ Pass(file') = Scanned(s, l)
    BY <1>7, <1>9, PassGood, PassAppend
  <2>2. s.bound <= last_timestamp
    <3>1. file \in Seq(Below(k, last_timestamp))
      BY <1>1, <1>3, <1>4 DEF HistoryInv, DiskLines
    <3>2. last_timestamp \in None..MaxTime
      BY <1>4, Facts
    <3> QED BY <1>4, <3>1, <3>2, PassBound
  <2>3. l.t >= s.bound
    <3>1. s.bound \in Int
      <4>1. s \in States(Lines)
        BY <2>1 DEF Good
      <4> HIDE DEF s
      <4> QED BY <4>1, StateFields
    <3>2. last_timestamp \in Int
      BY <1>4, Facts
    <3>3. l.t \in Int
      BY <1>9, LineFields
    <3> HIDE DEF s
    <3> QED BY <1>1, <1>3, <2>2, <3>1, <3>2, <3>3
  <2>4. Tracks(s, file, Len(file), Steps(taken, floor))
    BY <1>8, PassTied
  <2>5. Last(Held(s)) = Last(file)
    BY <1>6, <2>4 DEF Tracks, Last
  <2>6. InEpoch(s) /\ s \in States(Lines)
    BY <1>6, <2>1 DEF Good
  <2>7. s.epoch # <<>> /\ s.epoch \in Seq(Lines)
    BY <2>6, StateFields DEF InEpoch
  <2>8. Last(s.epoch) = Last(file)
    BY <2>5, <2>6, <2>7, HeldLast
  <2>9. s.epoch[1].boot = boot
    <3> HIDE DEF s
    <3>1. Last(s.epoch) = s.epoch[Len(s.epoch)]
      BY DEF Last
    <3>2. Len(s.epoch) \in 1..Len(s.epoch)
      BY <2>7
    <3> QED BY <1>6, <2>6, <2>8, <3>1, <3>2 DEF InEpoch
  <2>10. s.st = "Usable" \/ l.kind = "sample"
    <3>1. l.kind \in {"boot", "sample", "check"}
      BY <1>9, LineFields
    <3> QED BY <1>3, <2>6, <2>8, <3>1 DEF InEpoch
  <2>11. Belongs(s, l)
    BY <1>3, <1>6, <2>9, <2>10 DEF Belongs
  <2>12. l.form \in Decodes
    BY <1>3 DEF Decodes
  <2> HIDE DEF s
  <2> QED BY <1>3, <1>9, <2>1, <2>3, <2>11, <2>12, SamplePending
<1>13. Last(file') = l /\ file' # <<>>
  BY <1>7, <1>9 DEF Last
<1>14. LiveEnd'
  <2>1. Count(taken, boot) = job.v
    <3>1. /\ job.n = Len(taken) /\ job.v = taken[job.n].v /\ taken[job.n].boot = boot
          /\ job.n \in 1..Len(taken)
      BY <1>1 DEF CountsInv, Signed, HistoryInv, Working
    <3> QED BY <1>4, <3>1, CountLast
  <2>2. l.form \in Decodes
    BY <1>3 DEF Decodes
  <2> QED BY <1>1, <1>2, <1>3, <1>12, <1>13, <2>1, <2>2 DEF LiveEnd
<1>15. Known' /\ Shown'
  BY <1>2 DEF CountsInv, Known, Shown
<1> QED BY <1>5, <1>10, <1>11, <1>14, <1>15 DEF CountsInv

(* A write fails.                                                           *)
LEMMA FailsCounts == CountsInv /\ AppendFails => CountsInv'
<1> SUFFICES ASSUME CountsInv, AppendFails PROVE CountsInv'
  OBVIOUS
<1>1. /\ job # NoJob /\ ~poisoned /\ file' \in Tails(file, NextLine) /\ poisoned' = TRUE
      /\ job' = NoJob
  BY DEF AppendFails
<1>2. /\ safe' = safe /\ old' = old /\ mode' = mode /\ boot' = boot /\ points' = points
      /\ last_parsed' = last_parsed /\ last_sample_boot' = last_sample_boot
      /\ floor' = floor /\ taken' = taken
  BY DEF AppendFails, index, ghost
<1>3. HistoryInv'
  BY FailsKeeps DEF CountsInv
<1>4. NextLine \in Told(taken, boot) /\ Fits(file, NextLine, taken, floor)
  BY <1>1, NextFits
<1>5. /\ Stream(file, taken, floor, boot) /\ Stream(safe, taken, floor, boot)
      /\ \A f \in old : Stream(f, taken, floor, boot)
  BY DEF CountsInv, Streams
<1>6. Stream(file', taken, floor, boot)
  BY <1>1, <1>4, <1>5, TailsStream
<1>7. Streams'
  BY <1>2, <1>5, <1>6 DEF Streams
<1>8. Signed' /\ Known' /\ Shown'
  BY <1>1, <1>2 DEF CountsInv, Signed, Known, Shown
<1>9. LiveEnd'
  BY <1>1 DEF LiveEnd
<1> QED BY <1>3, <1>7, <1>8, <1>9 DEF CountsInv

(* A sample is rejected, only after a write has failed.                      *)
LEMMA RejectedCounts == CountsInv /\ AppendRejected => CountsInv'
<1> SUFFICES ASSUME CountsInv, AppendRejected PROVE CountsInv'
  OBVIOUS
<1>1. /\ job # NoJob /\ (poisoned \/ job.t < last_timestamp) /\ job' = NoJob
  BY DEF AppendRejected
<1>2. /\ file' = file /\ safe' = safe /\ old' = old /\ mode' = mode /\ boot' = boot
      /\ points' = points /\ last_parsed' = last_parsed /\ last_sample_boot' = last_sample_boot
      /\ floor' = floor /\ taken' = taken /\ poisoned' = poisoned
  BY DEF AppendRejected, disk, store, index, ghost
<1>3. HistoryInv'
  BY RejectedKeeps DEF CountsInv
<1>4. poisoned
  <2>1. ~poisoned => job.t >= last_timestamp
    BY <1>1 DEF CountsInv, HistoryInv, NeverBehind
  <2>2. job.t \in Int /\ last_timestamp \in Int
    BY <1>1, NextLineIs, Facts DEF CountsInv
  <2> QED BY <1>1, <2>1, <2>2
<1>5. Streams' /\ Signed' /\ Known' /\ Shown'
  BY <1>1, <1>2 DEF CountsInv, Streams, Signed, Known, Shown
<1>6. LiveEnd'
  BY <1>2, <1>4 DEF LiveEnd
<1> QED BY <1>3, <1>5, <1>6 DEF CountsInv

(* Retention is changed.                                                    *)
LEMMA ReconfigureCounts ==
  ASSUME CountsInv, NEW d \in Retentions, Reconfigure(d)
  PROVE  CountsInv'
<1> DEFINE c == Cutoff(d, now)
<1>1. /\ points' = (IF d = 0 THEN points ELSE PrunedBy(c)) /\ floor' = Max({floor, c})
  BY DEF Reconfigure
<1>2. /\ file' = file /\ safe' = safe /\ old' = old /\ mode' = mode /\ boot' = boot
      /\ last_parsed' = last_parsed /\ last_sample_boot' = last_sample_boot
      /\ taken' = taken /\ poisoned' = poisoned /\ last_state' = last_state /\ job' = job
  BY DEF Reconfigure, disk, store, ghost
<1>3. /\ taken \in Seq(Takes) /\ floor \in Nat /\ boot \in Nat /\ HistoryInv
      /\ now \in 0..MaxTime /\ Begins(taken, taken) /\ boot <= boot /\ points \in Seq(Points)
  BY CountFacts
<1>4. HistoryInv'
  BY <1>3, ReconfigureKeeps
<1>5. c \in Nat
  BY <1>3, CutoffIs
<1> HIDE DEF c
<1>6. floor' \in Nat /\ floor <= floor'
  <2>1. floor' = IF floor >= c THEN floor ELSE c
    BY <1>1, <1>3, <1>5, MaxOfTwo
  <2> QED BY <1>3, <1>5, <2>1
<1>7. Streams'
  <2>1. /\ Stream(file, taken, floor, boot) /\ Stream(safe, taken, floor, boot)
        /\ \A f \in old : Stream(f, taken, floor, boot)
    BY DEF CountsInv, Streams
  <2>2. /\ Stream(file, taken, floor', boot) /\ Stream(safe, taken, floor', boot)
        /\ \A f \in old : Stream(f, taken, floor', boot)
    BY <1>3, <1>6, <2>1, StreamsStart
  <2> QED BY <1>2, <2>2 DEF Streams
<1>8. Signed' /\ Known' /\ LiveEnd'
  BY <1>2 DEF CountsInv, Signed, Known, LiveEnd
<1>9. Shown'
  <2>1. PrunedBy(c) \in Seq(Points) /\ Truth(PrunedBy(c), taken, floor)
    BY PruneCounts
  <2>2. Truth(points, taken, floor)
    BY DEF CountsInv, Shown
  <2>3. Truth(points', taken, floor) /\ points' \in Seq(Points)
    BY <1>1, <1>3, <2>1, <2>2
  <2> QED BY <1>2, <1>3, <1>6, <2>3, TruthGrows DEF Shown
<1> QED BY <1>4, <1>7, <1>8, <1>9 DEF CountsInv

(* Steps that leave all of it.                                              *)
LEMMA SameCounts ==
  ASSUME CountsInv, HistoryInv',
         UNCHANGED <<file, safe, old, mode, boot, poisoned, last_state, points, last_parsed,
                     last_sample_boot, floor, job, taken>>
  PROVE  CountsInv'
<1>1. Streams' /\ Signed' /\ Known' /\ Shown'
  BY DEF CountsInv, Streams, Signed, Known, Shown
<1>2. LiveEnd'
  BY DEF CountsInv, LiveEnd
<1> QED BY <1>1, <1>2 DEF CountsInv

-----------------------------------------------------------------------------
(* What compaction keeps ends, as the file did, in the live process and with  *)
(* what it counted.                                                         *)
LEMMA CompactEnd ==
  ASSUME CountsInv, mode = "canonical", ~poisoned, last_state # None, NEW c \in 1..floor,
         NEW new, new = Retained(Scan(file).records, c)
  PROVE  /\ new # <<>> /\ Pending(Pass(new)) /\ Last(new).boot = boot
         /\ Last(new).form \in Decodes /\ Last(new).kind # "boot"
         /\ LiveState(new) = Shows(taken, Last(new))
         /\ Shows(taken, Last(new)) = Shows(taken, Last(file))
<1> DEFINE rs == Scan(file).records
           s == Pass(file)
           m == Len(rs)
<1>1. /\ taken \in Seq(Takes) /\ floor \in Nat /\ c \in Nat
  BY CountFacts
<1>2. /\ file # <<>> /\ Pending(s) /\ Last(file).boot = boot /\ Last(file).kind # "boot"
  BY DEF CountsInv, LiveEnd
<1>3. /\ Stream(file, taken, floor, boot) /\ file \in Seq(Told(taken, boot))
      /\ Tied(file, Steps(taken, floor)) /\ Told(taken, boot) \subseteq Lines
  BY DEF CountsInv, Streams, Stream, Told
<1>4. /\ Stream(rs, taken, floor, boot) /\ Chain(rs) /\ Closed(rs)
  BY <1>3, ScanStream
<1>5. rs \in Seq(Told(taken, boot)) /\ rs \in Seq(Lines)
  BY <1>3, <1>4, SeqMonotonic DEF Stream
<1>6. Good(s, Lines)
  BY <1>3, SeqMonotonic, PassGood
<1>7. Last(Held(s)) = Last(file)
  <2>1. Tracks(s, file, Len(file), Steps(taken, floor))
    BY <1>3, PassTied
  <2> QED BY <1>2, <2>1 DEF Tracks, Last
<1>8. InEpoch(s) /\ s \in States(Lines)
  BY <1>2, <1>6 DEF Good
<1>9. Held(s) # <<>> /\ Last(s.epoch) = Last(file)
  <2> HIDE DEF s
  <2>1. s.epoch # <<>>
    BY <1>8 DEF InEpoch
  <2> QED BY <1>7, <1>8, <2>1, HeldLast
<1>10. rs = Held(s)
  <2>1. s.st = "Usable"
    BY <1>2, <1>8, <1>9 DEF InEpoch
  <2>2. s.st # "AwaitSample"
    BY <2>1
  <2>3. rs = Finished(s).records
    BY DEF Scan
  <2> HIDE DEF s
  <2> QED BY <1>6, <2>2, <2>3, FinishedIs
<1> HIDE DEF s, rs
<1>11. m \in 1..m /\ m \in Nat /\ rs[m] = Last(file)
  BY <1>5, <1>7, <1>9, <1>10 DEF Last
<1>12. rs[m].boot = boot /\ rs[m].kind # "boot"
  BY <1>2, <1>11
<1>13. PICK b \in 1..m :
          /\ b \in Kept(rs, c) /\ \A i \in (b + 1)..m : i \notin Kept(rs, c)
          /\ rs[b].boot = boot
          /\ b = m \/ (rs[b].kind = "sample" /\ \A i \in (b + 1)..m : rs[i].kind = "check")
  BY <1>1, <1>4, <1>5, <1>11, <1>12, KeptTail
<1>14. new = Only(rs, Kept(rs, c))
  BY DEF Retained, rs
<1>15. Stream(new, taken, floor, boot) /\ new \in Seq(Told(taken, boot)) /\ new \in Seq(Lines)
  <2>1. Stream(Retained(rs, c), taken, floor, boot)
    BY <1>1, <1>4, RetainedStream
  <2>2. new = Retained(rs, c)
    BY DEF rs
  <2>3. Stream(new, taken, floor, boot) /\ new \in Seq(Told(taken, boot))
    BY <2>1, <2>2 DEF Stream
  <2> QED BY <1>3, <2>3, SeqMonotonic
<1>16. Chain(new)
  <2>1. new = Retained(rs, c)
    BY DEF rs
  <2> QED BY <1>1, <1>4, <1>5, <2>1, RetainedIs
<1>17. PICK pos : Places(pos, new, rs, Kept(rs, c), Len(rs))
  BY <1>5, <1>14, OnlyPlaces
<1>18. PICK i \in 1..Len(new) : pos[i] = b
  BY <1>13, <1>17 DEF Places
<1>19. Len(new) \in Nat /\ new # <<>>
  BY <1>15, <1>18
<1>20. /\ Len(new) \in 1..Len(new) /\ Last(new) = rs[pos[Len(new)]]
       /\ pos[Len(new)] \in 1..m /\ pos[Len(new)] \in Kept(rs, c)
  <2>1. Len(new) \in 1..Len(new) /\ Last(new) = new[Len(new)]
    BY <1>15, <1>18, <1>19 DEF Last
  <2> QED BY <1>17, <2>1 DEF Places
<1>21. b <= pos[Len(new)]
  <2>1. CASE i = Len(new)
    BY <1>11, <1>13, <1>18, <2>1
  <2>2. CASE i < Len(new)
    <3>1. pos[i] < pos[Len(new)]
      BY <1>17, <1>18, <1>20, <2>2 DEF Places
    <3> QED BY <1>11, <1>13, <1>18, <1>20, <3>1
  <2> QED BY <1>18, <1>19, <2>1, <2>2
<1>22. pos[Len(new)] = b
  BY <1>11, <1>13, <1>20, <1>21
<1>23. Last(new) = rs[b] /\ Last(new) = new[Len(new)]
  BY <1>20, <1>22 DEF Last
<1>24. Last(new).boot = boot /\ Last(new).kind # "boot"
  BY <1>12, <1>13, <1>23
<1>25. Last(new).form \in Decodes
  BY <1>16, <1>20, <1>23 DEF Chain
<1>26. Shows(taken, rs[b]) = Shows(taken, rs[m])
  <2>1. m \in b..Len(rs) /\ b \in 1..Len(rs)
    BY <1>11, <1>13
  <2>2. \A k \in (b + 1)..m : rs[k].kind = "check"
    BY <1>11, <1>13
  <2> QED BY <1>1, <1>4, <2>1, <2>2, ChecksSame
<1>27. LiveState(new) = Shows(taken, Last(new))
  BY <1>1, <1>15, <1>16, <1>20, <1>23, <1>24, LiveStateLast
<1>28. Pending(Pass(new))
  <2>1. Clean(Pass(new), new, Len(new)) /\ Len(new) > 0
    BY <1>15, <1>16, <1>19, <1>20, PassClean
  <2> QED BY <2>1 DEF Clean, Pending
<1> QED BY <1>11, <1>19, <1>23, <1>24, <1>25, <1>26, <1>27, <1>28

(* The file is rewritten.                                                   *)
LEMMA CompactCounts ==
  ASSUME CountsInv, NEW c \in 1..floor, CompactReplaced(c)
  PROVE  CountsInv'
<1> DEFINE found == Scan(file)
           new == Retained(found.records, c)
<1>1. /\ mode = "canonical" /\ file' = new /\ safe' = new /\ last_state # None
      /\ old' = {} \/ old' = old \cup {safe}
      /\ last_state' = LiveState(new)
  BY DEF CompactReplaced, Deferred
<1>2. /\ mode' = mode /\ boot' = boot /\ poisoned' = poisoned /\ points' = points
      /\ last_parsed' = last_parsed /\ last_sample_boot' = last_sample_boot
      /\ floor' = floor /\ job' = job /\ taken' = taken
  BY DEF CompactReplaced, index
<1>3. /\ taken \in Seq(Takes) /\ floor \in Nat /\ HistoryInv
  BY CountFacts
<1>4. HistoryInv'
  BY <1>3, CompactKeeps
<1>5. Streams'
  <2>1. /\ Stream(file, taken, floor, boot) /\ Stream(safe, taken, floor, boot)
        /\ \A f \in old : Stream(f, taken, floor, boot)
    BY DEF CountsInv, Streams
  <2>2. Stream(found.records, taken, floor, boot) /\ Chain(found.records) /\ Closed(found.records)
    BY <2>1, ScanStream
  <2> HIDE DEF found
  <2>3. Stream(new, taken, floor, boot)
    BY <1>3, <2>2, RetainedStream
  <2> HIDE DEF new
  <2>4. \A f \in old' : Stream(f, taken, floor, boot)
    BY <1>1, <2>1
  <2> QED BY <1>1, <1>2, <2>3, <2>4 DEF Streams
<1>6. Signed' /\ Known' /\ Shown'
  BY <1>2 DEF CountsInv, Signed, Known, Shown
<1>7. LiveEnd'
  <2>1. CASE poisoned
    BY <1>2, <2>1 DEF LiveEnd
  <2>2. CASE ~poisoned
    <3>1. /\ new # <<>> /\ Pending(Pass(new)) /\ Last(new).boot = boot
          /\ Last(new).form \in Decodes /\ Last(new).kind # "boot"
          /\ LiveState(new) = Shows(taken, Last(new))
          /\ Shows(taken, Last(new)) = Shows(taken, Last(file))
      BY <1>1, <2>2, CompactEnd
    <3>2. Shows(taken, Last(file))
            = IF job = NoJob THEN Count(taken, boot) ELSE job.v - Gain(taken, job.n)
      BY <1>1, <2>2 DEF CountsInv, LiveEnd
    <3> HIDE DEF new
    <3> QED BY <1>1, <1>2, <3>1, <3>2 DEF LiveEnd
  <2> QED BY <2>1, <2>2
<1> QED BY <1>4, <1>5, <1>6, <1>7 DEF CountsInv

(* The worker installs its replay, and the clock moves: neither touches a       *)
(* sample or a line.                                                       *)
LEMMA InstallCounts == CountsInv /\ Install => CountsInv'
<1> SUFFICES ASSUME CountsInv, Install PROVE CountsInv'
  OBVIOUS
<1>1. HistoryInv'
  BY InstallKeeps DEF CountsInv
<1>2. UNCHANGED <<file, safe, old, mode, boot, poisoned, last_state, points, last_parsed,
                  last_sample_boot, floor, job, taken>>
  BY DEF Install, disk, store, index, ghost
<1> QED BY <1>1, <1>2, SameCounts

(* The clock moves.                                                         *)
LEMMA ClockCounts ==
  ASSUME CountsInv, NEW t \in 0..MaxTime, Clock(t)
  PROVE  CountsInv'
<1>1. HistoryInv'
  BY ClockKeeps DEF CountsInv
<1>2. UNCHANGED <<file, safe, old, mode, boot, poisoned, last_state, points, last_parsed,
                  last_sample_boot, floor, job, taken>>
  BY DEF Clock, disk, store, index, ghost
<1> QED BY <1>1, <1>2, SameCounts

(* Every step keeps the invariant.                                          *)
LEMMA CountsStep == CountsInv /\ [Next]_vars => CountsInv'
<1> SUFFICES ASSUME CountsInv, [Next]_vars PROVE CountsInv'
  OBVIOUS
<1>1. CASE UNCHANGED vars
  <2>1. HistoryInv'
    BY <1>1, HistoryStep DEF CountsInv
  <2>2. UNCHANGED <<file, safe, old, mode, boot, poisoned, last_state, points, last_parsed,
                    last_sample_boot, floor, job, taken>>
    BY <1>1 DEF vars, disk, store, index, ghost
  <2> QED BY <2>1, <2>2, SameCounts
<1>2. CASE Next
  <2>1. CASE Open \/ OpenRefused \/ OpenFails \/ Crash
    BY <2>1, OpenCounts, RefusedCounts, OpenFailsCounts, CrashCounts
  <2>2. CASE \E v \in 0..MaxCount : AppendIndexed(v)
    BY <2>2, IndexedCounts
  <2>3. CASE AppendWritten \/ AppendFails \/ AppendRejected
    BY <2>3, WrittenCounts, FailsCounts, RejectedCounts
  <2>4. CASE \E c \in 1..floor : CompactReplaced(c)
    BY <2>4, CompactCounts
  <2>5. CASE Install
    BY <2>5, InstallCounts
  <2>6. CASE \E d \in Retentions : Reconfigure(d)
    BY <2>6, ReconfigureCounts
  <2>7. CASE \E t \in {now - 1, now + 1} \cap 0..MaxTime : Clock(t)
    BY <2>7, ClockCounts
  <2> QED BY <1>2, <2>1, <2>2, <2>3, <2>4, <2>5, <2>6, <2>7 DEF Next
<1> QED BY <1>1, <1>2

(* HistoryIndex counts what the processes counted: every point younger than     *)
(* every cutoff has its sample's own gain over the one its process took        *)
(* before, however the file was torn, rewritten and replayed in between; the    *)
(* live tail is what came after the last sample; and the buckets of a rollup    *)
(* add up to the window they divide.                                        *)
THEOREM CountsTheorem == Spec => []CountsExact
BY CountsInit, CountsStep, CountsGive, PTL DEF Spec

-----------------------------------------------------------------------------
(* Retention.  The flag alone does not show a debt: a worker clears it and    *)
(* looks at the generation again.  The invariant therefore says what a worker *)
(* that still has the latest generation knows after its commit, and that      *)
(* nobody commits between a new generation and its flag.                      *)

USE RetentionAssumption

PCs == {"idle", "claim", "cutoff", "compact", "settle", "clear", "unflag", "recheck",
        "finish", "look", "start", "swap"}
Outcomes == {"none", "durable", "unsynced", "superseded", "deferred"}

(* The steps of a worker after its commit.                                 *)
Paid == {"settle", "clear", "unflag", "recheck"}

(* A debt is always to a finite cutoff, and none is left while the flag is   *)
(* about to be cleared for unlimited retention.                             *)
DebtFinite ==
  /\ due => finite
  /\ settings = "forever" => ~finite

(* Nobody has asked since the commit of a worker whose generation is the     *)
(* latest; between a new generation and its flag there is no such worker.    *)
PaidUp ==
  \A w \in Worker : pc[w] \in Paid /\ fresh[w] =>
    ~due /\ sampler # "request" /\ settings # "request"

IInv == RetentionTypeOK /\ OneWorker /\ DebtShown /\ DebtFinite /\ PaidUp

-----------------------------------------------------------------------------
(* Initially nobody works and the debt is what the flag says.               *)
LEMMA InitIInv == RetentionInit => IInv
<1> SUFFICES ASSUME RetentionInit PROVE IInv
  OBVIOUS
<1>1. {finite, pending, running, sawFinite, due} \subseteq BOOLEAN
  BY DEF RetentionInit
<1>2. RetentionTypeOK
  BY <1>1 DEF RetentionInit, RetentionTypeOK
<1>3. OneWorker /\ PaidUp
  BY DEF RetentionInit, OneWorker, PaidUp, Paid, Busy
<1>4. DebtShown
  BY DEF RetentionInit, DebtShown
<1>5. DebtFinite
  <2>1. due \in {FALSE, finite}
    BY DEF RetentionInit
  <2>2. CASE due = FALSE
    BY <2>2 DEF RetentionInit, DebtFinite
  <2>3. CASE due = finite
    BY <2>3 DEF RetentionInit, DebtFinite
  <2> QED BY <2>1, <2>2, <2>3
<1> QED BY <1>2, <1>3, <1>4, <1>5 DEF IInv

(* Retire changes one worker's entry, and so does an EXCEPT on top of it.    *)
LEMMA RetireType ==
  ASSUME NEW S, NEW f \in [Worker -> S], NEW v \in S, NEW x \in S, NEW by
  PROVE  /\ Retire(f, by, v) \in [Worker -> S]
         /\ \A w \in Worker : [Retire(f, by, v) EXCEPT ![w] = x] \in [Worker -> S]
BY DEF Retire

(* A worker whose task ends, or nobody, becomes idle: everyone who was busy   *)
(* still is where it was.                                                  *)
LEMMA IdleOne ==
  ASSUME IInv, NEW by \in Worker \cup {NoWorker}, TaskEnds(by),
         by \in Worker => pc[by] \in {"look", "start", "swap"}
  PROVE  /\ pc' \in [Worker -> PCs] /\ claimed' \in [Worker -> 0..MaxDropped]
         /\ outcome' \in [Worker -> Outcomes]
         /\ fresh' \in [Worker -> BOOLEAN] /\ running' \in BOOLEAN
         /\ OneWorker'
         /\ \A w \in Worker : /\ pc[w] \in Paid <=> pc'[w] \in Paid
                              /\ pc[w] \in Paid => pc'[w] = pc[w] /\ fresh'[w] = fresh[w]
<1>1. /\ pc' \in [Worker -> PCs] /\ claimed' \in [Worker -> 0..MaxDropped]
      /\ outcome' \in [Worker -> Outcomes] /\ fresh' \in [Worker -> BOOLEAN]
  <2>1. pc' \in [Worker -> PCs]
    BY RetireType DEF IInv, RetentionTypeOK, TaskEnds, PCs
  <2>2. claimed' \in [Worker -> 0..MaxDropped]
    BY DEF IInv, RetentionTypeOK, TaskEnds, Retire
  <2>3. outcome' \in [Worker -> Outcomes]
    BY RetireType DEF IInv, RetentionTypeOK, TaskEnds, Outcomes
  <2>4. fresh' \in [Worker -> BOOLEAN]
    <3>1. fresh \in [Worker -> BOOLEAN] /\ fresh' = Retire(fresh, by, FALSE)
      BY DEF IInv, RetentionTypeOK, TaskEnds
    <3> QED BY <3>1, RetireType, Zenon
  <2> QED BY <2>1, <2>2, <2>3, <2>4
<1>2. \A w \in Worker : w # by => pc'[w] = pc[w] /\ fresh'[w] = fresh[w]
  BY DEF IInv, RetentionTypeOK, TaskEnds, Retire
<1>3. by \in Worker => pc'[by] = "idle"
  BY DEF TaskEnds, Retire
<1>4. \A w \in Worker : Busy(pc[w]) <=> Busy(pc'[w])
  BY <1>2, <1>3 DEF Busy
<1>5. running' = running /\ running' \in BOOLEAN
  BY DEF IInv, RetentionTypeOK, TaskEnds
<1>6. OneWorker'
  BY <1>4, <1>5 DEF IInv, OneWorker, Busy
<1> QED BY <1>1, <1>2, <1>3, <1>5, <1>6 DEF Paid

(* A worker is started only if none runs: whoever starts it, it is then the  *)
(* only one, and everyone who was busy still is where it was.               *)
LEMMA SwapOne ==
  ASSUME IInv, NEW by \in Worker \cup {NoWorker}, Swap(by),
         by \in Worker => pc[by] \in {"look", "start", "swap"}
  PROVE  /\ pc' \in [Worker -> PCs] /\ claimed' \in [Worker -> 0..MaxDropped]
         /\ outcome' \in [Worker -> Outcomes]
         /\ fresh' \in [Worker -> BOOLEAN] /\ running' \in BOOLEAN
         /\ OneWorker'
         /\ \A w \in Worker : /\ pc[w] \in Paid <=> pc'[w] \in Paid
                              /\ pc[w] \in Paid => pc'[w] = pc[w] /\ fresh'[w] = fresh[w]
<1>1. CASE ~Starts
  BY <1>1, IdleOne DEF Swap
<1>2. CASE Starts
  <2>1. ~running
    BY <1>2 DEF Starts
  <2>2. \A v \in Worker : ~Busy(pc[v])
    BY <2>1 DEF IInv, RetentionTypeOK, OneWorker
  <2>3. PICK w \in Free \cup ({by} \ {NoWorker}) :
          /\ running' = TRUE
          /\ fresh' = Retire(fresh, by, FALSE)
          /\ pc' = [Retire(pc, by, "idle") EXCEPT ![w] = "claim"]
          /\ claimed' = Retire(claimed, by, 0)
          /\ outcome' = Retire(outcome, by, "none")
    BY <1>2 DEF Swap
  <2>4. w \in Worker
    BY <2>3 DEF Free
  <2>5. \A v \in Worker : pc'[v] = IF v = w THEN "claim" ELSE Retire(pc, by, "idle")[v]
    BY <2>3, <2>4 DEF Retire
  <2>6. \A v \in Worker : v # w => ~Busy(pc'[v])
    BY <2>2, <2>5 DEF Retire, Busy
  <2>7. /\ pc' \in [Worker -> PCs] /\ claimed' \in [Worker -> 0..MaxDropped]
        /\ outcome' \in [Worker -> Outcomes] /\ fresh' \in [Worker -> BOOLEAN]
    <3>1. pc' \in [Worker -> PCs]
      BY <2>3, <2>4, RetireType DEF IInv, RetentionTypeOK, PCs
    <3>2. claimed' \in [Worker -> 0..MaxDropped]
      BY <2>3, <2>4 DEF IInv, RetentionTypeOK, Retire
    <3>3. outcome' \in [Worker -> Outcomes]
      BY <2>3, <2>4, RetireType DEF IInv, RetentionTypeOK, Outcomes
    <3>4. fresh' \in [Worker -> BOOLEAN]
      <4>1. fresh \in [Worker -> BOOLEAN]
        BY DEF IInv, RetentionTypeOK
      <4> QED BY <2>3, <2>4, <4>1, RetireType, Zenon
    <3> QED BY <3>1, <3>2, <3>3, <3>4
  <2>8. pc'[w] = "claim" /\ running' = TRUE
    BY <2>3, <2>4, <2>5
  <2>9. OneWorker'
    BY <2>4, <2>6, <2>8 DEF OneWorker, Busy
  <2>10. \A v \in Worker : pc[v] \notin Paid /\ pc'[v] \notin Paid
    BY <2>2, <2>6, <2>8 DEF Paid, Busy
  <2> QED BY <2>7, <2>8, <2>9, <2>10
<1> QED BY <1>1, <1>2

-----------------------------------------------------------------------------
(* What the steps of one worker that do not start another one do to the      *)
(* workers: w goes from one place to another, nobody else moves.            *)
LEMMA StepMoves ==
  ASSUME IInv, NEW w \in Worker, NEW from, NEW to \in PCs, Step(w, from, to)
  PROVE  /\ pc' \in [Worker -> PCs] /\ pc[w] = from /\ pc'[w] = to
         /\ \A v \in Worker : v # w => pc'[v] = pc[v]
BY DEF IInv, RetentionTypeOK, Step, PCs

(* While w is busy and stays so, it remains the only one.                    *)
LEMMA StaysOne ==
  ASSUME IInv, NEW w \in Worker, Busy(pc[w]), Busy(pc'[w]), running' = running,
         \A v \in Worker : v # w => pc'[v] = pc[v]
  PROVE  OneWorker'
<1>1. \A v \in Worker : Busy(pc'[v]) <=> Busy(pc[v])
  OBVIOUS
<1> QED BY <1>1 DEF IInv, OneWorker, Busy

(* Nothing that the workers look at changes.                                *)
LEMMA SamePlaces ==
  ASSUME IInv, UNCHANGED <<pc, running>> PROVE OneWorker'
BY DEF IInv, OneWorker

-----------------------------------------------------------------------------
(* The sampler.                                                            *)
LEMMA SamplerIInv == ASSUME IInv, SamplerStep PROVE IInv'
<1> USE DEF workers, shared
<1>1. ASSUME NEW k \in 0..1, Sample(k) PROVE IInv'
  <2>1. RetentionTypeOK'
    BY <1>1 DEF Sample, IInv, RetentionTypeOK
  <2>2. OneWorker'
    BY <1>1, SamePlaces DEF Sample
  <2>3. DebtShown' /\ DebtFinite'
    BY <1>1 DEF Sample, IInv, DebtShown, DebtFinite
  <2>4. PaidUp'
    BY <1>1 DEF Sample, IInv, PaidUp
  <2> QED BY <2>1, <2>2, <2>3, <2>4 DEF IInv
<1>2. CASE SampleAsks
  <2>1. RetentionTypeOK'
    BY <1>2 DEF SampleAsks, Request, NewGeneration, IInv, RetentionTypeOK
  <2>2. OneWorker'
    BY <1>2, SamePlaces DEF SampleAsks, Request
  <2>3. \A w \in Worker : ~fresh'[w]
    BY <1>2 DEF SampleAsks, Request, NewGeneration
  <2>4. DebtShown' /\ DebtFinite' /\ PaidUp'
    BY <1>2, <2>3 DEF SampleAsks, Request, IInv, DebtShown, DebtFinite, PaidUp
  <2> QED BY <2>1, <2>2, <2>4 DEF IInv
<1>3. CASE SampleDone
  <2>1. RetentionTypeOK'
    BY <1>3 DEF SampleDone, IInv, RetentionTypeOK
  <2>2. OneWorker'
    BY <1>3, SamePlaces DEF SampleDone
  <2>3. DebtShown' /\ DebtFinite' /\ PaidUp'
    BY <1>3 DEF SampleDone, IInv, DebtShown, DebtFinite, PaidUp
  <2> QED BY <2>1, <2>2, <2>3 DEF IInv
<1>4. CASE SampleFlags
  <2>1. RetentionTypeOK'
    <3>1. due' \in BOOLEAN
      BY <1>4 DEF SampleFlags, Flagged
    <3> QED BY <1>4, <3>1 DEF SampleFlags, Flagged, IInv, RetentionTypeOK
  <2>2. OneWorker'
    BY <1>4, SamePlaces DEF SampleFlags, Flagged
  <2>3. DebtShown' /\ DebtFinite'
    BY <1>4 DEF SampleFlags, Flagged, IInv, RetentionTypeOK, DebtShown, DebtFinite
  <2>4. PaidUp'
    BY <1>4 DEF SampleFlags, Flagged, IInv, PaidUp
  <2> QED BY <2>1, <2>2, <2>3, <2>4 DEF IInv
<1>5. CASE SampleSwaps
  <2>1. Swap(NoWorker)
    BY <1>5 DEF SampleSwaps
  <2>2. /\ pc' \in [Worker -> PCs] /\ claimed' \in [Worker -> 0..MaxDropped]
        /\ outcome' \in [Worker -> Outcomes]
        /\ fresh' \in [Worker -> BOOLEAN] /\ running' \in BOOLEAN
        /\ OneWorker'
        /\ \A w \in Worker : /\ pc[w] \in Paid <=> pc'[w] \in Paid
                             /\ pc[w] \in Paid => pc'[w] = pc[w] /\ fresh'[w] = fresh[w]
    BY <2>1, SwapOne
  <2>3. UNCHANGED <<finite, pending, dropped, lock>>
    BY <2>1 DEF Swap, TaskEnds
  <2>4. RetentionTypeOK'
    BY <1>5, <2>2, <2>3 DEF SampleSwaps, IInv, RetentionTypeOK, PCs, Outcomes
  <2>5. DebtShown' /\ DebtFinite'
    BY <1>5, <2>2, <2>3 DEF SampleSwaps, IInv, DebtShown, DebtFinite, Paid
  <2>6. PaidUp'
    BY <1>5, <2>2 DEF SampleSwaps, IInv, PaidUp
  <2> QED BY <2>2, <2>4, <2>5, <2>6 DEF IInv
<1>6. CASE SampleLoads
  <2>1. RetentionTypeOK'
    BY <1>6 DEF SampleLoads, IInv, RetentionTypeOK
  <2>2. OneWorker'
    BY <1>6, SamePlaces DEF SampleLoads
  <2>3. DebtShown' /\ DebtFinite' /\ PaidUp'
    BY <1>6 DEF SampleLoads, IInv, DebtShown, DebtFinite, PaidUp
  <2> QED BY <2>1, <2>2, <2>3 DEF IInv
<1>7. CASE SampleStarts
  <2>1. RetentionTypeOK'
    BY <1>7 DEF SampleStarts, IInv, RetentionTypeOK
  <2>2. OneWorker'
    BY <1>7, SamePlaces DEF SampleStarts
  <2>3. DebtShown' /\ DebtFinite' /\ PaidUp'
    BY <1>7 DEF SampleStarts, IInv, DebtShown, DebtFinite, PaidUp
  <2> QED BY <2>1, <2>2, <2>3 DEF IInv
<1> QED BY <1>1, <1>2, <1>3, <1>4, <1>5, <1>6, <1>7 DEF SamplerStep

-----------------------------------------------------------------------------
(* The settings commit.  Unlimited retention forgives the debt under the      *)
(* control lock, with a new generation.                                      *)
LEMMA SettingsIInv == ASSUME IInv, SettingsStep PROVE IInv'
<1> USE DEF workers, shared
<1>1. CASE Forever
  <2>1. RetentionTypeOK'
    BY <1>1 DEF Forever, NewGeneration, IInv, RetentionTypeOK
  <2>2. OneWorker'
    BY <1>1, SamePlaces DEF Forever
  <2>3. DebtShown' /\ DebtFinite'
    BY <1>1 DEF Forever, DebtShown, DebtFinite
  <2>4. \A w \in Worker : ~fresh'[w]
    BY <1>1 DEF Forever, NewGeneration
  <2>5. PaidUp'
    BY <2>4 DEF PaidUp
  <2> QED BY <2>1, <2>2, <2>3, <2>5 DEF IInv
<1>2. CASE ForeverClears
  <2>1. RetentionTypeOK'
    BY <1>2 DEF ForeverClears, IInv, RetentionTypeOK
  <2>2. OneWorker'
    BY <1>2, SamePlaces DEF ForeverClears
  <2>3. ~due
    BY <1>2 DEF ForeverClears, IInv, DebtFinite
  <2>4. DebtShown' /\ DebtFinite'
    BY <1>2, <2>3 DEF ForeverClears, DebtShown, DebtFinite
  <2>5. PaidUp'
    BY <1>2 DEF ForeverClears, IInv, PaidUp
  <2> QED BY <2>1, <2>2, <2>4, <2>5 DEF IInv
<1>3. ASSUME NEW k \in 0..1, Finite(k) PROVE IInv'
  <2>1. RetentionTypeOK'
    BY <1>3 DEF Finite, IInv, RetentionTypeOK
  <2>2. OneWorker'
    BY <1>3, SamePlaces DEF Finite
  <2>3. DebtShown' /\ DebtFinite'
    BY <1>3 DEF Finite, IInv, DebtShown, DebtFinite
  <2>4. PaidUp'
    BY <1>3 DEF Finite, IInv, PaidUp
  <2> QED BY <2>1, <2>2, <2>3, <2>4 DEF IInv
<1>4. CASE FiniteAsks
  <2>1. RetentionTypeOK'
    BY <1>4 DEF FiniteAsks, Request, NewGeneration, IInv, RetentionTypeOK
  <2>2. OneWorker'
    BY <1>4, SamePlaces DEF FiniteAsks, Request
  <2>3. \A w \in Worker : ~fresh'[w]
    BY <1>4 DEF FiniteAsks, Request, NewGeneration
  <2>4. DebtShown' /\ DebtFinite' /\ PaidUp'
    BY <1>4, <2>3 DEF FiniteAsks, Request, IInv, DebtShown, DebtFinite, PaidUp
  <2> QED BY <2>1, <2>2, <2>4 DEF IInv
<1>5. CASE FiniteFlags
  <2>1. RetentionTypeOK'
    <3>1. due' \in BOOLEAN
      BY <1>5 DEF FiniteFlags, Flagged
    <3> QED BY <1>5, <3>1 DEF FiniteFlags, Flagged, IInv, RetentionTypeOK
  <2>2. OneWorker'
    BY <1>5, SamePlaces DEF FiniteFlags, Flagged
  <2>3. DebtShown' /\ DebtFinite'
    BY <1>5 DEF FiniteFlags, Flagged, IInv, RetentionTypeOK, DebtShown, DebtFinite
  <2>4. PaidUp'
    BY <1>5 DEF FiniteFlags, Flagged, IInv, PaidUp
  <2> QED BY <2>1, <2>2, <2>3, <2>4 DEF IInv
<1>6. CASE FiniteSwaps
  <2>1. Swap(NoWorker)
    BY <1>6 DEF FiniteSwaps
  <2>2. /\ pc' \in [Worker -> PCs] /\ claimed' \in [Worker -> 0..MaxDropped]
        /\ outcome' \in [Worker -> Outcomes]
        /\ fresh' \in [Worker -> BOOLEAN] /\ running' \in BOOLEAN
        /\ OneWorker'
        /\ \A w \in Worker : /\ pc[w] \in Paid <=> pc'[w] \in Paid
                             /\ pc[w] \in Paid => pc'[w] = pc[w] /\ fresh'[w] = fresh[w]
    BY <2>1, SwapOne
  <2>3. UNCHANGED <<finite, pending, dropped, lock>>
    BY <2>1 DEF Swap, TaskEnds
  <2>4. RetentionTypeOK'
    BY <1>6, <2>2, <2>3 DEF FiniteSwaps, IInv, RetentionTypeOK, PCs, Outcomes
  <2>5. DebtShown' /\ DebtFinite'
    BY <1>6, <2>2, <2>3 DEF FiniteSwaps, IInv, DebtShown, DebtFinite, Paid
  <2>6. PaidUp'
    BY <1>6, <2>2 DEF FiniteSwaps, IInv, PaidUp
  <2> QED BY <2>2, <2>4, <2>5, <2>6 DEF IInv
<1>7. CASE FiniteLoads
  <2>1. RetentionTypeOK'
    BY <1>7 DEF FiniteLoads, IInv, RetentionTypeOK
  <2>2. OneWorker'
    BY <1>7, SamePlaces DEF FiniteLoads
  <2>3. DebtShown' /\ DebtFinite' /\ PaidUp'
    BY <1>7 DEF FiniteLoads, IInv, DebtShown, DebtFinite, PaidUp
  <2> QED BY <2>1, <2>2, <2>3 DEF IInv
<1>8. CASE FiniteStarts
  <2>1. RetentionTypeOK'
    BY <1>8 DEF FiniteStarts, IInv, RetentionTypeOK
  <2>2. OneWorker'
    BY <1>8, SamePlaces DEF FiniteStarts
  <2>3. DebtShown' /\ DebtFinite' /\ PaidUp'
    BY <1>8 DEF FiniteStarts, IInv, DebtShown, DebtFinite, PaidUp
  <2> QED BY <2>1, <2>2, <2>3 DEF IInv
<1> QED BY <1>1, <1>2, <1>3, <1>4, <1>5, <1>6, <1>7, <1>8 DEF SettingsStep

-----------------------------------------------------------------------------
(* A commit is made by the only busy worker, with the latest generation and  *)
(* while nobody is between a generation and its flag: the debt is paid.      *)
LEMMA CommitIInv == ASSUME IInv, NEW w \in Worker, CommitSynced(w) PROVE IInv'
<1> USE DEF shared
<1>1. /\ pc' \in [Worker -> PCs] /\ pc[w] = "compact" /\ pc'[w] = "settle"
      /\ \A v \in Worker : v # w => pc'[v] = pc[v]
  BY StepMoves DEF CommitSynced, PCs
<1>2. due' = FALSE /\ lock = "free"
  BY DEF CommitSynced, Authorized
<1>3. outcome' \in [Worker -> Outcomes]
  BY DEF CommitSynced, IInv, RetentionTypeOK, Outcomes
<1>4. RetentionTypeOK'
  BY <1>1, <1>2, <1>3 DEF CommitSynced, IInv, RetentionTypeOK, PCs, Outcomes
<1>5. OneWorker'
  BY <1>1, StaysOne DEF CommitSynced, Busy
<1>6. DebtShown' /\ DebtFinite'
  BY <1>2 DEF CommitSynced, IInv, DebtShown, DebtFinite
<1>7. PaidUp'
  BY <1>2 DEF CommitSynced, IInv, RetentionTypeOK, PaidUp
<1> QED BY <1>4, <1>5, <1>6, <1>7 DEF IInv

(* The generation is read by the worker that starts, which has paid nothing   *)
(* yet; then what it answers for; and after its commit it takes that off.     *)
LEMMA ClaimIInv ==
  ASSUME IInv, NEW w \in Worker, Claim(w) \/ Spawn(w) \/ Settle(w)
  PROVE  IInv'
<1> USE DEF shared
<1>1. CASE Claim(w)
  <2>1. /\ pc' \in [Worker -> PCs] /\ pc[w] = "claim" /\ pc'[w] = "cutoff"
        /\ \A v \in Worker : v # w => pc'[v] = pc[v]
    BY <1>1, StepMoves DEF Claim, PCs
  <2>2. fresh' \in [Worker -> BOOLEAN] /\ \A v \in Worker : v # w => fresh'[v] = fresh[v]
    BY <1>1 DEF Claim, IInv, RetentionTypeOK
  <2>3. RetentionTypeOK'
    BY <1>1, <2>1, <2>2 DEF Claim, IInv, RetentionTypeOK, PCs
  <2>4. OneWorker'
    BY <1>1, <2>1, StaysOne DEF Claim, Busy
  <2>5. DebtShown' /\ DebtFinite'
    BY <1>1, <2>1, <2>2 DEF Claim, IInv, DebtShown, DebtFinite
  <2>6. PaidUp'
    BY <1>1, <2>1, <2>2 DEF Claim, IInv, PaidUp, Paid
  <2> QED BY <2>3, <2>4, <2>5, <2>6 DEF IInv
<1>2. CASE Spawn(w)
  <2>1. /\ pc' \in [Worker -> PCs] /\ pc[w] = "cutoff" /\ pc'[w] = "compact"
        /\ \A v \in Worker : v # w => pc'[v] = pc[v]
    BY <1>2, StepMoves DEF Spawn, PCs
  <2>2. claimed' \in [Worker -> 0..MaxDropped]
    BY <1>2 DEF Spawn, IInv, RetentionTypeOK
  <2>3. RetentionTypeOK'
    BY <1>2, <2>1, <2>2 DEF Spawn, IInv, RetentionTypeOK, PCs
  <2>4. OneWorker'
    BY <1>2, <2>1, StaysOne DEF Spawn, Busy
  <2>5. DebtShown' /\ DebtFinite'
    BY <1>2, <2>1 DEF Spawn, IInv, DebtShown, DebtFinite
  <2>6. PaidUp'
    BY <1>2, <2>1 DEF Spawn, IInv, PaidUp, Paid
  <2> QED BY <2>3, <2>4, <2>5, <2>6 DEF IInv
<1>3. CASE Settle(w)
  <2>1. /\ pc' \in [Worker -> PCs] /\ pc[w] = "settle" /\ pc'[w] = "clear"
        /\ \A v \in Worker : v # w => pc'[v] = pc[v]
    BY <1>3, StepMoves DEF Settle, PCs
  <2>2. dropped' \in 0..MaxDropped
    BY <1>3 DEF Settle, IInv, RetentionTypeOK
  <2>3. RetentionTypeOK'
    BY <1>3, <2>1, <2>2 DEF Settle, IInv, RetentionTypeOK, PCs
  <2>4. OneWorker'
    BY <1>3, <2>1, StaysOne DEF Settle, Busy
  <2>5. DebtShown' /\ DebtFinite'
    BY <1>3, <2>1 DEF Settle, IInv, DebtShown, DebtFinite
  <2>6. PaidUp'
    BY <1>3, <2>1 DEF Settle, IInv, PaidUp, Paid
  <2> QED BY <2>3, <2>4, <2>5, <2>6 DEF IInv
<1> QED BY <1>1, <1>2, <1>3

(* The steps of a worker that leaves the file, or the flags, as they are.    *)
LEMMA GivesUpIInv ==
  ASSUME IInv, NEW w \in Worker, CommitUnsynced(w) \/ Superseded(w) \/ CommitDeferred(w)
  PROVE  IInv'
<1> USE DEF shared
<1>1. /\ Step(w, "compact", "finish")
      /\ UNCHANGED <<finite, pending, running, dropped, fresh, lock, claimed, sampler,
                     sawFinite, settings, due>>
  BY DEF CommitUnsynced, Superseded, CommitDeferred
<1>2. /\ pc' \in [Worker -> PCs] /\ pc[w] = "compact" /\ pc'[w] = "finish"
      /\ \A v \in Worker : v # w => pc'[v] = pc[v]
  BY <1>1, StepMoves DEF PCs
<1>3. outcome' \in [Worker -> Outcomes]
  BY DEF CommitUnsynced, Superseded, CommitDeferred, IInv, RetentionTypeOK, Outcomes
<1>5. RetentionTypeOK'
  BY <1>1, <1>2, <1>3 DEF IInv, RetentionTypeOK, PCs, Outcomes
<1>6. OneWorker'
  BY <1>1, <1>2, StaysOne DEF Busy
<1>7. DebtShown' /\ DebtFinite'
  BY <1>1, <1>2 DEF IInv, DebtShown, DebtFinite
<1>8. PaidUp'
  BY <1>1, <1>2 DEF IInv, PaidUp, Paid
<1> QED BY <1>5, <1>6, <1>7, <1>8 DEF IInv

(* Looking at the generation, clearing the flag, and looking again.  If a    *)
(* debt came between, the generation is not the worker's any more, and the   *)
(* second look sees it.                                                      *)
LEMMA ClearsIInv ==
  ASSUME IInv, NEW w \in Worker, Clear(w) \/ Unflag(w) \/ Recheck(w)
  PROVE  IInv'
<1> USE DEF shared
<1>1. CASE Clear(w)
  <2>1. /\ pc' \in [Worker -> PCs] /\ pc[w] = "clear" /\ pc'[w] \in {"unflag", "finish"}
        /\ \A v \in Worker : v # w => pc'[v] = pc[v]
    BY <1>1, StepMoves DEF Clear, PCs
  <2>2. RetentionTypeOK'
    BY <1>1, <2>1 DEF Clear, IInv, RetentionTypeOK, PCs
  <2>3. OneWorker'
    BY <1>1, <2>1, StaysOne DEF Clear, Busy
  <2>4. DebtShown' /\ DebtFinite'
    BY <1>1, <2>1 DEF Clear, IInv, DebtShown, DebtFinite
  <2>5. PaidUp'
    BY <1>1, <2>1 DEF Clear, IInv, PaidUp, Paid
  <2> QED BY <2>2, <2>3, <2>4, <2>5 DEF IInv
<1>2. CASE Unflag(w)
  <2>1. /\ pc' \in [Worker -> PCs] /\ pc[w] = "unflag" /\ pc'[w] = "recheck"
        /\ \A v \in Worker : v # w => pc'[v] = pc[v]
    BY <1>2, StepMoves DEF Unflag, PCs
  <2>2. RetentionTypeOK'
    BY <1>2, <2>1 DEF Unflag, IInv, RetentionTypeOK, PCs
  <2>3. OneWorker'
    BY <1>2, <2>1, StaysOne DEF Unflag, Busy
  <2>4. due => ~fresh[w]
    BY <2>1 DEF IInv, PaidUp, Paid
  <2>5. DebtShown' /\ DebtFinite'
    BY <1>2, <2>1, <2>4 DEF Unflag, IInv, DebtShown, DebtFinite
  <2>6. PaidUp'
    BY <1>2, <2>1 DEF Unflag, IInv, PaidUp, Paid
  <2> QED BY <2>2, <2>3, <2>5, <2>6 DEF IInv
<1>3. CASE Recheck(w)
  <2>1. /\ pc' \in [Worker -> PCs] /\ pc[w] = "recheck" /\ pc'[w] = "finish"
        /\ \A v \in Worker : v # w => pc'[v] = pc[v]
    BY <1>3, StepMoves DEF Recheck, PCs
  <2>2. pending' \in BOOLEAN
    BY <1>3 DEF Recheck
  <2>3. RetentionTypeOK'
    BY <1>3, <2>1, <2>2 DEF Recheck, IInv, RetentionTypeOK, PCs
  <2>4. OneWorker'
    BY <1>3, <2>1, StaysOne DEF Recheck, Busy
  <2>5. \A v \in Worker : pc[v] = "recheck" => v = w
    BY <2>1 DEF IInv, OneWorker, Busy
  <2>6. due => pending'
    BY <1>3, <2>5 DEF Recheck, Rechecked, IInv, DebtShown, DebtFinite
  <2>7. DebtShown' /\ DebtFinite'
    BY <1>3, <2>6 DEF Recheck, IInv, DebtShown, DebtFinite
  <2>8. PaidUp'
    BY <1>3, <2>1 DEF Recheck, IInv, PaidUp, Paid
  <2> QED BY <2>3, <2>4, <2>7, <2>8 DEF IInv
<1> QED BY <1>1, <1>2, <1>3

(* The running flag is cleared by the only worker that was busy.            *)
LEMMA FinishIInv == ASSUME IInv, NEW w \in Worker, Finish(w) PROVE IInv'
<1>1. /\ pc' \in [Worker -> PCs] /\ pc[w] = "finish" /\ pc'[w] = "look"
      /\ \A v \in Worker : v # w => pc'[v] = pc[v]
  BY StepMoves DEF Finish, PCs
<1>2. RetentionTypeOK'
  BY <1>1 DEF Finish, IInv, RetentionTypeOK, PCs
<1>3. \A v \in Worker : ~Busy(pc'[v])
  BY <1>1 DEF IInv, OneWorker, Busy
<1>4. OneWorker'
  BY <1>3 DEF Finish, OneWorker
<1>5. DebtShown' /\ DebtFinite'
  BY <1>1 DEF Finish, IInv, DebtShown, DebtFinite
<1>6. PaidUp'
  BY <1>3 DEF PaidUp, Paid, Busy
<1> QED BY <1>2, <1>4, <1>5, <1>6 DEF IInv

(* The last looks: the worker's task ends and perhaps another begins.       *)
LEMMA LookIInv ==
  ASSUME IInv, NEW w \in Worker, Look(w) \/ Load(w) \/ Swaps(w)
  PROVE  IInv'
<1> USE DEF shared
<1>1. UNCHANGED <<sampler, sawFinite, settings, due>>
  BY DEF Look, Load, Swaps
<1>2. CASE (Step(w, "look", "start") \/ Step(w, "start", "swap"))
           /\ UNCHANGED <<shared, claimed, outcome>>
  <2>1. /\ pc' \in [Worker -> PCs] /\ pc[w] \in {"look", "start"}
        /\ pc'[w] \in {"start", "swap"} /\ \A v \in Worker : v # w => pc'[v] = pc[v]
    BY <1>2, StepMoves DEF PCs
  <2>2. RetentionTypeOK'
    BY <1>1, <1>2, <2>1 DEF IInv, RetentionTypeOK, PCs
  <2>3. \A v \in Worker : Busy(pc'[v]) <=> Busy(pc[v])
    BY <2>1 DEF Busy
  <2>4. OneWorker'
    BY <1>2, <2>3 DEF IInv, OneWorker, Busy
  <2>5. DebtShown' /\ DebtFinite'
    BY <1>1, <1>2, <2>1 DEF IInv, DebtShown, DebtFinite
  <2>6. PaidUp'
    BY <1>1, <1>2, <2>1 DEF IInv, PaidUp, Paid
  <2> QED BY <2>2, <2>4, <2>5, <2>6 DEF IInv
<1>3. CASE pc[w] \in {"look", "start", "swap"} /\ (Swap(w) \/ TaskEnds(w))
  <2>1. /\ pc' \in [Worker -> PCs] /\ claimed' \in [Worker -> 0..MaxDropped]
        /\ outcome' \in [Worker -> Outcomes]
        /\ fresh' \in [Worker -> BOOLEAN] /\ running' \in BOOLEAN
        /\ OneWorker'
        /\ \A v \in Worker : /\ pc[v] \in Paid <=> pc'[v] \in Paid
                             /\ pc[v] \in Paid => pc'[v] = pc[v] /\ fresh'[v] = fresh[v]
    BY <1>3, SwapOne, IdleOne
  <2>2. UNCHANGED <<finite, pending, dropped, lock>>
    BY <1>3 DEF Swap, TaskEnds
  <2>3. RetentionTypeOK'
    BY <1>1, <2>1, <2>2 DEF IInv, RetentionTypeOK, PCs, Outcomes
  <2>4. DebtShown' /\ DebtFinite'
    BY <1>1, <2>1, <2>2 DEF IInv, DebtShown, DebtFinite, Paid
  <2>5. PaidUp'
    BY <1>1, <2>1 DEF IInv, PaidUp
  <2> QED BY <2>1, <2>3, <2>4, <2>5 DEF IInv
<1> QED BY <1>2, <1>3 DEF Look, Load, Swaps

(* Every step keeps the invariant.                                         *)
LEMMA NextIInv == IInv /\ [RetentionNext]_retention => IInv'
<1> SUFFICES ASSUME IInv, [RetentionNext]_retention PROVE IInv'
  OBVIOUS
<1>1. CASE SamplerStep
  BY <1>1, SamplerIInv
<1>2. CASE SettingsStep
  BY <1>2, SettingsIInv
<1>3. ASSUME NEW w \in Worker, WorkerStep(w) PROVE IInv'
  BY <1>3, ClaimIInv, CommitIInv, GivesUpIInv, ClearsIInv, FinishIInv, LookIInv
  DEF WorkerStep
<1>4. CASE UNCHANGED retention
  <2> USE <1>4 DEF retention, shared, workers
  <2>1. RetentionTypeOK'
    BY DEF IInv, RetentionTypeOK
  <2>2. OneWorker'
    BY SamePlaces
  <2>3. DebtShown' /\ DebtFinite' /\ PaidUp'
    BY DEF IInv, DebtShown, DebtFinite, PaidUp
  <2> QED BY <2>1, <2>2, <2>3 DEF IInv
<1> QED BY <1>1, <1>2, <1>3, <1>4 DEF RetentionNext

(* A request for compaction stays in the flags until a worker has committed   *)
(* to the latest cutoff or is about to look at the generation again, and one  *)
(* worker at a time does so, however the sampler's append, a settings commit  *)
(* and the workers of history.rs interleave and whatever attempts fail.       *)
THEOREM RequestsKeptTheorem == RetentionSpec => []RequestsKept
<1>1. RetentionInit => IInv
  BY InitIInv
<1>2. IInv /\ [RetentionNext]_retention => IInv'
  BY NextIInv
<1>3. IInv => RequestsKept
  BY DEF IInv, RequestsKept
<1> QED BY <1>1, <1>2, <1>3, PTL DEF RetentionSpec
=============================================================================
