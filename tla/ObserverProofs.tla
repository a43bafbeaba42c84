--------------------------- MODULE ObserverProofs ---------------------------
(***************************************************************************)
(* What the observer reports, for streams of any length cut into any chunks,  *)
(* documents of any content and any caps: byte by byte, what it holds is a    *)
(* function of all the bytes it has read.                                    *)
(***************************************************************************)
EXTENDS Observer, FiniteSetTheorems, SequenceTheorems, WellFoundedInduction, TLAPS

-----------------------------------------------------------------------------
(* Induction up to a number, over a set.                                      *)
LEMMA Induct ==
  ASSUME NEW m \in Nat, NEW Q, 0 \in Q, \A n \in 1..m : n - 1 \in Q => n \in Q
  PROVE  \A n \in 0..m : n \in Q
<1> DEFINE Bad == {n \in 0..m : n \notin Q}
<1> SUFFICES ASSUME Bad # {} PROVE FALSE
  OBVIOUS
<1>1. IsWellFoundedOn(OpToRel(<, Nat), Nat)
  BY NatLessThanWellFounded
<1>2. Bad \in SUBSET Nat
  OBVIOUS
<1>3. PICK n \in Bad : \A k \in Bad : ~(<<k, n>> \in OpToRel(<, Nat))
  <2> HIDE DEF Bad
  <2> QED BY <1>1, <1>2, WFMin
<1>4. \A k \in Bad : ~(k < n)
  BY <1>2, <1>3 DEF OpToRel
<1>5. n # 0 /\ n \in 1..m /\ n - 1 \in 0..m
  OBVIOUS
<1>6. n - 1 \notin Bad
  BY <1>4, <1>5
<1> QED BY <1>5, <1>6

(* F begins with v, and G gives each value from the one before it.            *)
Follows(F, V, m, v, G) ==
  F \in [0..m -> V] /\ F[0] = v /\ \A n \in 1..m : F[n] = G[n][F[n - 1]]

(* A function may be defined by such a recursion.                            *)
LEMMA Recursion ==
  ASSUME NEW V, NEW m \in Nat, NEW v \in V, NEW G \in [1..m -> [V -> V]]
  PROVE  \E F : Follows(F, V, m, v, G)
<1> DEFINE OK(F, k) == /\ F \in [0..k -> V] /\ F[0] = v
                       /\ \A n \in 1..k : F[n] = G[n][F[n - 1]]
           Q == {k \in 0..m : \E F : OK(F, k)}
<1>1. 0 \in Q
  <2> DEFINE F == [n \in 0..0 |-> v]
  <2>1. OK(F, 0)
    OBVIOUS
  <2> HIDE DEF OK
  <2> QED BY <2>1
<1>2. ASSUME NEW k \in 1..m, k - 1 \in Q PROVE k \in Q
  <2>1. PICK F : OK(F, k - 1)
    BY <1>2
  <2> DEFINE H == [n \in 0..k |-> IF n = k THEN G[k][F[k - 1]] ELSE F[n]]
  <2>2. k \in Nat /\ k # 0 /\ k - 1 \in 0..(k - 1) /\ F[k - 1] \in V
    BY <2>1
  <2>3. G[k][F[k - 1]] \in V
    BY <2>2
  <2>4. \A n \in 0..k : n # k => n \in 0..(k - 1)
    BY <2>2
  <2>5. H \in [0..k -> V] /\ H[0] = v
    BY <2>1, <2>2, <2>3, <2>4
  <2>6. ASSUME NEW n \in 1..k PROVE H[n] = G[n][H[n - 1]]
    <3>1. n - 1 \in 0..k /\ n - 1 # k /\ H[n - 1] = F[n - 1] /\ n \in 0..k
      BY <2>2
    <3>2. CASE n = k
      BY <3>1, <3>2
    <3>3. CASE n # k
      <4>1. n \in 1..(k - 1)
        BY <2>2, <3>3
      <4>2. F[n] = G[n][F[n - 1]]
        BY <2>1, <4>1
      <4> QED BY <3>1, <3>3, <4>2
    <3> QED BY <3>2, <3>3
  <2> HIDE DEF H
  <2>7. OK(H, k)
    BY <2>5, <2>6
  <2> HIDE DEF OK
  <2> QED BY <2>7
<1>3. m \in Q
  <2> HIDE DEF Q
  <2>1. \A n \in 0..m : n \in Q
    BY <1>1, <1>2, Induct
  <2> QED BY <2>1
<1> QED BY <1>3 DEF Follows

-----------------------------------------------------------------------------
(* What the state of an observation sums up.                                 *)
Number == Nat \cup {Absent, Invalid}
Reason == STRING \cup {Absent, Invalid}
State == [usage : [Field -> Number], order : Seq(Nat), finish : Seq(Reason),
          overflowed : BOOLEAN, toolsInvalid : BOOLEAN, toolsPresent : BOOLEAN,
          pairs : SUBSET (Nat \X Nat)]

(* Usages U, sights G of a choice's index and reason, and tool calls T have    *)
(* been seen; bad: something else was wrong with the calls.                   *)
Used(U, f) == {IF u = Invalid THEN Invalid ELSE u[f] : u \in U}
Shown(G, x) == {v \in Reason : <<x, v>> \in G}
Sighted(G, x) == \E v \in Reason : <<x, v>> \in G
Indexes(G) == {x \in Nat : Sighted(G, x)}

UsageSays(s, U) == \A f \in Field : s.usage[f] = Agreed(Used(U, f))
FinishSays(s, G) ==
  /\ IsFiniteSet(Indexes(G))
  /\ Len(s.order) = Len(s.finish) /\ Len(s.order) <= MaxIndexed
  /\ \A i, j \in 1..Len(s.order) : s.order[i] = s.order[j] => i = j
  /\ \A i \in 1..Len(s.order) : /\ Sighted(G, s.order[i])
                                /\ s.finish[i] = Agreed(Shown(G, s.order[i]))
  /\ IF s.overflowed
     THEN /\ Len(s.order) = MaxIndexed
          /\ \E x \in Nat : Sighted(G, x) /\ \A i \in 1..Len(s.order) : s.order[i] # x
     ELSE \A x \in Nat : Sighted(G, x) => \E i \in 1..Len(s.order) : s.order[i] = x
CallsSay(s, T, bad) ==
  /\ IsFiniteSet(T) /\ s.pairs \subseteq T
  /\ s.toolsInvalid <=> bad \/ Cardinality(T) > MaxIndexed
  /\ s.pairs = T \/ Cardinality(T) > MaxIndexed

Says(s, U, G, T, bad) ==
  s \in State /\ UsageSays(s, U) /\ FinishSays(s, G) /\ CallsSay(s, T, bad)

(* The assumptions on the constants, one by one.                             *)
LEMMA Consts ==
  /\ Absent # Invalid /\ Absent \notin Nat /\ Invalid \notin Nat
  /\ Absent \notin STRING /\ Invalid \notin STRING
  /\ MaxEvent \in Nat /\ MaxEvent >= 1 /\ MaxIndexed \in Nat /\ MaxIndexed >= 1
  /\ MaxCount \in Nat
  /\ \A j \in Json : Doc[j] \in Document
  /\ Chunk \subseteq Seq(Byte) /\ None \notin Json /\ LF # CR
  /\ None \notin Outcome \cup {"body"}
BY ConstantsAssumption DEF Constants

(* Another sight of a field.                                                 *)
LEMMA AgreedAdd ==
  ASSUME NEW S, NEW v PROVE See(Agreed(S), v) = Agreed(S \cup {v})
<1> DEFINE T == S \ {Absent}
           R == (S \cup {v}) \ {Absent}
<1>1. CASE v = Absent
  <2>1. R = T
    BY <1>1
  <2> QED BY <1>1, <2>1 DEF See, Agreed
<1>2. CASE v # Absent
  <2>1. R = T \cup {v}
    BY <1>2
  <2>2. CASE T = {}
    <3>1. Agreed(S) = Absent /\ R = {v}
      BY <2>1, <2>2 DEF Agreed
    <3>2. Agreed(S \cup {v}) = v
      <4>1. Agreed(S \cup {v}) = CHOOSE x \in R : TRUE
        BY <3>1 DEF Agreed
      <4> QED BY <3>1, <4>1
    <3> QED BY <1>2, <3>1, <3>2 DEF See
  <2>3. CASE \E x \in T : T = {x}
    <3>1. PICK x \in T : T = {x}
      BY <2>3
    <3>2. Agreed(S) = x /\ x # Absent
      <4>1. Agreed(S) = CHOOSE y \in T : TRUE
        BY <3>1 DEF Agreed
      <4> QED BY <3>1, <4>1
    <3>3. CASE x = v
      <4>1. R = T
        BY <2>1, <3>1, <3>3
      <4>2. Agreed(S \cup {v}) = Agreed(S)
        BY <4>1 DEF Agreed
      <4> QED BY <1>2, <3>2, <3>3, <4>2 DEF See
    <3>4. CASE x # v
      <4>1. R # {} /\ ~ \E y \in R : R = {y}
        BY <2>1, <3>1, <3>4
      <4>2. Agreed(S \cup {v}) = Invalid
        BY <4>1 DEF Agreed
      <4> QED BY <1>2, <3>2, <3>4, <4>2 DEF See
    <3> QED BY <3>3, <3>4
  <2>4. CASE T # {} /\ ~ \E x \in T : T = {x}
    <3>1. Agreed(S) = Invalid
      BY <2>4 DEF Agreed
    <3>2. R # {} /\ ~ \E y \in R : R = {y}
      BY <2>1, <2>4
    <3>3. Agreed(S \cup {v}) = Invalid
      BY <3>2 DEF Agreed
    <3> QED BY <1>2, <3>1, <3>3, Consts DEF See
  <2> QED BY <2>2, <2>3, <2>4
<1> QED BY <1>1, <1>2

(* A field seen for the first time.                                          *)
LEMMA AgreedOne ==
  ASSUME NEW v PROVE Agreed({v}) = v
<1>1. Agreed({}) = Absent
  BY DEF Agreed
<1>2. See(Agreed({}), v) = Agreed({} \cup {v})
  BY AgreedAdd
<1>3. {} \cup {v} = {v}
  OBVIOUS
<1> QED BY <1>1, <1>2, <1>3 DEF See

(* The fields of a state.                                                    *)
LEMMA StateIs ==
  ASSUME NEW s \in State
  PROVE  /\ s.usage \in [Field -> Number] /\ s.order \in Seq(Nat) /\ s.finish \in Seq(Reason)
         /\ s.overflowed \in BOOLEAN /\ s.toolsInvalid \in BOOLEAN
         /\ s.toolsPresent \in BOOLEAN /\ s.pairs \in SUBSET (Nat \X Nat)
BY DEF State

(* SeenNumber: the usage of one more document.                               *)
LEMMA UsageSeen ==
  ASSUME NEW s \in State, NEW U, UsageSays(s, U),
         NEW u \in [Field -> Number] \cup {Absent, Invalid}, NEW t,
         t = [s EXCEPT !.usage = SeeUsage(@, u)]
  PROVE  /\ t \in State /\ UsageSays(t, IF u = Absent THEN U ELSE U \cup {u})
         /\ t.order = s.order /\ t.finish = s.finish /\ t.overflowed = s.overflowed
         /\ t.toolsInvalid = s.toolsInvalid /\ t.toolsPresent = s.toolsPresent
         /\ t.pairs = s.pairs
<1>1. /\ t.order = s.order /\ t.finish = s.finish /\ t.overflowed = s.overflowed
      /\ t.toolsInvalid = s.toolsInvalid /\ t.toolsPresent = s.toolsPresent
      /\ t.pairs = s.pairs /\ t.usage = SeeUsage(s.usage, u)
  BY DEF State
<1>2. CASE u = Absent
  <2>1. t.usage = s.usage
    BY <1>1, <1>2 DEF SeeUsage
  <2>2. t \in State
    BY <2>1 DEF State
  <2> QED BY <1>1, <1>2, <2>1, <2>2 DEF UsageSays
<1>3. CASE u # Absent
  <2>1. t.usage = [f \in Field |-> IF u = Invalid THEN Invalid ELSE See(s.usage[f], u[f])]
    BY <1>1, <1>3 DEF SeeUsage
  <2>2. ASSUME NEW f \in Field
        PROVE  t.usage[f] \in Number /\ t.usage[f] = Agreed(Used(U \cup {u}, f))
    <3> DEFINE v == IF u = Invalid THEN Invalid ELSE u[f]
    <3>1. Used(U \cup {u}, f) = Used(U, f) \cup {v}
      BY DEF Used
    <3>2. See(s.usage[f], v) = Agreed(Used(U, f) \cup {v})
      BY AgreedAdd DEF UsageSays
    <3>3. t.usage[f] = See(s.usage[f], v)
      BY <1>3, <2>1, Consts DEF See
    <3>4. s.usage[f] \in Number /\ v \in Number
      BY <1>3, StateIs DEF Number
    <3>5. See(s.usage[f], v) \in Number
      BY <3>4 DEF See, Number
    <3> QED BY <3>1, <3>2, <3>3, <3>5
  <2>3. t.usage \in [Field -> Number]
    BY <2>1, <2>2
  <2>4. t \in State
    BY <2>3 DEF State
  <2> QED BY <1>1, <1>3, <2>2, <2>4 DEF UsageSays
<1> QED BY <1>2, <1>3

(* finish_for: one more sight of a choice.                                    *)
LEMMA FinishSeen ==
  ASSUME NEW s \in State, NEW G, FinishSays(s, G), NEW x \in Nat, NEW v \in Reason,
         NEW t, t = SeeFinish(s, x, v)
  PROVE  /\ t \in State /\ FinishSays(t, G \cup {<<x, v>>})
         /\ t.usage = s.usage /\ t.toolsInvalid = s.toolsInvalid
         /\ t.toolsPresent = s.toolsPresent /\ t.pairs = s.pairs
<1> DEFINE H == G \cup {<<x, v>>}
<1>0. /\ s.order \in Seq(Nat) /\ s.finish \in Seq(Reason) /\ s.overflowed \in BOOLEAN
      /\ Len(s.order) \in Nat /\ DOMAIN s.order = 1..Len(s.order)
      /\ DOMAIN s.finish = 1..Len(s.order) /\ Len(s.finish) = Len(s.order)
  BY StateIs DEF FinishSays
<1>1. \A y : y # x => Shown(H, y) = Shown(G, y) /\ (Sighted(H, y) <=> Sighted(G, y))
  BY DEF Shown, Sighted
<1>2. Shown(H, x) = Shown(G, x) \cup {v} /\ Sighted(H, x)
  BY DEF Shown, Sighted
<1> HIDE DEF H
<1>F. IsFiniteSet(Indexes(H))
  <2>1. Indexes(H) = Indexes(G) \cup {x}
    BY <1>1, <1>2 DEF Indexes
  <2>2. IsFiniteSet(Indexes(G))
    BY DEF FinishSays
  <2> QED BY <2>1, <2>2, FS_AddElement
<1>3. CASE \E i \in DOMAIN s.order : s.order[i] = x
  <2> DEFINE fin == [i \in DOMAIN s.finish |->
                       IF s.order[i] = x THEN See(s.finish[i], v) ELSE s.finish[i]]
  <2>1. t = [s EXCEPT !.finish = fin]
    BY <1>3 DEF SeeFinish
  <2>2. ASSUME NEW i \in 1..Len(s.order)
        PROVE  fin[i] \in Reason /\ fin[i] = Agreed(Shown(H, s.order[i]))
    <3>1. s.finish[i] \in Reason /\ s.finish[i] = Agreed(Shown(G, s.order[i]))
      BY <1>0 DEF FinishSays
    <3>2. CASE s.order[i] = x
      <4>1. fin[i] = See(s.finish[i], v)
        BY <1>0, <3>2
      <4>2. See(s.finish[i], v) = Agreed(Shown(H, x))
        BY <1>2, <3>1, <3>2, AgreedAdd
      <4>3. See(s.finish[i], v) \in Reason
        BY <3>1 DEF See, Reason
      <4> QED BY <3>2, <4>1, <4>2, <4>3
    <3>3. CASE s.order[i] # x
      <4>1. fin[i] = s.finish[i]
        BY <1>0, <3>3
      <4> QED BY <1>1, <3>1, <3>3, <4>1
    <3> QED BY <3>2, <3>3
  <2>3. fin \in Seq(Reason) /\ Len(fin) = Len(s.order)
    <3>1. DOMAIN fin = 1..Len(s.order) /\ fin = [i \in 1..Len(s.order) |-> fin[i]]
      BY <1>0
    <3> HIDE DEF fin
    <3>2. fin \in [1..Len(s.order) -> Reason]
      BY <2>2, <3>1
    <3> QED BY <1>0, <3>1, <3>2, SMTT(30)
  <2> HIDE DEF fin
  <2>4. /\ t.usage = s.usage /\ t.toolsInvalid = s.toolsInvalid /\ t.finish = fin
        /\ t.toolsPresent = s.toolsPresent /\ t.pairs = s.pairs
        /\ t.order = s.order /\ t.overflowed = s.overflowed
    BY <2>1 DEF State
  <2>5. t \in State
    BY <2>1, <2>3 DEF State
  <2>6. FinishSays(t, H)
    <3>1. \A i \in 1..Len(t.order) : /\ Sighted(H, t.order[i])
                                     /\ t.finish[i] = Agreed(Shown(H, t.order[i]))
      BY <1>1, <1>2, <2>2, <2>4 DEF FinishSays
    <3>2. IF t.overflowed
          THEN /\ Len(t.order) = MaxIndexed
               /\ \E y \in Nat : Sighted(H, y) /\ \A i \in 1..Len(t.order) : t.order[i] # y
          ELSE \A y \in Nat : Sighted(H, y) => \E i \in 1..Len(t.order) : t.order[i] = y
      BY <1>0, <1>1, <1>3, <2>4 DEF FinishSays
    <3> QED BY <1>F, <2>3, <2>4, <3>1, <3>2 DEF FinishSays
  <2> QED BY <2>4, <2>5, <2>6 DEF H
<1>4. CASE ~(\E i \in DOMAIN s.order : s.order[i] = x) /\ Len(s.order) < MaxIndexed
  <2> DEFINE ord == Append(s.order, x)
             fin == Append(s.finish, v)
             n == Len(s.order) + 1
  <2>1. t = [s EXCEPT !.order = ord, !.finish = fin]
    BY <1>4 DEF SeeFinish
  <2>2. /\ ord \in Seq(Nat) /\ Len(ord) = n /\ ord[n] = x
        /\ \A i \in 1..Len(s.order) : ord[i] = s.order[i]
    BY <1>0
  <2>3. /\ fin \in Seq(Reason) /\ Len(fin) = n /\ fin[n] = v
        /\ \A i \in 1..Len(s.order) : fin[i] = s.finish[i]
    BY <1>0
  <2>4. n \in Nat /\ n <= MaxIndexed /\ \A i \in 1..n : i # n => i \in 1..Len(s.order)
    BY <1>0, <1>4, Consts
  <2>5. 1..Len(s.order) \subseteq 1..n /\ n \in 1..n
    BY <1>0
  <2> HIDE DEF ord, fin, n
  <2>6. /\ t.usage = s.usage /\ t.toolsInvalid = s.toolsInvalid /\ t.finish = fin
        /\ t.toolsPresent = s.toolsPresent /\ t.pairs = s.pairs
        /\ t.order = ord /\ t.overflowed = s.overflowed
    BY <2>1 DEF State
  <2>7. t \in State
    BY <2>1, <2>2, <2>3 DEF State
  <2>8. \A i \in 1..Len(s.order) : s.order[i] # x
    BY <1>0, <1>4
  <2>9. ~s.overflowed
    BY <1>4, <1>0, Consts DEF FinishSays
  <2>10. Shown(G, x) = {}
    BY <2>8, <2>9 DEF FinishSays, Shown, Sighted
  <2>11. fin[n] = Agreed(Shown(H, ord[n]))
    <3>1. Shown(H, x) = {v}
      BY <1>2, <2>10
    <3> QED BY <2>2, <2>3, <3>1, AgreedOne
  <2>12. ASSUME NEW i \in 1..n
         PROVE  Sighted(H, ord[i]) /\ fin[i] = Agreed(Shown(H, ord[i]))
    <3>1. CASE i = n
      BY <1>2, <2>2, <2>11, <3>1
    <3>2. CASE i # n
      <4>1. i \in 1..Len(s.order)
        BY <2>4, <3>2
      <4>2. ord[i] = s.order[i] /\ fin[i] = s.finish[i] /\ s.order[i] # x
        BY <2>2, <2>3, <2>8, <4>1
      <4> QED BY <1>1, <4>1, <4>2 DEF FinishSays
    <3> QED BY <3>1, <3>2
  <2>13. \A i, j \in 1..n : ord[i] = ord[j] => i = j
    <3>1. \A i, j \in 1..Len(s.order) : s.order[i] = s.order[j] => i = j
      BY DEF FinishSays
    <3> QED BY <2>2, <2>4, <2>8, <3>1
  <2>14. \A y \in Nat : Sighted(H, y) => \E i \in 1..n : ord[i] = y
    <3> SUFFICES ASSUME NEW y \in Nat, Sighted(H, y) PROVE \E i \in 1..n : ord[i] = y
      OBVIOUS
    <3>1. CASE y = x
      BY <2>2, <2>5, <3>1
    <3>2. CASE y # x
      <4>1. Sighted(G, y)
        BY <1>1, <3>2
      <4>2. PICK i \in 1..Len(s.order) : s.order[i] = y
        BY <2>9, <4>1 DEF FinishSays
      <4> QED BY <2>2, <2>5, <4>2
    <3> QED BY <3>1, <3>2
  <2>15. FinishSays(t, H)
    BY <1>F, <2>2, <2>3, <2>4, <2>6, <2>9, <2>12, <2>13, <2>14 DEF FinishSays
  <2> QED BY <2>6, <2>7, <2>15 DEF H
<1>5. CASE ~(\E i \in DOMAIN s.order : s.order[i] = x) /\ ~(Len(s.order) < MaxIndexed)
  <2>1. t = [s EXCEPT !.overflowed = TRUE]
    BY <1>5 DEF SeeFinish
  <2>2. /\ t.usage = s.usage /\ t.toolsInvalid = s.toolsInvalid /\ t.finish = s.finish
        /\ t.toolsPresent = s.toolsPresent /\ t.pairs = s.pairs
        /\ t.order = s.order /\ t.overflowed = TRUE /\ t \in State
    BY <2>1 DEF State
  <2>3. Len(s.order) = MaxIndexed
    BY <1>0, <1>5, Consts DEF FinishSays
  <2>4. \A i \in 1..Len(s.order) : s.order[i] # x
    BY <1>0, <1>5
  <2>5. \A i \in 1..Len(s.order) : /\ Sighted(H, s.order[i])
                                   /\ s.finish[i] = Agreed(Shown(H, s.order[i]))
    BY <1>1, <2>4 DEF FinishSays
  <2>6. \E y \in Nat : Sighted(H, y) /\ \A i \in 1..Len(s.order) : s.order[i] # y
    BY <1>2, <2>4
  <2>7. FinishSays(t, H)
    BY <1>F, <2>2, <2>3, <2>5, <2>6 DEF FinishSays
  <2> QED BY <2>2, <2>7 DEF H
<1> QED BY <1>3, <1>4, <1>5

(* What a step leaves alone when it looks at tool calls.                      *)
SameSights(t, s) ==
  /\ t.usage = s.usage /\ t.order = s.order /\ t.finish = s.finish
  /\ t.overflowed = s.overflowed /\ t.toolsPresent = s.toolsPresent

(* Something is wrong with the calls.                                        *)
LEMMA BadSeen ==
  ASSUME NEW s \in State, NEW T, NEW bad, CallsSay(s, T, bad), NEW t, t = BadTools(s)
  PROVE  t \in State /\ CallsSay(t, T, TRUE) /\ SameSights(t, s)
<1>1. /\ t \in State /\ SameSights(t, s) /\ t.pairs = s.pairs /\ t.toolsInvalid = TRUE
  BY DEF BadTools, State, SameSights
<1> QED BY <1>1 DEF CallsSay

(* remember_tool_pair: one more call.                                         *)
LEMMA PairSeen ==
  ASSUME NEW s \in State, NEW T, NEW bad, CallsSay(s, T, bad),
         NEW pair \in Nat \X Nat, NEW t, t = SeePair(s, pair)
  PROVE  t \in State /\ CallsSay(t, T \cup {pair}, bad) /\ SameSights(t, s)
<1> DEFINE R == T \cup {pair}
<1>1. IsFiniteSet(T) /\ Cardinality(T) \in Nat /\ s.pairs \subseteq T
  BY FS_CardinalityType DEF CallsSay
<1>2. /\ IsFiniteSet(R) /\ Cardinality(R) \in Nat
      /\ Cardinality(R) = IF pair \in T THEN Cardinality(T) ELSE Cardinality(T) + 1
  BY <1>1, FS_AddElement, FS_CardinalityType
<1>3. s.toolsInvalid <=> bad \/ Cardinality(T) > MaxIndexed
  BY DEF CallsSay
<1>4. s.pairs = T \/ Cardinality(T) > MaxIndexed
  BY DEF CallsSay
<1> HIDE DEF R
<1>5. CASE pair \in s.pairs \/ Cardinality(s.pairs) < MaxIndexed
  <2>1. t = [s EXCEPT !.pairs = @ \cup {pair}]
    BY <1>5 DEF SeePair
  <2>2. /\ t \in State /\ SameSights(t, s) /\ t.pairs = s.pairs \cup {pair}
        /\ t.toolsInvalid = s.toolsInvalid
    BY <2>1 DEF State, SameSights
  <2>3. t.pairs \subseteq R
    BY <1>1, <2>2 DEF R
  <2>4. CASE Cardinality(T) > MaxIndexed
    <3>1. Cardinality(R) > MaxIndexed
      BY <1>1, <1>2, <2>4, Consts
    <3> QED BY <1>2, <1>3, <2>2, <2>3, <2>4, <3>1 DEF CallsSay, R
  <2>5. CASE ~(Cardinality(T) > MaxIndexed)
    <3>1. s.pairs = T
      BY <1>4, <2>5
    <3>2. ~(Cardinality(R) > MaxIndexed)
      BY <1>1, <1>2, <1>5, <2>5, <3>1, Consts
    <3>3. t.pairs = R
      BY <2>2, <3>1 DEF R
    <3> QED BY <1>2, <1>3, <2>2, <2>3, <2>5, <3>2, <3>3 DEF CallsSay, R
  <2> QED BY <2>4, <2>5
<1>6. CASE ~(pair \in s.pairs \/ Cardinality(s.pairs) < MaxIndexed)
  <2>1. t = [s EXCEPT !.toolsInvalid = TRUE]
    BY <1>6 DEF SeePair
  <2>2. /\ t \in State /\ SameSights(t, s) /\ t.pairs = s.pairs /\ t.toolsInvalid = TRUE
    BY <2>1 DEF State, SameSights
  <2>3. Cardinality(R) > MaxIndexed
    <3>1. CASE Cardinality(T) > MaxIndexed
      BY <1>1, <1>2, <3>1, Consts
    <3>2. CASE s.pairs = T
      BY <1>1, <1>2, <1>6, <3>2, Consts
    <3> QED BY <1>4, <3>1, <3>2
  <2>4. t.pairs \subseteq R
    BY <1>1, <2>2 DEF R
  <2> QED BY <1>2, <2>2, <2>3, <2>4 DEF CallsSay, R
<1> QED BY <1>5, <1>6

(* The calls of a list, up to its n-th member.                                *)
Called(x, tools, n) == {<<x, tools[k]>> : k \in {k \in 1..n : tools[k] # Invalid}}
BadUpTo(tools, n) == \E k \in 1..n : tools[k] = Invalid

(* A call.                                                                   *)
LEMMA CallTyped ==
  ASSUME NEW s \in State, NEW x \in Nat, NEW c \in Nat \cup {Invalid}
  PROVE  SeeCall(s, x, c) \in State /\ SameSights(SeeCall(s, x, c), s)
<1>1. CASE c = Invalid
  BY <1>1 DEF SeeCall, BadTools, State, SameSights
<1>2. CASE c # Invalid
  <2>1. SeeCall(s, x, c) = SeePair(s, <<x, c>>) /\ <<x, c>> \in Nat \X Nat
    BY <1>2 DEF SeeCall
  <2>2. CASE <<x, c>> \in s.pairs \/ Cardinality(s.pairs) < MaxIndexed
    BY <2>1, <2>2 DEF SeePair, State, SameSights
  <2>3. CASE ~(<<x, c>> \in s.pairs \/ Cardinality(s.pairs) < MaxIndexed)
    BY <2>1, <2>3 DEF SeePair, State, SameSights
  <2> QED BY <2>2, <2>3
<1> QED BY <1>1, <1>2

(* And what is known of the calls after it.                                   *)
LEMMA CallSeen ==
  ASSUME NEW s \in State, NEW x \in Nat, NEW c \in Nat \cup {Invalid},
         NEW T, NEW bad \in BOOLEAN, CallsSay(s, T, bad), NEW R, NEW worse \in BOOLEAN,
         R = IF c = Invalid THEN T ELSE T \cup {<<x, c>>}, worse <=> bad \/ c = Invalid
  PROVE  CallsSay(SeeCall(s, x, c), R, worse)
<1>1. CASE c = Invalid
  <2>1. SeeCall(s, x, c) = BadTools(s) /\ R = T /\ worse = TRUE
    BY <1>1 DEF SeeCall
  <2>2. CallsSay(BadTools(s), T, TRUE)
    BY BadSeen
  <2> QED BY <2>1, <2>2
<1>2. CASE c # Invalid
  <2>1. SeeCall(s, x, c) = SeePair(s, <<x, c>>) /\ <<x, c>> \in Nat \X Nat
    BY <1>2 DEF SeeCall
  <2>2. R = T \cup {<<x, c>>} /\ worse = bad
    BY <1>2
  <2>3. CallsSay(SeePair(s, <<x, c>>), T \cup {<<x, c>>}, bad)
    BY <2>1, PairSeen
  <2> QED BY <2>1, <2>2, <2>3
<1> QED BY <1>1, <1>2

(* The calls of a choice.                                                     *)
LEMMA CallsSeen ==
  ASSUME NEW s \in State, NEW T, NEW bad \in BOOLEAN, CallsSay(s, T, bad), NEW x \in Nat,
         NEW tools \in Seq(Nat \cup {Invalid}), tools \notin {Absent, Invalid},
         NEW t, t = SeeCalls(s, x, tools)
  PROVE  /\ t \in State /\ SameSights(t, s)
         /\ CallsSay(t, T \cup Called(x, tools, Len(tools)), bad \/ BadUpTo(tools, Len(tools)))
<1> DEFINE m == Len(tools)
           D(F) == F = [n \in 0..m |-> IF n = 0 THEN s ELSE SeeCall(F[n - 1], x, tools[n])]
           A == CHOOSE F : D(F)
           G == [n \in 1..m |-> [y \in State |-> SeeCall(y, x, tools[n])]]
<1>1. m \in Nat /\ \A n \in 1..m : tools[n] \in Nat \cup {Invalid}
  OBVIOUS
<1>2. t = A[m]
  BY Zenon DEF SeeCalls
<1>3. D(A)
  <2>1. G \in [1..m -> [State -> State]]
    BY <1>1, CallTyped
  <2>0. PICK F : Follows(F, State, m, s, G)
    <3> HIDE DEF G, m
    <3> QED BY <1>1, <2>1, Recursion
  <2>2. F \in [0..m -> State] /\ F[0] = s /\ \A n \in 1..m : F[n] = G[n][F[n - 1]]
    BY <2>0 DEF Follows
  <2>3. ASSUME NEW n \in 0..m
        PROVE  F[n] = IF n = 0 THEN s ELSE SeeCall(F[n - 1], x, tools[n])
    <3>1. CASE n = 0
      BY <2>2, <3>1
    <3>2. CASE n # 0
      <4>1. n \in 1..m /\ n - 1 \in 0..m
        BY <1>1, <3>2
      <4>2. F[n - 1] \in State
        BY <2>2, <4>1
      <4>3. G[n][F[n - 1]] = SeeCall(F[n - 1], x, tools[n])
        BY <4>1, <4>2
      <4> QED BY <2>2, <3>2, <4>1, <4>3
    <3> QED BY <3>1, <3>2
  <2>4. D(F)
    BY <2>2, <2>3
  <2> HIDE DEF D
  <2> QED BY <2>4
<1> HIDE DEF A, G, m
<1>4. A[0] = s /\ \A n \in 1..m : A[n] = SeeCall(A[n - 1], x, tools[n])
  <2>1. \A n \in 0..m : A[n] = IF n = 0 THEN s ELSE SeeCall(A[n - 1], x, tools[n])
    BY <1>3
  <2> QED BY <1>1, <2>1
<1> DEFINE Q == {n \in 0..m : /\ A[n] \in State /\ SameSights(A[n], s)
                              /\ CallsSay(A[n], T \cup Called(x, tools, n), bad \/ BadUpTo(tools, n))}
<1>5. 0 \in Q
  <2>1. T \cup Called(x, tools, 0) = T /\ ~BadUpTo(tools, 0)
    BY DEF Called, BadUpTo
  <2>2. CallsSay(s, T, bad \/ BadUpTo(tools, 0))
    BY <2>1 DEF CallsSay
  <2>3. SameSights(s, s)
    BY DEF SameSights
  <2>4. CallsSay(A[0], T \cup Called(x, tools, 0), bad \/ BadUpTo(tools, 0))
    BY <1>4, <2>1, <2>2
  <2> QED BY <1>1, <1>4, <2>3, <2>4
<1>6. ASSUME NEW n \in 1..m, n - 1 \in Q PROVE n \in Q
  <2> DEFINE c == tools[n]
             S == T \cup Called(x, tools, n - 1)
             b == bad \/ BadUpTo(tools, n - 1)
  <2>1. c \in Nat \cup {Invalid} /\ A[n] = SeeCall(A[n - 1], x, c) /\ n \in 0..m
    BY <1>1, <1>4
  <2>2. A[n - 1] \in State /\ SameSights(A[n - 1], s) /\ CallsSay(A[n - 1], S, b)
    BY <1>6
  <2>3. \A k \in 1..n : k # n => k \in 1..(n - 1)
    BY <1>1
  <2>4. 1..n = 1..(n - 1) \cup {n}
    BY <1>1
  <2>5. T \cup Called(x, tools, n) = IF c = Invalid THEN S ELSE S \cup {<<x, c>>}
    BY <2>4 DEF Called
  <2>6. (bad \/ BadUpTo(tools, n)) <=> (b \/ c = Invalid)
    BY <2>4 DEF BadUpTo
  <2> HIDE DEF c, S
  <2>7. A[n] \in State /\ SameSights(A[n], A[n - 1])
    BY <2>1, <2>2, CallTyped
  <2>8. CallsSay(A[n], T \cup Called(x, tools, n), bad \/ BadUpTo(tools, n))
    <3> DEFINE w == bad \/ BadUpTo(tools, n)
               R == T \cup Called(x, tools, n)
    <3>1. b \in BOOLEAN /\ w \in BOOLEAN /\ (w <=> b \/ c = Invalid)
      BY <2>6
    <3>2. R = IF c = Invalid THEN S ELSE S \cup {<<x, c>>}
      BY <2>5
    <3> DEFINE a == A[n - 1]
    <3>3. a \in State /\ CallsSay(a, S, b) /\ c \in Nat \cup {Invalid}
      BY <2>1, <2>2
    <3> HIDE DEF a, b, w, R, Q
    <3>4. CallsSay(SeeCall(a, x, c), R, w)
      BY <3>1, <3>2, <3>3, CallSeen
    <3>5. CallsSay(A[n], R, w)
      BY <2>1, <3>4 DEF a
    <3> QED BY <3>5 DEF w, R
  <2>9. SameSights(A[n], s)
    BY <2>2, <2>7 DEF SameSights
  <2> QED BY <2>1, <2>7, <2>8, <2>9
<1>7. m \in Q
  <2> HIDE DEF Q
  <2>1. \A n \in 0..m : n \in Q
    BY <1>1, <1>5, <1>6, Induct
  <2> QED BY <1>1, <2>1
<1> QED BY <1>2, <1>7 DEF m

(* What a choice shows.                                                       *)
Read(c) == c # Invalid /\ c.index # Invalid
Sight(c) == IF Read(c) THEN {<<c.index, c.finish>>} ELSE {}
Listing(c) == Read(c) /\ c.tools \notin {Absent, Invalid}
CallsOf(c) == IF Listing(c) THEN Called(c.index, c.tools, Len(c.tools)) ELSE {}
Bad(c) == \/ ~Read(c) \/ c.tools = Invalid
          \/ Listing(c) /\ BadUpTo(c.tools, Len(c.tools))

(* The parts of a choice that was read.                                       *)
LEMMA ChoiceIs ==
  ASSUME NEW c \in Choice \cup {Invalid}, Read(c)
  PROVE  /\ c.index \in Nat /\ c.finish \in Reason
         /\ Listing(c) => c.tools \in Seq(Nat \cup {Invalid})
BY DEF Choice, Read, Reason, Listing

(* One more choice.                                                          *)
LEMMA ChoiceSeen ==
  ASSUME NEW s, NEW U, NEW G, NEW T, NEW bad \in BOOLEAN, Says(s, U, G, T, bad),
         NEW c \in Choice \cup {Invalid}, NEW t, t = SeeChoice(s, c)
  PROVE  /\ Says(t, U, G \cup Sight(c), T \cup CallsOf(c), bad \/ Bad(c))
         /\ t.toolsPresent = s.toolsPresent
<1>0. s \in State /\ UsageSays(s, U) /\ FinishSays(s, G) /\ CallsSay(s, T, bad)
  BY DEF Says
<1>1. CASE ~Read(c)
  <2>1. t = BadTools(s)
    BY <1>1 DEF SeeChoice, Read
  <2>2. G \cup Sight(c) = G /\ T \cup CallsOf(c) = T /\ (bad \/ Bad(c)) = TRUE
    BY <1>1 DEF Sight, CallsOf, Listing, Bad
  <2>3. t \in State /\ CallsSay(t, T, TRUE) /\ SameSights(t, s)
    BY <1>0, <2>1, BadSeen
  <2>4. UsageSays(t, U) /\ FinishSays(t, G) /\ t.toolsPresent = s.toolsPresent
    BY <1>0, <2>3 DEF SameSights, UsageSays, FinishSays
  <2>5. Says(t, U, G, T, TRUE)
    BY <2>3, <2>4 DEF Says
  <2> QED BY <2>2, <2>4, <2>5
<1>2. CASE Read(c)
  <2> DEFINE r == SeeFinish(s, c.index, c.finish)
             H == G \cup Sight(c)
  <2>1. t = SeeCalls(r, c.index, c.tools) /\ H = G \cup {<<c.index, c.finish>>}
    BY <1>2 DEF SeeChoice, Read, Sight
  <2>2. c.index \in Nat /\ c.finish \in Reason /\ (Listing(c) => c.tools \in Seq(Nat \cup {Invalid}))
    BY <1>2, ChoiceIs
  <2>3. /\ r \in State /\ FinishSays(r, H)
        /\ r.usage = s.usage /\ r.toolsInvalid = s.toolsInvalid
        /\ r.toolsPresent = s.toolsPresent /\ r.pairs = s.pairs
    <3> DEFINE x == c.index
               v == c.finish
    <3>1. H = G \cup {<<x, v>>} /\ r = SeeFinish(s, x, v) /\ x \in Nat /\ v \in Reason
      BY <2>1, <2>2
    <3> HIDE DEF r, H, x, v
    <3>2. /\ r \in State /\ FinishSays(r, G \cup {<<x, v>>})
          /\ r.usage = s.usage /\ r.toolsInvalid = s.toolsInvalid
          /\ r.toolsPresent = s.toolsPresent /\ r.pairs = s.pairs
      BY <1>0, <3>1, FinishSeen
    <3> QED BY <3>1, <3>2
  <2> HIDE DEF r, H
  <2>4. UsageSays(r, U) /\ CallsSay(r, T, bad)
    BY <1>0, <2>3 DEF UsageSays, CallsSay
  <2>5. ASSUME NEW R, NEW worse, t \in State, SameSights(t, r), CallsSay(t, R, worse)
        PROVE  Says(t, U, H, R, worse) /\ t.toolsPresent = s.toolsPresent
    <3>1. UsageSays(t, U) /\ FinishSays(t, H)
      BY <2>3, <2>4, <2>5 DEF SameSights, UsageSays, FinishSays
    <3> QED BY <2>3, <2>5, <3>1 DEF Says, SameSights
  <2>6. CASE c.tools = Absent
    <3>1. t = r /\ T \cup CallsOf(c) = T /\ (bad \/ Bad(c)) = bad
      BY <1>2, <2>1, <2>6, Consts DEF SeeCalls, CallsOf, Listing, Bad
    <3>2. SameSights(r, r)
      BY DEF SameSights
    <3>3. Says(t, U, H, T, bad) /\ t.toolsPresent = s.toolsPresent
      BY <2>3, <2>4, <2>5, <3>1, <3>2
    <3> QED BY <3>1, <3>3 DEF H
  <2>7. CASE c.tools = Invalid
    <3>1. t = BadTools(r) /\ T \cup CallsOf(c) = T /\ (bad \/ Bad(c)) = TRUE
      BY <1>2, <2>1, <2>7, Consts DEF SeeCalls, CallsOf, Listing, Bad
    <3>2. t \in State /\ CallsSay(t, T, TRUE) /\ SameSights(t, r)
      BY <2>3, <2>4, <3>1, BadSeen
    <3>3. Says(t, U, H, T, TRUE) /\ t.toolsPresent = s.toolsPresent
      BY <2>5, <3>2
    <3> QED BY <3>1, <3>3 DEF H
  <2>8. CASE c.tools \notin {Absent, Invalid}
    <3> DEFINE n == Len(c.tools)
               worse == bad \/ BadUpTo(c.tools, n)
    <3>1. Listing(c) /\ CallsOf(c) = Called(c.index, c.tools, n)
      BY <1>2, <2>8 DEF Listing, CallsOf
    <3>2. (bad \/ Bad(c)) = worse
      BY <1>2, <2>8, <3>1 DEF Bad
    <3>3. /\ t \in State /\ SameSights(t, r)
          /\ CallsSay(t, T \cup Called(c.index, c.tools, n), worse)
      BY <2>1, <2>2, <2>3, <2>4, <2>8, <3>1, CallsSeen
    <3> HIDE DEF worse, n
    <3>4. Says(t, U, H, T \cup CallsOf(c), worse) /\ t.toolsPresent = s.toolsPresent
      BY <2>5, <3>1, <3>3
    <3> QED BY <3>2, <3>4 DEF H
  <2> QED BY <2>6, <2>7, <2>8
<1> QED BY <1>1, <1>2

(* The same, for what is then known.                                         *)
LEMMA ChoiceAdds ==
  ASSUME NEW s, NEW U, NEW G, NEW T, NEW bad \in BOOLEAN, Says(s, U, G, T, bad),
         NEW c \in Choice \cup {Invalid}, NEW H, NEW R, NEW worse \in BOOLEAN,
         H = G \cup Sight(c), R = T \cup CallsOf(c), worse <=> bad \/ Bad(c)
  PROVE  /\ Says(SeeChoice(s, c), U, H, R, worse)
         /\ SeeChoice(s, c).toolsPresent = s.toolsPresent
<1>1. worse = (bad \/ Bad(c))
  OBVIOUS
<1>2. /\ Says(SeeChoice(s, c), U, G \cup Sight(c), T \cup CallsOf(c), bad \/ Bad(c))
      /\ SeeChoice(s, c).toolsPresent = s.toolsPresent
  BY ChoiceSeen
<1> QED BY <1>1, <1>2

(* States that sum up something.                                             *)
Sums == {s \in State : \E U, G, T : \E bad \in BOOLEAN : Says(s, U, G, T, bad)}

(* The choices of a list, up to its n-th member.                              *)
Sights(cs, n) == UNION {Sight(cs[k]) : k \in 1..n}
CallsUpTo(cs, n) == UNION {CallsOf(cs[k]) : k \in 1..n}
BadIn(cs, n) == \E k \in 1..n : Bad(cs[k])

(* The choices of an event.                                                   *)
LEMMA ChoicesSeen ==
  ASSUME NEW s, NEW U, NEW G, NEW T, NEW bad \in BOOLEAN, Says(s, U, G, T, bad),
         NEW cs \in Seq(Choice \cup {Invalid}), NEW L, NEW P, NEW worse \in BOOLEAN,
         L = G \cup Sights(cs, Len(cs)), P = T \cup CallsUpTo(cs, Len(cs)),
         worse <=> bad \/ BadIn(cs, Len(cs))
  PROVE  /\ Says(SeeChoices(s, cs), U, L, P, worse)
         /\ SeeChoices(s, cs).toolsPresent = s.toolsPresent
<1> DEFINE m == Len(cs)
           D(F) == F = [n \in 0..m |-> IF n = 0 THEN s ELSE SeeChoice(F[n - 1], cs[n])]
           A == CHOOSE F : D(F)
           J == [n \in 1..m |-> [y \in Sums |-> SeeChoice(y, cs[n])]]
<1>1. m \in Nat /\ \A n \in 1..m : cs[n] \in Choice \cup {Invalid}
  <2> HIDE DEF Choice
  <2> QED OBVIOUS
<1>2. SeeChoices(s, cs) = A[m]
  BY Zenon DEF SeeChoices
<1>3. D(A)
  <2>1. s \in Sums
    BY DEF Sums, Says
  <2>2. ASSUME NEW c \in Choice \cup {Invalid}, NEW y \in Sums PROVE SeeChoice(y, c) \in Sums
    <3>1. PICK V, H, R : \E b \in BOOLEAN : Says(y, V, H, R, b)
      BY DEF Sums
    <3>2. PICK b \in BOOLEAN : Says(y, V, H, R, b)
      BY <3>1
    <3>3. Says(SeeChoice(y, c), V, H \cup Sight(c), R \cup CallsOf(c), b \/ Bad(c))
      BY <3>2, ChoiceSeen
    <3> QED BY <3>3 DEF Sums, Says
  <2>3. J \in [1..m -> [Sums -> Sums]]
    BY <1>1, <2>2
  <2>4. PICK F : Follows(F, Sums, m, s, J)
    <3> HIDE DEF J, m
    <3> QED BY <1>1, <2>1, <2>3, Recursion
  <2>5. F \in [0..m -> Sums] /\ F[0] = s /\ \A n \in 1..m : F[n] = J[n][F[n - 1]]
    BY <2>4 DEF Follows
  <2>6. ASSUME NEW n \in 0..m
        PROVE  F[n] = IF n = 0 THEN s ELSE SeeChoice(F[n - 1], cs[n])
    <3>1. CASE n = 0
      BY <2>5, <3>1
    <3>2. CASE n # 0
      <4>1. n \in 1..m /\ n - 1 \in 0..m
        BY <1>1, <3>2
      <4>2. F[n - 1] \in Sums
        BY <2>5, <4>1
      <4>3. J[n][F[n - 1]] = SeeChoice(F[n - 1], cs[n])
        BY <4>1, <4>2
      <4> QED BY <2>5, <3>2, <4>1, <4>3
    <3> QED BY <3>1, <3>2
  <2>7. D(F)
    BY <2>5, <2>6
  <2> HIDE DEF D
  <2> QED BY <2>7
<1> HIDE DEF A, J, m
<1>4. A[0] = s /\ \A n \in 1..m : A[n] = SeeChoice(A[n - 1], cs[n])
  <2>1. \A n \in 0..m : A[n] = IF n = 0 THEN s ELSE SeeChoice(A[n - 1], cs[n])
    BY <1>3
  <2> QED BY <1>1, <2>1
<1> DEFINE w(n) == bad \/ BadIn(cs, n)
           H(n) == G \cup Sights(cs, n)
           R(n) == T \cup CallsUpTo(cs, n)
           Q == {n \in 0..m : /\ Says(A[n], U, H(n), R(n), w(n))
                              /\ A[n].toolsPresent = s.toolsPresent}
<1>5. 0 \in Q
  <2>1. H(0) = G /\ R(0) = T /\ w(0) = bad
    BY DEF Sights, CallsUpTo, BadIn
  <2> HIDE DEF H, R, w
  <2>2. Says(A[0], U, H(0), R(0), w(0))
    BY <1>4, <2>1
  <2> QED BY <1>1, <1>4, <2>2
<1>6. ASSUME NEW n \in 1..m, n - 1 \in Q PROVE n \in Q
  <2>0. n \in Nat /\ n \in 0..m /\ 1..n = 1..(n - 1) \cup {n}
    BY <1>1
  <2> DEFINE c == cs[n]
             k == n - 1
  <2>1. c \in Choice \cup {Invalid} /\ A[n] = SeeChoice(A[k], c)
    BY <1>1, <1>4
  <2>2. H(n) = H(k) \cup Sight(c)
    BY <2>0 DEF Sights
  <2>3. R(n) = R(k) \cup CallsOf(c)
    BY <2>0 DEF CallsUpTo
  <2>4. w(k) \in BOOLEAN /\ w(n) \in BOOLEAN /\ (w(n) <=> w(k) \/ Bad(c))
    BY <2>0 DEF BadIn
  <2>5. Says(A[k], U, H(k), R(k), w(k)) /\ A[k].toolsPresent = s.toolsPresent
    BY <1>6
  <2> HIDE DEF H, R, w, c, k
  <2> DEFINE g == H(k)
             h == H(n)
             q == R(k)
             r == R(n)
             v == w(k)
             u == w(n)
             y == A[k]
  <2>6. /\ Says(SeeChoice(A[k], c), U, H(n), R(n), w(n))
        /\ SeeChoice(A[k], c).toolsPresent = A[k].toolsPresent
    <3>1. h = g \cup Sight(c) /\ r = q \cup CallsOf(c)
      BY <2>2, <2>3
    <3>2. v \in BOOLEAN /\ u \in BOOLEAN /\ (u <=> v \/ Bad(c))
      BY <2>4
    <3>3. Says(y, U, g, q, v)
      BY <2>5
    <3> HIDE DEF g, h, q, r, v, u, y
    <3>4. Says(SeeChoice(y, c), U, h, r, u) /\ SeeChoice(y, c).toolsPresent = y.toolsPresent
      BY <2>1, <3>1, <3>2, <3>3, ChoiceAdds
    <3> QED BY <3>4 DEF h, r, u, y
  <2>7. Says(A[n], U, H(n), R(n), w(n)) /\ A[n].toolsPresent = s.toolsPresent
    BY <2>1, <2>5, <2>6
  <2> QED BY <2>0, <2>7
<1>7. m \in Q
  <2> HIDE DEF Q
  <2>1. \A n \in 0..m : n \in Q
    BY <1>1, <1>5, <1>6, Induct
  <2> QED BY <1>1, <2>1
<1>8. L = H(m) /\ P = R(m) /\ worse = w(m)
  BY DEF m
<1>9. Says(A[m], U, H(m), R(m), w(m)) /\ A[m].toolsPresent = s.toolsPresent
  BY <1>7
<1> HIDE DEF w, H, R
<1> QED BY <1>2, <1>8, <1>9

(* What a set of documents says.                                             *)
Listed(d) == d.choices \notin {Absent, Invalid}
UsagesOf(E) == {d.usage : d \in {d \in E : d.usage # Absent}}
SightsOf(d) == IF Listed(d) THEN Sights(d.choices, Len(d.choices)) ELSE {}
PairsOf(d) == IF Listed(d) THEN CallsUpTo(d.choices, Len(d.choices)) ELSE {}
BadDoc(d) == d.choices = Invalid \/ (Listed(d) /\ BadIn(d.choices, Len(d.choices)))
AllSights(E) == UNION {SightsOf(d) : d \in E}
AllPairs(E) == UNION {PairsOf(d) : d \in E}
AnyBad(E) == \E d \in E : BadDoc(d)
AnyListed(E) == \E d \in E : Listed(d)

Tells(s, E) == /\ Says(s, UsagesOf(E), AllSights(E), AllPairs(E), AnyBad(E))
               /\ s.toolsPresent <=> AnyListed(E)

(* Nothing has been seen at first.                                            *)
LEMMA NothingTells == Tells(Nothing, {})
<1>1. UsagesOf({}) = {} /\ AllSights({}) = {} /\ AllPairs({}) = {} /\ ~AnyBad({}) /\ ~AnyListed({})
  BY DEF UsagesOf, AllSights, AllPairs, AnyBad, AnyListed
<1>2. /\ Nothing \in State /\ Nothing.order = <<>> /\ Nothing.finish = <<>> /\ Nothing.overflowed = FALSE
      /\ Nothing.toolsInvalid = FALSE /\ Nothing.toolsPresent = FALSE /\ Nothing.pairs = {}
      /\ \A f \in Field : Nothing.usage[f] = Absent
  BY DEF Nothing, State, Number
<1>3. UsageSays(Nothing, {})
  BY <1>2 DEF UsageSays, Used, Agreed
<1>4. FinishSays(Nothing, {})
  <2>1. Indexes({}) = {}
    BY DEF Indexes, Sighted
  <2>2. IsFiniteSet(Indexes({}))
    BY <2>1, FS_EmptySet
  <2>3. Len(<<>>) = 0 /\ 0 <= MaxIndexed /\ 1..0 = {}
    BY Consts
  <2>4. \A x : ~Sighted({}, x)
    BY DEF Sighted
  <2> QED BY <1>2, <2>2, <2>3, <2>4 DEF FinishSays
<1>5. IsFiniteSet({}) /\ Cardinality({}) = 0
  BY FS_EmptySet
<1>6. CallsSay(Nothing, {}, FALSE)
  BY <1>2, <1>5, Consts DEF CallsSay
<1>7. Says(Nothing, {}, {}, {}, FALSE)
  BY <1>2, <1>3, <1>4, <1>6 DEF Says
<1>8. AnyBad({}) = FALSE
  BY <1>1 DEF AnyBad
<1> QED BY <1>1, <1>2, <1>7, <1>8 DEF Tells

(* observe_stream: one more document.                                        *)
LEMMA EventSeen ==
  ASSUME NEW s, NEW E, Tells(s, E), NEW d \in Document
  PROVE  Tells(SeeEvent(s, d), E \cup {d})
<1> DEFINE D == E \cup {d}
           U == UsagesOf(E)
           V == UsagesOf(D)
           G == AllSights(E)
           H == AllSights(D)
           T == AllPairs(E)
           R == AllPairs(D)
           bad == AnyBad(E)
           worse == AnyBad(D)
           t == [s EXCEPT !.usage = SeeUsage(@, d.usage)]
<1>1. Says(s, U, G, T, bad) /\ (s.toolsPresent <=> AnyListed(E))
  BY DEF Tells
<1>2. s \in State /\ UsageSays(s, U) /\ FinishSays(s, G) /\ CallsSay(s, T, bad)
  BY <1>1 DEF Says
<1>3. bad \in BOOLEAN /\ worse \in BOOLEAN /\ (worse <=> bad \/ BadDoc(d))
  BY DEF AnyBad
<1>4. V = (IF d.usage = Absent THEN U ELSE U \cup {d.usage})
  BY DEF UsagesOf
<1>5. H = G \cup SightsOf(d) /\ R = T \cup PairsOf(d)
  BY DEF AllSights, AllPairs
<1>6. AnyListed(D) <=> AnyListed(E) \/ Listed(d)
  BY DEF AnyListed
<1>7. /\ d.usage \in [Field -> Number] \cup {Absent, Invalid}
      /\ d.choices \in Seq(Choice \cup {Invalid}) \cup {Absent, Invalid}
  BY DEF Document, Number
<1> HIDE DEF U, V, G, H, T, R, bad, worse
<1>8. /\ t \in State /\ UsageSays(t, V)
      /\ t.order = s.order /\ t.finish = s.finish /\ t.overflowed = s.overflowed
      /\ t.toolsInvalid = s.toolsInvalid /\ t.toolsPresent = s.toolsPresent
      /\ t.pairs = s.pairs
  <2> DEFINE u == d.usage
  <2>1. t = [s EXCEPT !.usage = SeeUsage(@, u)] /\ u \in [Field -> Number] \cup {Absent, Invalid}
    BY <1>7
  <2>2. V = (IF u = Absent THEN U ELSE U \cup {u})
    BY <1>4
  <2> HIDE DEF u, t
  <2> QED BY <1>2, <2>1, <2>2, UsageSeen
<1>9. FinishSays(t, G) /\ CallsSay(t, T, bad)
  BY <1>2, <1>8 DEF FinishSays, CallsSay
<1> HIDE DEF t
<1>10. CASE d.choices = Absent
  <2>1. SeeEvent(s, d) = t /\ ~Listed(d) /\ ~BadDoc(d)
    BY <1>10, Consts DEF SeeEvent, t, Listed, BadDoc
  <2>2. H = G /\ R = T /\ worse = bad /\ (AnyListed(D) <=> AnyListed(E))
    BY <1>3, <1>5, <1>6, <2>1 DEF SightsOf, PairsOf
  <2>3. Says(t, V, H, R, worse)
    BY <1>8, <1>9, <2>2 DEF Says
  <2> QED BY <1>1, <1>8, <2>1, <2>2, <2>3 DEF Tells, V, H, R, worse
<1>11. CASE d.choices = Invalid
  <2> DEFINE r == BadTools(t)
  <2>1. SeeEvent(s, d) = r /\ ~Listed(d) /\ BadDoc(d)
    BY <1>11, Consts DEF SeeEvent, t, Listed, BadDoc
  <2>2. H = G /\ R = T /\ worse = TRUE /\ (AnyListed(D) <=> AnyListed(E))
    BY <1>3, <1>5, <1>6, <2>1 DEF SightsOf, PairsOf
  <2>3. r \in State /\ CallsSay(r, T, TRUE) /\ SameSights(r, t)
    BY <1>3, <1>8, <1>9, BadSeen
  <2> HIDE DEF r
  <2>4. UsageSays(r, V) /\ FinishSays(r, G) /\ r.toolsPresent = t.toolsPresent
    BY <1>8, <1>9, <2>3 DEF SameSights, UsageSays, FinishSays
  <2>5. Says(r, V, H, R, worse)
    BY <2>2, <2>3, <2>4 DEF Says
  <2> QED BY <1>1, <1>8, <2>1, <2>2, <2>4, <2>5 DEF Tells, V, H, R, worse
<1>12. CASE d.choices \notin {Absent, Invalid}
  <2> DEFINE cs == d.choices
             r == [t EXCEPT !.toolsPresent = TRUE]
             z == SeeChoices(r, cs)
  <2>1. SeeEvent(s, d) = z /\ Listed(d) /\ (BadDoc(d) <=> BadIn(cs, Len(cs)))
    BY <1>12 DEF SeeEvent, t, Listed, BadDoc
  <2>2. H = G \cup Sights(cs, Len(cs)) /\ R = T \cup CallsUpTo(cs, Len(cs))
    BY <1>5, <2>1 DEF SightsOf, PairsOf
  <2>3. cs \in Seq(Choice \cup {Invalid})
    BY <1>7, <1>12
  <2>4. /\ r \in State /\ r.toolsPresent = TRUE /\ r.usage = t.usage /\ r.order = t.order
        /\ r.finish = t.finish /\ r.overflowed = t.overflowed
        /\ r.toolsInvalid = t.toolsInvalid /\ r.pairs = t.pairs
    BY <1>8 DEF State
  <2> HIDE DEF cs, r
  <2>5. Says(r, V, G, T, bad)
    BY <1>8, <1>9, <2>4 DEF Says, UsageSays, FinishSays, CallsSay
  <2>6. bad \in BOOLEAN /\ worse \in BOOLEAN /\ (worse <=> bad \/ BadIn(cs, Len(cs)))
    BY <1>3, <2>1
  <2>7. Says(SeeChoices(r, cs), V, H, R, worse) /\ SeeChoices(r, cs).toolsPresent = r.toolsPresent
    BY <2>2, <2>3, <2>5, <2>6, ChoicesSeen
  <2>8. Says(z, V, H, R, worse) /\ z.toolsPresent = TRUE
    BY <2>4, <2>7
  <2> HIDE DEF z
  <2> QED BY <1>6, <2>1, <2>7, <2>8 DEF Tells, V, H, R, worse
<1> QED BY <1>10, <1>11, <1>12

-----------------------------------------------------------------------------
(* Positions in a stream.                                                    *)

(* LastBefore(S, i) is the greatest member of S before i, or 0.               *)
LEMMA LastIs ==
  ASSUME NEW S \in SUBSET (Nat \ {0}), NEW i \in Nat
  PROVE  /\ LastBefore(S, i) \in Nat
         /\ LastBefore(S, i) = 0 \/ (LastBefore(S, i) \in S /\ LastBefore(S, i) < i)
         /\ \A y \in S : y < i => y <= LastBefore(S, i)
<1> DEFINE T(k) == {x \in S : x < k}
           Top(k) == T(k) # {} => \E x \in T(k) : \A y \in T(k) : y <= x
           Q == {k \in 0..i : Top(k)}
<1>0. \A x \in S : x \in Nat /\ x # 0
  OBVIOUS
<1>1. 0 \in Q
  <2>1. \A x \in S : ~(x < 0)
    BY <1>0
  <2>2. T(0) = {}
    BY <2>1
  <2> QED BY <2>2
<1>2. ASSUME NEW k \in 1..i, k - 1 \in Q PROVE k \in Q
  <2>1. k \in Nat /\ k - 1 \in Nat /\ Top(k - 1) /\ k \in 0..i
    BY <1>2
  <2>2. CASE k - 1 \in S
    <3>1. k - 1 \in T(k) /\ \A y \in T(k) : y <= k - 1
      BY <1>0, <2>1, <2>2
    <3> QED BY <2>1, <3>1
  <2>3. CASE k - 1 \notin S
    <3>0. \A x \in S : x < k <=> x < k - 1
      <4> TAKE x \in S
      <4>1. x \in Nat /\ x # k - 1
        BY <1>0, <2>3
      <4> QED BY <2>1, <4>1
    <3>1. T(k) = T(k - 1)
      BY <3>0
    <3> HIDE DEF T
    <3> QED BY <2>1, <3>1
  <2> QED BY <2>2, <2>3
<1>3. i \in Q
  <2> HIDE DEF Q
  <2>1. \A k \in 0..i : k \in Q
    BY <1>1, <1>2, Induct
  <2> QED BY <2>1
<1>4. CASE T(i) = {}
  BY <1>4 DEF LastBefore
<1>5. CASE T(i) # {}
  <2>1. LastBefore(S, i) = CHOOSE x \in T(i) : \A y \in T(i) : y <= x
    BY <1>5 DEF LastBefore
  <2>2. \E x \in T(i) : \A y \in T(i) : y <= x
    BY <1>3, <1>5
  <2> DEFINE x == LastBefore(S, i)
  <2>3. x \in T(i) /\ \A y \in T(i) : y <= x
    BY <2>1, <2>2
  <2> QED BY <2>3
<1> QED BY <1>4, <1>5

(* It only depends on the members before i.                                   *)
LEMMA LastSame ==
  ASSUME NEW S, NEW R, NEW i, NEW j, {x \in S : x < i} = {x \in R : x < j}
  PROVE  LastBefore(S, i) = LastBefore(R, j)
<1> DEFINE Top(T) == IF T = {} THEN 0 ELSE CHOOSE x \in T : \A y \in T : y <= x
<1>1. LastBefore(S, i) = Top({x \in S : x < i})
  BY DEF LastBefore
<1>2. LastBefore(R, j) = Top({x \in R : x < j})
  BY DEF LastBefore
<1> HIDE DEF Top
<1> QED BY <1>1, <1>2

(* The end of a line or an event is a position of the stream.                 *)
LEMMA EndsAre ==
  ASSUME NEW f \in Seq(Byte)
  PROVE  /\ Len(f) \in Nat /\ DOMAIN f = 1..Len(f)
         /\ Ends(f) \in SUBSET (Nat \ {0}) /\ Ends(f) \subseteq 1..Len(f)
         /\ Blanks(f) \subseteq Ends(f) /\ Blanks(f) \in SUBSET (Nat \ {0})
BY DEF Ends, Blanks

(* A part of a sequence.                                                     *)
LEMMA SliceIs ==
  ASSUME NEW B, NEW s \in Seq(B), NEW m \in Nat \ {0}, NEW n \in Nat, n <= Len(s)
  PROVE  /\ SubSeq(s, m, n) \in Seq(B)
         /\ m <= n + 1 => Len(SubSeq(s, m, n)) = n - m + 1
         /\ \A i \in 1..(n - m + 1) : SubSeq(s, m, n)[i] = s[m + i - 1]
<1>1. m \in Int /\ n \in Int /\ \A i \in m..n : s[i] \in B
  OBVIOUS
<1>2. /\ SubSeq(s, m, n) \in Seq(B)
      /\ Len(SubSeq(s, m, n)) = IF m <= n THEN n - m + 1 ELSE 0
      /\ \A i \in 1..(n - m + 1) : SubSeq(s, m, n)[i] = s[m + i - 1]
  BY <1>1, SubSeqProperties
<1>3. m <= n + 1 => (m <= n \/ n - m + 1 = 0)
  OBVIOUS
<1> QED BY <1>2, <1>3

(* A line without the CR it may end with.                                     *)
LEMMA StrippedIs ==
  ASSUME NEW s \in Seq(Byte)
  PROVE  /\ Stripped(s) \in Seq(Byte) /\ Len(Stripped(s)) <= Len(s)
         /\ Len(s) >= 2 => Stripped(s) # <<>>
         /\ s = <<>> => Stripped(s) = <<>>
         /\ \A b : s = <<b>> => (Stripped(s) = <<>> <=> b = CR)
<1>1. CASE s = <<>>
  BY <1>1 DEF Stripped
<1>2. CASE s # <<>>
  <2>1. Len(s) \in Nat \ {0} /\ Last(s) = s[Len(s)] /\ Front(s) = SubSeq(s, 1, Len(s) - 1)
    BY <1>2 DEF Last, Front
  <2>2. Front(s) \in Seq(Byte) /\ Len(Front(s)) = Len(s) - 1
    <3>1. 1 \in Nat \ {0} /\ Len(s) - 1 \in Nat /\ Len(s) - 1 <= Len(s) /\ 1 <= Len(s) - 1 + 1
      BY <2>1
    <3>2. /\ SubSeq(s, 1, Len(s) - 1) \in Seq(Byte)
          /\ Len(SubSeq(s, 1, Len(s) - 1)) = Len(s) - 1 - 1 + 1
      BY <3>1, SliceIs, ZenonT(30)
    <3>3. Len(s) - 1 - 1 + 1 = Len(s) - 1
      BY <2>1
    <3> QED BY <2>1, <3>2, <3>3
  <2>3. Len(s) = 1 => (Front(s) = <<>>)
    BY <2>1, <2>2
  <2>4. Len(s) >= 2 => (Front(s) # <<>> /\ s # <<>>)
    <3>1. Len(s) >= 2 => Len(Front(s)) # 0 /\ Len(s) # 0
      BY <2>1, <2>2
    <3>2. Len(<<>>) = 0
      OBVIOUS
    <3> QED BY <3>1, <3>2
  <2>5. Stripped(s) = IF s[Len(s)] = CR THEN Front(s) ELSE s
    BY <1>2, <2>1 DEF Stripped
  <2>6. \A b : s = <<b>> => Len(s) = 1 /\ s[Len(s)] = b
    OBVIOUS
  <2> HIDE DEF Byte
  <2> QED BY <1>2, <2>1, <2>2, <2>3, <2>4, <2>5, <2>6
<1> QED BY <1>1, <1>2

(* The payload of a data line is shorter than the line by its prefix.         *)
LEMMA PayloadIs ==
  ASSUME NEW s \in Seq(Byte), IsData(s)
  PROVE  Payload(s) \in Seq(Byte) /\ Len(Payload(s)) = Len(s) - 2
<1>1. Len(s) \in Nat /\ Len(s) >= 2
  BY DEF IsData
<1>2. 3 \in Nat \ {0} /\ Len(s) <= Len(s) /\ 3 <= Len(s) + 1
  BY <1>1
<1>3. /\ SubSeq(s, 3, Len(s)) \in Seq(Byte)
      /\ Len(SubSeq(s, 3, Len(s))) = Len(s) - 3 + 1
  <2>1. ASSUME NEW n \in Nat, n <= Len(s), NEW k \in Nat \ {0}, k <= n + 1
        PROVE  SubSeq(s, k, n) \in Seq(Byte) /\ Len(SubSeq(s, k, n)) = n - k + 1
    <3> HIDE DEF Byte
    <3> QED BY <2>1, SliceIs
  <2> QED BY <1>1, <1>2, <2>1
<1>4. Payload(s) = SubSeq(s, 3, Len(s)) /\ Len(s) - 3 + 1 = Len(s) - 2
  BY <1>1 DEF Payload
<1> QED BY <1>3, <1>4

(* A line joined to the data of the lines before it.                          *)
LEMMA JoinedIs ==
  ASSUME NEW s \in Seq(Byte), NEW t \in Seq(Byte)
  PROVE  /\ Joined(s, t) \in Seq(Byte)
         /\ Len(Joined(s, t)) = Len(t) \/ Len(Joined(s, t)) = Len(s) + 1 + Len(t)
<1>1. LF \in Byte
  BY DEF Byte
<1> HIDE DEF Byte
<1>2. <<LF>> \in Seq(Byte) /\ Len(<<LF>>) = 1
  BY <1>1
<1>3. s \o <<LF>> \in Seq(Byte) /\ Len(s \o <<LF>>) = Len(s) + 1
  BY <1>2
<1>4. (s \o <<LF>>) \o t \in Seq(Byte) /\ Len((s \o <<LF>>) \o t) = Len(s) + 1 + Len(t)
  BY <1>3
<1> QED BY <1>4 DEF Joined

(* The lines of a stream.                                                    *)
LEMMA LineTyped ==
  ASSUME NEW f \in Seq(Byte), NEW i \in 1..(Len(f) + 1)
  PROVE  LineAt(f, i) \in Seq(Byte)
<1>1. LastBefore(Ends(f), i) \in Nat /\ i \in Nat /\ i - 1 \in 0..Len(f)
  BY EndsAre, LastIs
<1> HIDE DEF Byte
<1>2. SubSeq(f, LastBefore(Ends(f), i) + 1, i - 1) \in Seq(Byte)
  BY <1>1
<1> QED BY <1>2, StrippedIs DEF LineAt

(* The data of an event, line by line.                                        *)
LEMMA DataIs ==
  ASSUME NEW f \in Seq(Byte), NEW p \in Nat, NEW q \in 0..Len(f)
  PROVE  /\ DataBetween(f, p, q) \in Seq(Byte)
         /\ DataBetween(f, p, q) =
              IF q <= p THEN <<>>
              ELSE IF q \in Ends(f) /\ IsData(LineAt(f, q))
              THEN Joined(DataBetween(f, p, q - 1), Payload(LineAt(f, q)))
              ELSE DataBetween(f, p, q - 1)
<1> DEFINE m == Len(f)
           Then(i, s) == IF i <= p THEN <<>>
                         ELSE IF i \in Ends(f) /\ IsData(LineAt(f, i))
                         THEN Joined(s, Payload(LineAt(f, i))) ELSE s
           D(F) == F = [i \in 0..m |-> IF i <= p THEN <<>>
                         ELSE IF i \in Ends(f) /\ IsData(LineAt(f, i))
                         THEN Joined(F[i - 1], Payload(LineAt(f, i))) ELSE F[i - 1]]
           A == CHOOSE F : D(F)
           J == [n \in 1..m |-> [y \in Seq(Byte) |-> Then(n, y)]]
<1>1. m \in Nat
  OBVIOUS
<1>2. \A x : DataBetween(f, p, x) = A[x]
  BY Zenon DEF DataBetween
<1>3. ASSUME NEW n \in 1..m, NEW y \in Seq(Byte) PROVE Then(n, y) \in Seq(Byte)
  <2>1. n \in 1..(Len(f) + 1)
    BY <1>1
  <2>2. LineAt(f, n) \in Seq(Byte)
    BY <2>1, LineTyped
  <2>3. IsData(LineAt(f, n)) => Joined(y, Payload(LineAt(f, n))) \in Seq(Byte)
    BY <2>2, PayloadIs, JoinedIs
  <2>4. <<>> \in Seq(Byte)
    OBVIOUS
  <2> QED BY <2>3, <2>4
<1>4. PICK F : Follows(F, Seq(Byte), m, <<>>, J)
  <2>1. J \in [1..m -> [Seq(Byte) -> Seq(Byte)]]
    <3> HIDE DEF Then, m, Byte
    <3> QED BY <1>3
  <2>2. <<>> \in Seq(Byte)
    OBVIOUS
  <2> HIDE DEF J, m
  <2> QED BY <1>1, <2>1, <2>2, Recursion
<1>5. /\ F \in [0..m -> Seq(Byte)] /\ F[0] = <<>>
      /\ \A n \in 1..m : F[n] = J[n][F[n - 1]]
  BY <1>4 DEF Follows
<1>6. ASSUME NEW n \in 0..m PROVE F[n] = Then(n, F[n - 1])
  <2>1. CASE n = 0
    BY <1>5, <2>1
  <2>2. CASE n # 0
    <3>1. n \in 1..m /\ n - 1 \in 0..m
      BY <1>1, <2>2
    <3>2. F[n - 1] \in Seq(Byte)
      BY <1>5, <3>1
    <3>3. J[n][F[n - 1]] = Then(n, F[n - 1])
      <4> HIDE DEF Then, m
      <4> QED BY <3>1, <3>2
    <3> QED BY <1>5, <3>1, <3>3
  <2> QED BY <2>1, <2>2
<1>7. D(F)
  BY <1>5, <1>6
<1>8. D(A)
  <2> HIDE DEF D
  <2> QED BY <1>7
<1> HIDE DEF A, J, m
<1>9. \A n \in 0..m : A[n] = Then(n, A[n - 1])
  BY <1>8
<1>10. \A n \in 0..m : A[n] \in Seq(Byte)
  <2> DEFINE Q == {n \in 0..m : A[n] \in Seq(Byte)}
  <2>1. 0 \in Q
    <3>1. 0 \in 0..m /\ 0 <= p /\ <<>> \in Seq(Byte)
      BY <1>1
    <3>2. A[0] = <<>>
      BY <1>9, <3>1
    <3> QED BY <3>1, <3>2
  <2>2. ASSUME NEW n \in 1..m, n - 1 \in Q PROVE n \in Q
    <3>1. A[n - 1] \in Seq(Byte) /\ n \in 0..m
      BY <1>1, <2>2
    <3>2. Then(n, A[n - 1]) \in Seq(Byte)
      BY <1>3, <3>1
    <3> HIDE DEF Then
    <3> QED BY <1>9, <3>1, <3>2
  <2>3. \A n \in 0..m : n \in Q
    <3> HIDE DEF Q
    <3> QED BY <1>1, <2>1, <2>2, Induct
  <2> QED BY <2>3
<1>11. q \in 0..m
  BY DEF m
<1>12. A[q] \in Seq(Byte) /\ A[q] = Then(q, A[q - 1])
  BY <1>9, <1>10, <1>11
<1> QED BY <1>2, <1>12

(* Parts of two sequences that agree there.                                   *)
LEMMA SliceSame ==
  ASSUME NEW B, NEW s \in Seq(B), NEW t \in Seq(B), NEW m \in Nat \ {0}, NEW n \in Nat,
         n <= Len(s), n <= Len(t), \A i \in m..n : s[i] = t[i]
  PROVE  SubSeq(s, m, n) = SubSeq(t, m, n)
<1>1. CASE n < m
  BY <1>1, SubSeqEmpty
<1>2. CASE ~(n < m)
  <2>1. m <= n + 1
    BY <1>2
  <2> DEFINE x == SubSeq(s, m, n)
             y == SubSeq(t, m, n)
  <2>2. x \in Seq(B) /\ Len(x) = n - m + 1 /\ \A i \in 1..(n - m + 1) : x[i] = s[m + i - 1]
    BY <2>1, SliceIs
  <2>3. y \in Seq(B) /\ Len(y) = n - m + 1 /\ \A i \in 1..(n - m + 1) : y[i] = t[m + i - 1]
    BY <2>1, SliceIs
  <2>4. \A i \in 1..(n - m + 1) : x[i] = y[i]
    <3> TAKE i \in 1..(n - m + 1)
    <3>1. m + i - 1 \in m..n
      OBVIOUS
    <3> QED BY <2>2, <2>3, <3>1
  <2> HIDE DEF x, y
  <2> QED BY <2>2, <2>3, <2>4, SeqEqual, SMTT(30)
<1> QED BY <1>1, <1>2

(* A stream and its next byte.                                                *)
LEMMA GrownIs ==
  ASSUME NEW f \in Seq(Byte), NEW b \in Byte, NEW g, g = Append(f, b)
  PROVE  /\ g \in Seq(Byte) /\ Len(f) \in Nat /\ Len(g) = Len(f) + 1 /\ g[Len(f) + 1] = b
         /\ \A i \in 1..Len(f) : g[i] = f[i]
         /\ \A i : i \in Ends(g) <=> i \in Ends(f) \/ (i = Len(f) + 1 /\ b = LF)
<1> HIDE DEF Byte
<1>1. /\ g \in Seq(Byte) /\ Len(f) \in Nat /\ Len(g) = Len(f) + 1 /\ g[Len(f) + 1] = b
      /\ \A i \in 1..Len(f) : g[i] = f[i]
  OBVIOUS
<1>2. DOMAIN f = 1..Len(f) /\ DOMAIN g = 1..(Len(f) + 1)
  BY <1>1
<1>3. 1..(Len(f) + 1) = 1..Len(f) \cup {Len(f) + 1}
  BY <1>1
<1>4. \A i : i \in Ends(g) <=> i \in Ends(f) \/ (i = Len(f) + 1 /\ b = LF)
  BY <1>1, <1>2, <1>3 DEF Ends
<1> QED BY <1>1, <1>4

(* The lines up to the byte are as they were.                                 *)
LEMMA LineKept ==
  ASSUME NEW f \in Seq(Byte), NEW b \in Byte, NEW g, g = Append(f, b)
  PROVE  \A i \in 1..(Len(f) + 1) :
           LastBefore(Ends(g), i) = LastBefore(Ends(f), i) /\ LineAt(g, i) = LineAt(f, i)
<1>1. /\ g \in Seq(Byte) /\ Len(f) \in Nat /\ Len(g) = Len(f) + 1
      /\ \A k \in 1..Len(f) : g[k] = f[k]
      /\ \A k : k \in Ends(g) <=> k \in Ends(f) \/ (k = Len(f) + 1 /\ b = LF)
  <2>1. g \in Seq(Byte) /\ Len(f) \in Nat /\ Len(g) = Len(f) + 1
    BY GrownIs
  <2>2. \A k \in 1..Len(f) : g[k] = f[k]
    BY GrownIs
  <2>3. \A k : k \in Ends(g) <=> k \in Ends(f) \/ (k = Len(f) + 1 /\ b = LF)
    BY GrownIs
  <2> QED BY <2>1, <2>2, <2>3
<1> TAKE i \in 1..(Len(f) + 1)
<1>2. i \in Nat /\ ~(Len(f) + 1 < i) /\ i - 1 \in Nat /\ i - 1 <= Len(f) /\ i - 1 <= Len(g)
  BY <1>1
<1>3. {k \in Ends(g) : k < i} = {k \in Ends(f) : k < i}
  BY <1>1, <1>2
<1>4. LastBefore(Ends(g), i) = LastBefore(Ends(f), i)
  BY <1>3, LastSame
<1> DEFINE e == LastBefore(Ends(f), i) + 1
<1>5. e \in Nat \ {0}
  BY <1>2, EndsAre, LastIs
<1> HIDE DEF e
<1>6. \A k \in e..(i - 1) : f[k] = g[k]
  BY <1>1, <1>2, <1>5
<1>7. SubSeq(f, e, i - 1) = SubSeq(g, e, i - 1)
  <2> HIDE DEF Byte
  <2> QED BY <1>1, <1>2, <1>5, <1>6, SliceSame
<1>8. LineAt(g, i) = Stripped(SubSeq(g, e, i - 1)) /\ LineAt(f, i) = Stripped(SubSeq(f, e, i - 1))
  BY <1>4 DEF e, LineAt
<1> QED BY <1>4, <1>7, <1>8

(* So are the blank lines.                                                    *)
LEMMA BlanksGrow ==
  ASSUME NEW f \in Seq(Byte), NEW b \in Byte, NEW g, g = Append(f, b)
  PROVE  \A i : i \in Blanks(g) <=>
                 \/ i \in Blanks(f)
                 \/ i = Len(f) + 1 /\ b = LF /\ LineAt(f, Len(f) + 1) = <<>>
<1>1. /\ Len(f) \in Nat
      /\ \A k : k \in Ends(g) <=> k \in Ends(f) \/ (k = Len(f) + 1 /\ b = LF)
  BY GrownIs
<1>2. Ends(f) \subseteq 1..Len(f)
  BY EndsAre
<1>3. \A i \in 1..(Len(f) + 1) : LineAt(g, i) = LineAt(f, i)
  BY LineKept
<1>4. Len(f) + 1 \in 1..(Len(f) + 1) /\ \A i \in Ends(f) : i \in 1..(Len(f) + 1)
  BY <1>1, <1>2
<1> QED BY <1>1, <1>3, <1>4 DEF Blanks

(* So is the data of the lines that have ended.                               *)
LEMMA DataKept ==
  ASSUME NEW f \in Seq(Byte), NEW b \in Byte, NEW g, g = Append(f, b), NEW p \in Nat
  PROVE  \A q \in 0..Len(f) : DataBetween(g, p, q) = DataBetween(f, p, q)
<1> DEFINE m == Len(f)
           Q == {q \in 0..m : DataBetween(g, p, q) = DataBetween(f, p, q)}
<1>1. /\ g \in Seq(Byte) /\ m \in Nat /\ Len(g) = m + 1
      /\ \A k : k \in Ends(g) <=> k \in Ends(f) \/ (k = m + 1 /\ b = LF)
  BY GrownIs
<1>2. 0 \in Q
  <2>1. 0 \in 0..m /\ 0 \in 0..Len(g) /\ 0 <= p
    BY <1>1
  <2>2. DataBetween(f, p, 0) = <<>> /\ DataBetween(g, p, 0) = <<>>
    BY <1>1, <2>1, DataIs
  <2> QED BY <2>1, <2>2
<1>3. ASSUME NEW q \in 1..m, q - 1 \in Q PROVE q \in Q
  <2>1. q \in 0..m /\ q \in 0..Len(g) /\ q # m + 1 /\ q \in 1..(m + 1)
    BY <1>1
  <2>2. q \in Ends(g) <=> q \in Ends(f)
    BY <1>1, <2>1
  <2>3. LineAt(g, q) = LineAt(f, q)
    BY <2>1, LineKept
  <2>4. DataBetween(g, p, q - 1) = DataBetween(f, p, q - 1)
    BY <1>3
  <2>5. DataBetween(f, p, q) =
          IF q <= p THEN <<>> ELSE IF q \in Ends(f) /\ IsData(LineAt(f, q))
          THEN Joined(DataBetween(f, p, q - 1), Payload(LineAt(f, q)))
          ELSE DataBetween(f, p, q - 1)
    BY <2>1, DataIs
  <2>6. DataBetween(g, p, q) =
          IF q <= p THEN <<>> ELSE IF q \in Ends(g) /\ IsData(LineAt(g, q))
          THEN Joined(DataBetween(g, p, q - 1), Payload(LineAt(g, q)))
          ELSE DataBetween(g, p, q - 1)
    BY <1>1, <2>1, DataIs
  <2> QED BY <2>1, <2>2, <2>3, <2>4, <2>5, <2>6
<1>4. \A q \in 0..m : q \in Q
  <2> HIDE DEF Q, m
  <2> QED BY <1>1, <1>2, <1>3, Induct
<1> QED BY <1>4

(* So is whether an event passed the cap.                                     *)
LEMMA LongKept ==
  ASSUME NEW f \in Seq(Byte), NEW b \in Byte, NEW g, g = Append(f, b), NEW p \in Nat,
         NEW q \in 0..Len(f)
  PROVE  TooLong(g, p, q) <=> TooLong(f, p, q)
<1>1. Len(f) \in Nat /\ \A k \in 1..Len(f) : g[k] = f[k]
  BY GrownIs
<1>2. ASSUME NEW i \in (p + 1)..q
      PROVE  /\ g[i] = f[i] /\ LastBefore(Ends(g), i) = LastBefore(Ends(f), i)
             /\ DataBetween(g, p, LastBefore(Ends(g), i)) = DataBetween(f, p, LastBefore(Ends(f), i))
  <2>1. i \in 1..Len(f) /\ i \in 1..(Len(f) + 1) /\ i \in Nat
    BY <1>1
  <2>2. LastBefore(Ends(g), i) = LastBefore(Ends(f), i)
    BY <2>1, LineKept
  <2>3. LastBefore(Ends(f), i) \in Nat /\ (LastBefore(Ends(f), i) = 0 \/ LastBefore(Ends(f), i) < i)
    BY <2>1, EndsAre, LastIs
  <2>4. LastBefore(Ends(f), i) \in 0..Len(f)
    BY <2>1, <2>3
  <2>5. DataBetween(g, p, LastBefore(Ends(f), i)) = DataBetween(f, p, LastBefore(Ends(f), i))
    BY <2>4, DataKept
  <2> QED BY <1>1, <2>1, <2>2, <2>5
<1> QED BY <1>2 DEF TooLong

(* And so are the events.                                                     *)
LEMMA EventKept ==
  ASSUME NEW f \in Seq(Byte), NEW b \in Byte, NEW g, g = Append(f, b), NEW i \in 1..Len(f)
  PROVE  EventAt(g, i) = EventAt(f, i)
<1>1. Len(f) \in Nat /\ i \in Nat /\ i \in 0..Len(f) /\ ~(Len(f) + 1 < i)
  BY GrownIs
<1>2. {k \in Blanks(g) : k < i} = {k \in Blanks(f) : k < i}
  BY <1>1, BlanksGrow
<1>3. LastBefore(Blanks(g), i) = LastBefore(Blanks(f), i)
  BY <1>2, LastSame
<1> DEFINE p == LastBefore(Blanks(f), i)
<1>4. p \in Nat
  BY <1>1, EndsAre, LastIs
<1>5. TooLong(g, p, i) <=> TooLong(f, p, i)
  BY <1>1, <1>4, LongKept
<1>6. DataBetween(g, p, i) = DataBetween(f, p, i)
  BY <1>1, <1>4, DataKept, ZenonT(30)
<1> QED BY <1>3, <1>5, <1>6 DEF EventAt

(* The unfinished end of a stream: where its last line and its last event     *)
(* begin, that line, the data of the event so far, whether it passed the cap;  *)
(* and the documents of the events before it.                                *)
StartOf(f) == LastBefore(Ends(f), Len(f) + 1)
OpenOf(f) == LastBefore(Blanks(f), Len(f) + 1)
LineOf(f) == SubSeq(f, StartOf(f) + 1, Len(f))
DataOf(f) == DataBetween(f, OpenOf(f), Len(f))
LongOf(f) == TooLong(f, OpenOf(f), Len(f))
Docs(f) == {Doc[EventAt(f, i)] : i \in Parsed(f)}
Counted(f) == {i \in Parsed(f) : Countable(Doc[EventAt(f, i)])}

(* Where they are, and that the last line adds nothing to the data yet.        *)
LEMMA TailIs ==
  ASSUME NEW f \in Seq(Byte)
  PROVE  /\ Len(f) \in Nat /\ StartOf(f) \in 0..Len(f) /\ OpenOf(f) \in 0..StartOf(f)
         /\ \A i \in Ends(f) : i <= StartOf(f)
         /\ LineOf(f) \in Seq(Byte) /\ Len(LineOf(f)) = Len(f) - StartOf(f)
         /\ LineAt(f, Len(f) + 1) = Stripped(LineOf(f))
         /\ DataOf(f) \in Seq(Byte) /\ DataBetween(f, OpenOf(f), StartOf(f)) = DataOf(f)
<1> DEFINE n == Len(f)
           st == StartOf(f)
           p == OpenOf(f)
<1>1. /\ n \in Nat /\ n + 1 \in Nat /\ Ends(f) \in SUBSET (Nat \ {0}) /\ Ends(f) \subseteq 1..n
      /\ Blanks(f) \subseteq Ends(f) /\ Blanks(f) \in SUBSET (Nat \ {0})
  BY EndsAre
<1>2. st \in Nat /\ (st = 0 \/ st \in Ends(f)) /\ \A i \in Ends(f) : i < n + 1 => i <= st
  <2> HIDE DEF n
  <2>1. st = LastBefore(Ends(f), n + 1)
    BY DEF StartOf, n
  <2> HIDE DEF st
  <2> QED BY <1>1, <2>1, LastIs
<1>3. p \in Nat /\ (p = 0 \/ p \in Blanks(f))
  <2> HIDE DEF n
  <2>1. p = LastBefore(Blanks(f), n + 1)
    BY DEF OpenOf, n
  <2> HIDE DEF p
  <2> QED BY <1>1, <2>1, LastIs
<1>4. \A i \in Ends(f) : i \in Nat /\ i < n + 1 /\ i <= st /\ i <= n
  BY <1>1, <1>2
<1>5. st \in 0..n /\ p \in 0..st
  BY <1>1, <1>2, <1>3, <1>4
<1>6. LineOf(f) \in Seq(Byte) /\ Len(LineOf(f)) = n - st
  <2>1. st + 1 \in Nat \ {0} /\ st + 1 <= n + 1 /\ n <= Len(f) /\ n - (st + 1) + 1 = n - st
    BY <1>1, <1>5
  <2>2. LineOf(f) = SubSeq(f, st + 1, n)
    BY DEF LineOf
  <2>3. ASSUME NEW k \in Nat \ {0}, k <= n + 1
        PROVE  SubSeq(f, k, n) \in Seq(Byte) /\ Len(SubSeq(f, k, n)) = n - k + 1
    <3>1. n \in Nat /\ n <= Len(f)
      BY <1>1
    <3> HIDE DEF Byte, n
    <3> QED BY <2>3, <3>1, SliceIs
  <2> HIDE DEF st, n
  <2> QED BY <2>1, <2>2, <2>3
<1>7. LineAt(f, n + 1) = Stripped(LineOf(f))
  <2>1. LineAt(f, n + 1) = Stripped(SubSeq(f, st + 1, (n + 1) - 1)) /\ (n + 1) - 1 = n
    BY <1>1 DEF LineAt, StartOf
  <2> QED BY <2>1 DEF LineOf
<1>8. \A q \in 0..n : q >= st => DataBetween(f, p, q) = DataBetween(f, p, st)
  <2> DEFINE Q == {q \in 0..n : q >= st => DataBetween(f, p, q) = DataBetween(f, p, st)}
  <2>1. 0 \in Q
    <3>1. 0 \in 0..n /\ (0 >= st => 0 = st)
      BY <1>1, <1>5
    <3> HIDE DEF st, p, n
    <3> QED BY <3>1
  <2>2. ASSUME NEW q \in 1..n, q - 1 \in Q PROVE q \in Q
    <3>1. q \in 0..n /\ q - 1 \in 0..n /\ p \in Nat /\ (q >= st => q - 1 >= st \/ q = st)
      BY <1>1, <1>5
    <3>2. CASE q > st
      <4>1. q \notin Ends(f) /\ ~(q <= p) /\ q - 1 >= st
        BY <1>4, <1>5, <3>1, <3>2
      <4>2. DataBetween(f, p, q) = DataBetween(f, p, q - 1)
        <5>1. q \in 0..Len(f)
          BY <3>1
        <5> HIDE DEF p, n, st
        <5> QED BY <3>1, <4>1, <5>1, DataIs
      <4>3. DataBetween(f, p, q - 1) = DataBetween(f, p, st)
        BY <2>2, <4>1
      <4> HIDE DEF p, n, st
      <4> QED BY <3>1, <4>2, <4>3
    <3>3. CASE ~(q > st)
      <4>1. q >= st => q = st
        BY <1>5, <3>1, <3>3
      <4> HIDE DEF p, n, st
      <4> QED BY <3>1, <4>1
    <3> QED BY <3>2, <3>3
  <2>3. \A q \in 0..n : q \in Q
    <3> HIDE DEF Q, n
    <3> QED BY <1>1, <2>1, <2>2, Induct
  <2> QED BY <2>3
<1>9. n \in 0..n /\ n >= st /\ n \in 0..Len(f) /\ p \in Nat
  BY <1>1, <1>5
<1>10. DataOf(f) \in Seq(Byte) /\ DataBetween(f, p, st) = DataOf(f)
  <2>1. DataOf(f) = DataBetween(f, p, n)
    BY DEF DataOf
  <2>2. DataBetween(f, p, n) \in Seq(Byte)
    <3> HIDE DEF n, p
    <3> QED BY <1>9, DataIs
  <2> HIDE DEF n, p, st
  <2> QED BY <1>8, <1>9, <2>1, <2>2
<1> QED BY <1>1, <1>4, <1>5, <1>6, <1>7, <1>10

(* The events of a stream of which the last has not ended are as they were.    *)
LEMMA SameDocs ==
  ASSUME NEW f \in Seq(Byte), NEW b \in Byte, NEW g, g = Append(f, b), Blanks(g) = Blanks(f)
  PROVE  Docs(g) = Docs(f) /\ Counted(g) = Counted(f) /\ Parsed(g) = Parsed(f)
<1>1. \A i \in Blanks(f) : EventAt(g, i) = EventAt(f, i)
  <2>1. Blanks(f) \subseteq 1..Len(f)
    BY EndsAre
  <2>2. \A i \in 1..Len(f) : EventAt(g, i) = EventAt(f, i)
    BY EventKept
  <2> QED BY <2>1, <2>2
<1>2. Parsed(g) = Parsed(f)
  BY <1>1 DEF Parsed
<1>3. \A i \in Parsed(f) : EventAt(g, i) = EventAt(f, i)
  BY <1>1 DEF Parsed
<1> QED BY <1>2, <1>3 DEF Docs, Counted

(* A byte that ends no line.                                                  *)
LEMMA PlainByte ==
  ASSUME NEW f \in Seq(Byte), NEW b \in Byte, b # LF, NEW g, g = Append(f, b)
  PROVE  /\ LineOf(g) = Append(LineOf(f), b) /\ DataOf(g) = DataOf(f)
         /\ LongOf(g) <=> LongOf(f) \/ Len(DataOf(f)) + Len(LineOf(f)) >= MaxEvent
         /\ Docs(g) = Docs(f) /\ Counted(g) = Counted(f) /\ Parsed(g) = Parsed(f)
<1> DEFINE n == Len(f)
           st == StartOf(f)
           p == OpenOf(f)
<1>1. g \in Seq(Byte) /\ Len(g) = n + 1 /\ g[n + 1] = b
  BY GrownIs
<1>2. \A i \in 1..n : g[i] = f[i]
  BY GrownIs
<1>3. Ends(g) = Ends(f)
  <2>1. \A k : k \in Ends(g) <=> k \in Ends(f) \/ (k = Len(f) + 1 /\ b = LF)
    BY GrownIs
  <2> QED BY <2>1
<1>4. Blanks(g) = Blanks(f)
  <2>1. \A i : i \in Blanks(g) <=>
                 (i \in Blanks(f) \/ (i = Len(f) + 1 /\ b = LF /\ LineAt(f, Len(f) + 1) = <<>>))
    BY BlanksGrow
  <2> QED BY <2>1
<1>5. /\ n \in Nat /\ st \in 0..n /\ p \in 0..st /\ \A i \in Ends(f) : i <= st
      /\ LineOf(f) \in Seq(Byte) /\ Len(LineOf(f)) = n - st
      /\ DataOf(f) \in Seq(Byte) /\ DataBetween(f, p, st) = DataOf(f)
  BY TailIs
<1>6. Ends(f) \subseteq 1..n /\ Blanks(f) \subseteq 1..n
  BY EndsAre
<1>7. \A i \in 1..n : (i < n + 2 <=> i < n + 1)
  BY <1>5
<1>8. StartOf(g) = st /\ OpenOf(g) = p
  <2>1. {i \in Ends(g) : i < (n + 1) + 1} = {i \in Ends(f) : i < n + 1}
    BY <1>3, <1>5, <1>6, <1>7
  <2>2. {i \in Blanks(g) : i < (n + 1) + 1} = {i \in Blanks(f) : i < n + 1}
    BY <1>4, <1>5, <1>6, <1>7
  <2>3. LastBefore(Ends(g), (n + 1) + 1) = LastBefore(Ends(f), n + 1)
    BY <2>1, LastSame
  <2>4. LastBefore(Blanks(g), (n + 1) + 1) = LastBefore(Blanks(f), n + 1)
    BY <2>2, LastSame
  <2> QED BY <1>1, <2>3, <2>4 DEF StartOf, OpenOf
<1> HIDE DEF st, p
<1>9. LineOf(g) = Append(LineOf(f), b)
  <2> DEFINE x == SubSeq(f, st + 1, n)
             y == SubSeq(g, st + 1, n + 1)
             z == Append(x, b)
  <2>1. LineOf(f) = x /\ LineOf(g) = y
    BY <1>1, <1>8 DEF LineOf, st
  <2>2. /\ st + 1 \in Nat \ {0} /\ st + 1 <= n + 1 /\ st + 1 <= (n + 1) + 1
        /\ n + 1 \in Nat /\ n <= Len(f) /\ n + 1 <= Len(g)
    BY <1>1, <1>5
  <2>3. /\ x \in Seq(Byte) /\ Len(x) = n - (st + 1) + 1
        /\ \A i \in 1..(n - (st + 1) + 1) : x[i] = f[(st + 1) + i - 1]
    <3> HIDE DEF n, Byte
    <3> QED BY <1>5, <2>2, SliceIs
  <2>4. /\ y \in Seq(Byte) /\ Len(y) = (n + 1) - (st + 1) + 1
        /\ \A i \in 1..((n + 1) - (st + 1) + 1) : y[i] = g[(st + 1) + i - 1]
    <3>1. ASSUME NEW k \in Nat \ {0}, NEW j \in Nat, j <= Len(g), k <= j + 1
          PROVE  /\ SubSeq(g, k, j) \in Seq(Byte) /\ Len(SubSeq(g, k, j)) = j - k + 1
                 /\ \A i \in 1..(j - k + 1) : SubSeq(g, k, j)[i] = g[k + i - 1]
      <4>1. g \in Seq(Byte)
        BY <1>1
      <4> HIDE DEF Byte
      <4> QED BY <3>1, <4>1, SliceIs
    <3> HIDE DEF n, Byte
    <3> QED BY <2>2, <3>1
  <2> DEFINE l == n - st
  <2>5. l \in Nat /\ n - (st + 1) + 1 = l /\ (n + 1) - (st + 1) + 1 = l + 1 /\ n = st + l
    BY <1>5
  <2>6. z \in Seq(Byte) /\ Len(z) = l + 1 /\ z[l + 1] = b /\ \A i \in 1..l : z[i] = x[i]
    <3>1. x \in Seq(Byte) /\ Len(x) = l
      BY <2>3, <2>5
    <3> HIDE DEF x, l, Byte
    <3> QED BY <2>5, <3>1
  <2>7. ASSUME NEW i \in 1..(l + 1) PROVE y[i] = z[i]
    <3>1. y[i] = g[(st + 1) + i - 1]
      BY <2>4, <2>5
    <3>2. CASE i = l + 1
      <4>1. (st + 1) + i - 1 = n + 1
        BY <1>5, <2>5, <3>2
      <4> QED BY <1>1, <2>6, <3>1, <3>2, <4>1
    <3>3. CASE i # l + 1
      <4>1. i \in 1..l /\ (st + 1) + i - 1 \in 1..n
        BY <1>5, <2>5, <3>3
      <4>2. x[i] = f[(st + 1) + i - 1]
        BY <2>3, <2>5, <4>1
      <4> QED BY <1>2, <2>6, <3>1, <4>1, <4>2
    <3> QED BY <3>2, <3>3
  <2>8. Len(y) = Len(z) /\ Len(y) = l + 1 /\ y \in Seq(Byte)
    BY <2>4, <2>5, <2>6
  <2> HIDE DEF x, y, z, l
  <2>9. y = z
    BY <2>6, <2>7, <2>8, SeqEqual
  <2> QED BY <2>1, <2>9 DEF z
<1>10. DataOf(g) = DataOf(f)
  <2>1. n + 1 \notin Ends(g) /\ p \in Nat /\ n + 1 \in 0..Len(g) /\ ~(n + 1 <= p) /\ (n + 1) - 1 = n
    BY <1>1, <1>3, <1>5, <1>6
  <2>2. DataBetween(g, p, n + 1) = DataBetween(g, p, n)
    <3> HIDE DEF n
    <3> QED BY <1>1, <2>1, DataIs, ZenonT(30)
  <2>3. DataBetween(g, p, n) = DataBetween(f, p, n)
    <3>0. p \in Nat
      BY <2>1
    <3>1. \A q \in 0..Len(f) : DataBetween(g, p, q) = DataBetween(f, p, q)
      BY <3>0, DataKept
    <3>2. n \in 0..Len(f)
      BY <1>5
    <3> QED BY <3>1, <3>2
  <2> QED BY <1>1, <1>8, <2>2, <2>3 DEF DataOf, p
<1>11. LongOf(g) <=> LongOf(f) \/ Len(DataOf(f)) + Len(LineOf(f)) >= MaxEvent
  <2> DEFINE Hit(h, i) == h[i] # LF /\ Len(DataBetween(h, p, LastBefore(Ends(h), i)))
                                        + (i - 1 - LastBefore(Ends(h), i)) >= MaxEvent
  <2>0. p \in Nat /\ n \in 0..Len(f)
    BY <1>5
  <2>1. LongOf(g) <=> TooLong(g, p, n + 1)
    BY <1>1, <1>8 DEF LongOf
  <2>2. TooLong(g, p, n + 1) <=> \E i \in (p + 1)..(n + 1) : Hit(g, i)
    BY DEF TooLong
  <2>3. TooLong(g, p, n) <=> \E i \in (p + 1)..n : Hit(g, i)
    BY DEF TooLong
  <2>4. (p + 1)..(n + 1) = (p + 1)..n \cup {n + 1}
    BY <1>5
  <2>5. TooLong(g, p, n) <=> LongOf(f)
    <3>1. LongOf(f) <=> TooLong(f, p, n)
      BY DEF LongOf, p
    <3> QED BY <2>0, <3>1, LongKept
  <2>6. LastBefore(Ends(g), n + 1) = st
    BY <1>3 DEF st, StartOf
  <2>7. st \in 0..Len(f) /\ p \in Nat
    BY <1>5
  <2>8. DataBetween(g, p, st) = DataOf(f)
    <3>1. DataBetween(g, p, st) = DataBetween(f, p, st)
      BY <2>7, DataKept
    <3> QED BY <1>5, <3>1
  <2>9. (n + 1) - 1 - st = Len(LineOf(f))
    BY <1>5
  <2>10. Hit(g, n + 1) <=> Len(DataOf(f)) + Len(LineOf(f)) >= MaxEvent
    BY <1>1, <2>6, <2>8, <2>9
  <2> HIDE DEF Hit
  <2> QED BY <2>1, <2>2, <2>3, <2>4, <2>5, <2>10
<1> QED BY <1>4, <1>9, <1>10, <1>11, SameDocs

(* The end of a line.                                                        *)
LEMMA LineEnd ==
  ASSUME NEW f \in Seq(Byte), NEW g, g = Append(f, LF)
  PROVE  /\ LineOf(g) = <<>>
         /\ IF Stripped(LineOf(f)) = <<>>
            THEN DataOf(g) = <<>> /\ ~LongOf(g)
            ELSE /\ DataOf(g) = (IF IsData(Stripped(LineOf(f)))
                                 THEN Joined(DataOf(f), Payload(Stripped(LineOf(f))))
                                 ELSE DataOf(f))
                 /\ LongOf(g) <=> LongOf(f)
<1> DEFINE b == LF
           n == Len(f)
           p == OpenOf(f)
           l == Stripped(LineOf(f))
<1>0. b \in Byte /\ g = Append(f, b)
  BY DEF Byte
<1> HIDE DEF b
<1>1. g \in Seq(Byte) /\ Len(g) = n + 1 /\ g[n + 1] = b
  BY <1>0, GrownIs
<1>2. \A k : k \in Ends(g) <=> k \in Ends(f) \/ k = n + 1
  <2>1. \A k : k \in Ends(g) <=> k \in Ends(f) \/ (k = Len(f) + 1 /\ b = LF)
    BY <1>0, GrownIs
  <2> QED BY <2>1 DEF b
<1>3. \A k : k \in Blanks(g) <=> k \in Blanks(f) \/ (k = n + 1 /\ LineAt(f, n + 1) = <<>>)
  <2>1. \A i : i \in Blanks(g) <=>
                 (i \in Blanks(f) \/ (i = Len(f) + 1 /\ b = LF /\ LineAt(f, Len(f) + 1) = <<>>))
    BY <1>0, BlanksGrow
  <2> QED BY <2>1 DEF b
<1>4. /\ n \in Nat /\ StartOf(f) \in 0..n /\ p \in 0..StartOf(f) /\ DataOf(f) \in Seq(Byte)
      /\ LineAt(f, n + 1) = l
  BY TailIs
<1>5. Ends(f) \subseteq 1..n /\ Blanks(f) \subseteq 1..n
  BY EndsAre
<1>6. p \in Nat /\ ~(n + 1 <= p) /\ n \in 0..Len(f) /\ n + 1 \in 0..Len(g) /\ (n + 1) - 1 = n
  BY <1>1, <1>4
<1> HIDE DEF p, l
<1>7. /\ g \in Seq(Byte) /\ StartOf(g) \in Nat /\ OpenOf(g) \in Nat
      /\ \A i \in Ends(g) : i <= StartOf(g)
      /\ StartOf(g) \in 0..Len(g) /\ LineOf(g) \in Seq(Byte) /\ Len(LineOf(g)) = Len(g) - StartOf(g)
  <2>1. g \in Seq(Byte)
    BY <1>1
  <2>2. /\ Len(g) \in Nat /\ StartOf(g) \in 0..Len(g) /\ OpenOf(g) \in 0..StartOf(g)
        /\ \A i \in Ends(g) : i <= StartOf(g)
        /\ LineOf(g) \in Seq(Byte) /\ Len(LineOf(g)) = Len(g) - StartOf(g)
    BY <2>1, TailIs
  <2>3. StartOf(g) \in Nat /\ OpenOf(g) \in Nat
    BY <2>2
  <2> QED BY <2>1, <2>2, <2>3
<1>8. LineOf(g) = <<>>
  <2>1. n + 1 <= StartOf(g) /\ StartOf(g) = n + 1
    BY <1>1, <1>2, <1>4, <1>7
  <2>2. Len(LineOf(g)) = 0
    BY <1>1, <1>4, <1>7, <2>1
  <2>3. LineOf(g) \in Seq(Byte)
    BY <1>7
  <2> HIDE DEF Byte
  <2> QED BY <2>2, <2>3, EmptySeq
<1>9. CASE l = <<>>
  <2>1. n + 1 \in Blanks(g)
    BY <1>3, <1>4, <1>9
  <2>2. OpenOf(g) = n + 1
    <3> DEFINE S == Blanks(g)
               j == Len(g) + 1
    <3>1. S \in SUBSET (Nat \ {0}) /\ j \in Nat
      <4>1. g \in Seq(Byte)
        BY <1>1
      <4>2. S \in SUBSET (Nat \ {0})
        BY <4>1, EndsAre
      <4>3. j \in Nat
        BY <1>1, <1>4
      <4> QED BY <4>2, <4>3
    <3>2. OpenOf(g) = LastBefore(S, j)
      BY DEF OpenOf
    <3> HIDE DEF S, j
    <3>3. /\ OpenOf(g) \in Nat /\ (OpenOf(g) = 0 \/ (OpenOf(g) \in S /\ OpenOf(g) < j))
          /\ \A y \in S : y < j => y <= OpenOf(g)
      BY <3>1, <3>2, LastIs
    <3>4. j = n + 2 /\ n + 1 \in S
      BY <1>1, <1>4, <2>1 DEF j, S
    <3> QED BY <1>4, <3>3, <3>4
  <2>3. DataOf(g) = <<>>
    <3>1. DataOf(g) = DataBetween(g, n + 1, n + 1) /\ n + 1 \in Nat /\ n + 1 <= n + 1
      BY <1>1, <1>4, <2>2 DEF DataOf
    <3> HIDE DEF n
    <3> QED BY <1>1, <1>6, <3>1, DataIs
  <2>4. ~LongOf(g)
    <3>1. LongOf(g) <=> TooLong(g, n + 1, n + 1)
      BY <1>1, <2>2 DEF LongOf
    <3>2. ((n + 1) + 1)..(n + 1) = {}
      BY <1>4
    <3> QED BY <3>1, <3>2 DEF TooLong
  <2> QED BY <1>8, <1>9, <2>3, <2>4 DEF l
<1>10. CASE l # <<>>
  <2>1. Blanks(g) = Blanks(f)
    BY <1>3, <1>4, <1>10
  <2>2. OpenOf(g) = p
    <3>0. \A i \in 1..n : (i < (n + 1) + 1 <=> i < n + 1)
      BY <1>4
    <3>1. {i \in Blanks(g) : i < (n + 1) + 1} = {i \in Blanks(f) : i < n + 1}
      BY <1>5, <2>1, <3>0
    <3>2. LastBefore(Blanks(g), (n + 1) + 1) = LastBefore(Blanks(f), n + 1)
      BY <3>1, LastSame
    <3> QED BY <1>1, <3>2 DEF OpenOf, p
  <2>3. LineAt(g, n + 1) = l
    <3>1. \A i \in 1..(Len(f) + 1) : LineAt(g, i) = LineAt(f, i)
      BY <1>0, LineKept
    <3>2. n + 1 \in 1..(Len(f) + 1)
      BY <1>4
    <3> QED BY <1>4, <3>1, <3>2
  <2>4. \A q \in 0..Len(f) : DataBetween(g, p, q) = DataBetween(f, p, q)
    <3>1. p \in Nat
      BY <1>6
    <3> QED BY <1>0, <3>1, DataKept
  <2>5. DataBetween(g, p, n) = DataOf(f)
    BY <1>6, <2>4 DEF DataOf, p
  <2>6. DataOf(g) = (IF IsData(l) THEN Joined(DataOf(f), Payload(l)) ELSE DataOf(f))
    <3>1. DataBetween(g, p, n + 1) =
            IF n + 1 <= p THEN <<>> ELSE IF n + 1 \in Ends(g) /\ IsData(LineAt(g, n + 1))
            THEN Joined(DataBetween(g, p, (n + 1) - 1), Payload(LineAt(g, n + 1)))
            ELSE DataBetween(g, p, (n + 1) - 1)
      <4>1. g \in Seq(Byte) /\ p \in Nat /\ n + 1 \in 0..Len(g)
        BY <1>1, <1>6
      <4> HIDE DEF n
      <4> QED BY <4>1, DataIs
    <3>2. DataOf(g) = DataBetween(g, p, n + 1)
      BY <1>1, <2>2 DEF DataOf
    <3>3. n + 1 \in Ends(g) /\ ~(n + 1 <= p) /\ (n + 1) - 1 = n
      BY <1>2, <1>6
    <3> HIDE DEF n
    <3> QED BY <2>3, <2>5, <3>1, <3>2, <3>3
  <2>7. LongOf(g) <=> LongOf(f)
    <3>1. LongOf(g) <=> TooLong(g, p, n + 1)
      BY <1>1, <2>2 DEF LongOf
    <3>2. \A i \in (p + 1)..(n + 1) : g[i] # LF => i \in (p + 1)..n
      BY <1>1, <1>4, <1>6 DEF b
    <3>3. (p + 1)..n \subseteq (p + 1)..(n + 1)
      BY <1>4, <1>6
    <3>4. TooLong(g, p, n + 1) <=> TooLong(g, p, n)
      BY <3>2, <3>3 DEF TooLong
    <3>5. TooLong(g, p, n) <=> TooLong(f, p, n)
      <4>1. p \in Nat /\ n \in 0..Len(f)
        BY <1>6
      <4> HIDE DEF n
      <4> QED BY <1>0, <4>1, LongKept
    <3> QED BY <3>1, <3>4, <3>5 DEF LongOf, p
  <2> QED BY <1>8, <1>10, <2>6, <2>7 DEF l
<1> QED BY <1>9, <1>10

(* Its events: a blank line ends the one before it.                           *)
LEMMA EventEnd ==
  ASSUME NEW f \in Seq(Byte), NEW g, g = Append(f, LF), NEW j,
         j = IF Stripped(LineOf(f)) # <<>> \/ LongOf(f) THEN None ELSE Parse(DataOf(f))
  PROVE  /\ Parsed(g) = IF j = None THEN Parsed(f) ELSE Parsed(f) \cup {Len(f) + 1}
         /\ Docs(g) = IF j = None THEN Docs(f) ELSE Docs(f) \cup {Doc[j]}
         /\ Counted(g) = IF j # None /\ Countable(Doc[j]) THEN Counted(f) \cup {Len(f) + 1}
                         ELSE Counted(f)
         /\ Len(f) + 1 \notin Counted(f)
<1> DEFINE b == LF
           n == Len(f)
           p == OpenOf(f)
           l == Stripped(LineOf(f))
<1>0. b \in Byte /\ g = Append(f, b)
  BY DEF Byte
<1> HIDE DEF b
<1>1. g \in Seq(Byte) /\ Len(g) = n + 1 /\ g[n + 1] = b
  BY <1>0, GrownIs
<1>2. \A k : k \in Ends(g) <=> k \in Ends(f) \/ k = n + 1
  <2>1. \A k : k \in Ends(g) <=> k \in Ends(f) \/ (k = Len(f) + 1 /\ b = LF)
    BY <1>0, GrownIs
  <2> QED BY <2>1 DEF b
<1>3. \A k : k \in Blanks(g) <=> k \in Blanks(f) \/ (k = n + 1 /\ LineAt(f, n + 1) = <<>>)
  <2>1. \A i : i \in Blanks(g) <=>
                 (i \in Blanks(f) \/ (i = Len(f) + 1 /\ b = LF /\ LineAt(f, Len(f) + 1) = <<>>))
    BY <1>0, BlanksGrow
  <2> QED BY <2>1 DEF b
<1>4. /\ n \in Nat /\ StartOf(f) \in 0..n /\ p \in 0..StartOf(f) /\ DataOf(f) \in Seq(Byte)
      /\ LineAt(f, n + 1) = l
  BY TailIs
<1>5. Blanks(f) \subseteq 1..n /\ n + 1 \notin Blanks(f)
  <2>1. Blanks(f) \subseteq 1..n
    BY EndsAre
  <2> QED BY <1>4, <2>1
<1>6. Parsed(f) \subseteq Blanks(f) /\ Counted(f) \subseteq Parsed(f)
  BY DEF Parsed, Counted
<1>7. CASE l # <<>>
  <2>1. Blanks(g) = Blanks(f) /\ j = None
    BY <1>3, <1>4, <1>7
  <2>2. Docs(g) = Docs(f) /\ Counted(g) = Counted(f) /\ Parsed(g) = Parsed(f)
    BY <1>0, <2>1, SameDocs
  <2> QED BY <1>5, <1>6, <2>1, <2>2
<1>8. CASE l = <<>>
  <2>1. \A i \in Blanks(f) : EventAt(g, i) = EventAt(f, i)
    <3>1. \A i \in 1..Len(f) : EventAt(g, i) = EventAt(f, i)
      BY <1>0, EventKept
    <3> QED BY <1>5, <3>1
  <2>2. EventAt(g, n + 1) = j
    <3>1. LastBefore(Blanks(g), n + 1) = p
      <4>1. {i \in Blanks(g) : i < n + 1} = {i \in Blanks(f) : i < n + 1}
        BY <1>3, <1>4
      <4>2. LastBefore(Blanks(g), n + 1) = LastBefore(Blanks(f), n + 1)
        BY <4>1, LastSame
      <4> QED BY <4>2 DEF OpenOf
    <3> HIDE DEF p
    <3>2. p \in Nat /\ n \in 0..Len(f) /\ n + 1 \in 0..Len(g) /\ ~(n + 1 <= p) /\ (n + 1) - 1 = n
      BY <1>1, <1>4
    <3>3. TooLong(g, p, n + 1) <=> LongOf(f)
      <4>1. \A i \in (p + 1)..(n + 1) : g[i] # LF => i \in (p + 1)..n
        BY <1>1, <1>4, <3>2 DEF b
      <4>2. (p + 1)..n \subseteq (p + 1)..(n + 1)
        BY <1>4, <3>2
      <4>3. TooLong(g, p, n + 1) <=> TooLong(g, p, n)
        BY <4>1, <4>2 DEF TooLong
      <4>4. TooLong(g, p, n) <=> TooLong(f, p, n)
        <5>1. p \in Nat /\ n \in 0..Len(f)
          BY <3>2
        <5> HIDE DEF n
        <5> QED BY <1>0, <5>1, LongKept
      <4> QED BY <4>3, <4>4 DEF LongOf, p
    <3>4. DataBetween(g, p, n + 1) = DataOf(f)
      <4>1. LineAt(g, n + 1) = <<>>
        <5>1. \A i \in 1..(Len(f) + 1) : LineAt(g, i) = LineAt(f, i)
          BY <1>0, LineKept
        <5>2. n + 1 \in 1..(Len(f) + 1)
          BY <1>4
        <5> QED BY <1>4, <1>8, <5>1, <5>2
      <4>2. ~IsData(<<>>)
        BY DEF IsData
      <4>3. DataBetween(g, p, n + 1) =
              IF n + 1 <= p THEN <<>> ELSE IF n + 1 \in Ends(g) /\ IsData(LineAt(g, n + 1))
              THEN Joined(DataBetween(g, p, (n + 1) - 1), Payload(LineAt(g, n + 1)))
              ELSE DataBetween(g, p, (n + 1) - 1)
        <5>1. g \in Seq(Byte) /\ p \in Nat /\ n + 1 \in 0..Len(g)
          BY <1>1, <3>2
        <5> HIDE DEF n
        <5> QED BY <5>1, DataIs
      <4>4. \A q \in 0..Len(f) : DataBetween(g, p, q) = DataBetween(f, p, q)
        <5>1. p \in Nat
          BY <3>2
        <5> QED BY <1>0, <5>1, DataKept
      <4>5. DataBetween(g, p, n) = DataOf(f)
        BY <3>2, <4>4 DEF DataOf, p
      <4> HIDE DEF n
      <4> QED BY <3>2, <4>1, <4>2, <4>3, <4>5
    <3> QED BY <1>8, <3>1, <3>3, <3>4 DEF EventAt
  <2>3. Blanks(g) = Blanks(f) \cup {n + 1}
    BY <1>3, <1>4, <1>8
  <2>4. \A i : i \in Parsed(g) <=> i \in Parsed(f) \/ (i = n + 1 /\ j # None)
    BY <1>5, <2>1, <2>2, <2>3 DEF Parsed
  <2>5. \A i \in Parsed(f) : EventAt(g, i) = EventAt(f, i)
    BY <1>6, <2>1
  <2>6. CASE j = None
    <3>1. Parsed(g) = Parsed(f)
      BY <2>4, <2>6
    <3>2. Docs(g) = Docs(f) /\ Counted(g) = Counted(f)
      BY <2>5, <3>1 DEF Docs, Counted
    <3> QED BY <1>5, <1>6, <2>6, <3>1, <3>2
  <2>7. CASE j # None
    <3>1. Parsed(g) = Parsed(f) \cup {n + 1}
      BY <2>4, <2>7
    <3>2. Docs(g) = Docs(f) \cup {Doc[j]}
      BY <2>2, <2>5, <3>1 DEF Docs
    <3>3. \A i : i \in Counted(g) <=> i \in Counted(f) \/ (i = n + 1 /\ Countable(Doc[j]))
      BY <2>2, <2>5, <3>1 DEF Counted
    <3>4. Counted(g) = IF Countable(Doc[j]) THEN Counted(f) \cup {n + 1} ELSE Counted(f)
      BY <3>3
    <3> QED BY <1>5, <1>6, <2>7, <3>1, <3>2, <3>4
  <2> QED BY <2>6, <2>7
<1> QED BY <1>7, <1>8

-----------------------------------------------------------------------------
(* What the observer holds after the bytes f.                                 *)
Observing == [data : Seq(Byte), line : Seq(Byte), discarding : BOOLEAN, content : BOOLEAN,
              endsCr : BOOLEAN, events : Nat, state : State]
Held(o, f) ==
  /\ o.discarding <=> LongOf(f)
  /\ ~o.discarding => /\ o.line = LineOf(f) /\ o.data = DataOf(f)
                      /\ Len(o.data) < MaxEvent /\ Len(o.data) + Len(o.line) <= MaxEvent
  /\ o.discarding => /\ o.line = <<>> /\ o.data = <<>>
                     /\ o.content <=> Stripped(LineOf(f)) # <<>>
                     /\ ~o.content => (o.endsCr <=> LineOf(f) # <<>>)
Observed(o, f) ==
  IsFiniteSet(Counted(f)) /\ o.events = Cardinality(Counted(f)) /\ Tells(o.state, Docs(f))
Sound(o, f) == o \in Observing /\ Held(o, f) /\ Observed(o, f)

(* A buffer may be empty.                                                     *)
LEMMA NoBytes == <<>> \in Seq(Byte)
OBVIOUS

(* A byte that ends no line is added to the line, skipped, or one too many.    *)
LEMMA PlainHeld ==
  ASSUME NEW f \in Seq(Byte), NEW b \in Byte, b # LF, NEW o \in Observing, Held(o, f)
  PROVE  /\ PushByte(o, b) \in Observing /\ Held(PushByte(o, b), Append(f, b))
         /\ PushByte(o, b).events = o.events /\ PushByte(o, b).state = o.state
<1> DEFINE g == Append(f, b)
           t == PushByte(o, b)
           L == LineOf(f)
           M == LineOf(g)
           d == DataOf(f)
<1>1. /\ o.data \in Seq(Byte) /\ o.line \in Seq(Byte) /\ o.discarding \in BOOLEAN
      /\ o.content \in BOOLEAN /\ o.endsCr \in BOOLEAN /\ o.events \in Nat /\ o.state \in State
  BY DEF Observing
<1>2. /\ M = Append(L, b) /\ DataOf(g) = d
      /\ LongOf(g) <=> LongOf(f) \/ Len(d) + Len(L) >= MaxEvent
  BY PlainByte
<1>3. L \in Seq(Byte) /\ d \in Seq(Byte)
  BY TailIs
<1> HIDE DEF L, M, d
<1>4. M \in Seq(Byte) /\ Len(M) = Len(L) + 1 /\ M # <<>> /\ Len(L) \in Nat /\ Len(d) \in Nat
  <2> HIDE DEF Byte
  <2> QED BY <1>2, <1>3
<1>5. Len(L) >= 1 => Stripped(M) # <<>>
  <2>1. Len(L) >= 1 => Len(M) >= 2
    BY <1>4
  <2> QED BY <1>4, <2>1, StrippedIs
<1>6. CASE o.discarding
  <2>1. t = [o EXCEPT !.content = o.content \/ b # CR \/ o.endsCr, !.endsCr = (b = CR)]
    BY <1>6 DEF PushByte, SkipByte
  <2>2. /\ t.data = o.data /\ t.line = o.line /\ t.discarding = o.discarding
        /\ t.content = (o.content \/ b # CR \/ o.endsCr) /\ t.endsCr = (b = CR)
        /\ t.events = o.events /\ t.state = o.state
    BY <2>1 DEF Observing
  <2>3. t \in Observing
    BY <1>1, <2>1, NoBytes DEF Observing
  <2>4. LongOf(g) /\ LongOf(f) /\ o.line = <<>> /\ o.data = <<>>
    BY <1>2, <1>6 DEF Held
  <2>5. t.content <=> Stripped(M) # <<>>
    <3>1. CASE o.content
      <4>1. Stripped(L) # <<>>
        BY <1>6, <3>1 DEF Held, L
      <4>2. L # <<>>
        BY <1>3, <4>1, StrippedIs
      <4>3. Len(L) >= 1
        BY <1>3, <1>4, <4>2, EmptySeq
      <4> QED BY <1>5, <2>2, <3>1, <4>3
    <3>2. CASE ~o.content /\ o.endsCr
      <4>1. L # <<>>
        BY <1>6, <3>2 DEF Held, L
      <4>2. Len(L) >= 1
        BY <1>3, <1>4, <4>1, EmptySeq
      <4> QED BY <1>5, <2>2, <3>2, <4>2
    <3>3. CASE ~o.content /\ ~o.endsCr
      <4>1. L = <<>>
        BY <1>6, <3>3 DEF Held, L
      <4>2. M = <<b>>
        BY <1>2, <4>1
      <4>3. Stripped(M) = <<>> <=> b = CR
        BY <1>4, <4>2, StrippedIs
      <4> QED BY <2>2, <3>3, <4>3
    <3> QED BY <1>1, <3>1, <3>2, <3>3
  <2>6. ~t.content => t.endsCr
    BY <2>2
  <2>7. Held(t, g)
    BY <1>4, <1>6, <2>2, <2>4, <2>5, <2>6 DEF Held, M
  <2> QED BY <2>2, <2>3, <2>7
<1>7. CASE ~o.discarding
  <2>0. o.line = L /\ o.data = d /\ Len(d) < MaxEvent /\ Len(d) + Len(L) <= MaxEvent /\ ~LongOf(f)
    BY <1>7 DEF Held, L, d
  <2>1. CASE Full(o)
    <3>1. t = [o EXCEPT !.data = <<>>, !.line = <<>>, !.discarding = TRUE,
                        !.content = TRUE, !.endsCr = FALSE]
      BY <1>7, <2>1 DEF PushByte, Discard
    <3>2. /\ t.data = <<>> /\ t.line = <<>> /\ t.discarding = TRUE /\ t.content = TRUE
          /\ t.endsCr = FALSE /\ t.events = o.events /\ t.state = o.state
      BY <3>1 DEF Observing
    <3>3. t \in Observing
      BY <1>1, <3>1, NoBytes DEF Observing
    <3>4. Len(d) + Len(L) = MaxEvent
      BY <2>0, <2>1 DEF Full, Retained
    <3>5. LongOf(g) /\ Len(L) >= 1
      BY <1>2, <1>4, <2>0, <3>4, Consts
    <3>6. Held(t, g)
      BY <1>5, <3>2, <3>5 DEF Held, M
    <3> QED BY <3>2, <3>3, <3>6
  <2>2. CASE ~Full(o)
    <3>1. t = [o EXCEPT !.line = M]
      BY <1>2, <1>7, <2>0, <2>2 DEF PushByte
    <3>2. /\ t.data = d /\ t.line = M /\ t.discarding = o.discarding
          /\ t.events = o.events /\ t.state = o.state
      BY <2>0, <3>1 DEF Observing
    <3>3. t \in Observing
      BY <1>1, <1>4, <3>1, NoBytes DEF Observing
    <3>4. Len(d) + Len(L) # MaxEvent
      BY <2>0, <2>2 DEF Full, Retained
    <3>5. ~LongOf(g) /\ Len(d) + Len(M) <= MaxEvent
      <4>1. MaxEvent \in Nat
        BY Consts
      <4>2. ~(Len(d) + Len(L) >= MaxEvent) /\ Len(d) + Len(M) <= MaxEvent
        BY <1>4, <2>0, <3>4, <4>1
      <4> QED BY <1>2, <2>0, <4>2
    <3>6. Held(t, g)
      BY <1>2, <1>7, <2>0, <3>2, <3>5 DEF Held, M
    <3> QED BY <3>2, <3>3, <3>6
  <2> QED BY <2>1, <2>2
<1> QED BY <1>1, <1>6, <1>7

(* What Parse finds is a document.                                           *)
LEMMA ParseIs ==
  ASSUME NEW d, NEW j, j = Parse(d), j # None
  PROVE  j \in Json /\ Doc[j] \in Document
BY Consts DEF Parse

(* The end of a line, and of an event.                                        *)
LEMMA LineHeld ==
  ASSUME NEW f \in Seq(Byte), NEW o, Sound(o, f)
  PROVE  Sound(PushByte(o, LF), Append(f, LF))
<1> DEFINE g == Append(f, LF)
           t == PushByte(o, LF)
           L == LineOf(f)
           d == DataOf(f)
           l == Stripped(LineOf(f))
           j == IF l # <<>> \/ LongOf(f) THEN None ELSE Parse(d)
           e == IF IsData(l) THEN Joined(d, Payload(l)) ELSE d
<1>0. o \in Observing /\ Held(o, f) /\ Observed(o, f)
  BY DEF Sound
<1>1. /\ o.data \in Seq(Byte) /\ o.line \in Seq(Byte) /\ o.discarding \in BOOLEAN
      /\ o.content \in BOOLEAN /\ o.endsCr \in BOOLEAN /\ o.events \in Nat /\ o.state \in State
  BY <1>0 DEF Observing
<1>2. LineOf(g) = <<>> /\ IF l = <<>> THEN DataOf(g) = <<>> /\ ~LongOf(g)
                          ELSE DataOf(g) = e /\ (LongOf(g) <=> LongOf(f))
  BY LineEnd
<1>3. /\ Docs(g) = IF j = None THEN Docs(f) ELSE Docs(f) \cup {Doc[j]}
      /\ Counted(g) = IF j # None /\ Countable(Doc[j]) THEN Counted(f) \cup {Len(f) + 1}
                      ELSE Counted(f)
      /\ Len(f) + 1 \notin Counted(f)
  BY EventEnd
<1>4. L \in Seq(Byte) /\ d \in Seq(Byte) /\ l \in Seq(Byte) /\ Len(l) <= Len(L)
      /\ Len(l) \in Nat /\ Len(L) \in Nat /\ Len(d) \in Nat
  <2>1. L \in Seq(Byte) /\ d \in Seq(Byte)
    BY TailIs
  <2> HIDE DEF L
  <2>2. l = Stripped(L)
    BY DEF L
  <2>3. l \in Seq(Byte) /\ Len(l) <= Len(L)
    BY <2>1, <2>2, StrippedIs
  <2> HIDE DEF l, d, Byte
  <2> QED BY <2>1, <2>3
<1>5. PushByte(o, LF) = FinishLine(o)
  BY DEF PushByte
<1> HIDE DEF g, L, d, l, j, e, t
<1>6. Stripped(<<>>) = <<>>
  BY DEF Stripped
<1>7. ASSUME j = None, t.events = o.events, t.state = o.state PROVE Observed(t, g)
  <2>1. Docs(g) = Docs(f) /\ Counted(g) = Counted(f)
    BY <1>3, <1>7
  <2> QED BY <1>0, <1>7, <2>1 DEF Observed
<1>8. CASE o.discarding
  <2>1. t = [o EXCEPT !.line = <<>>, !.discarding = o.content, !.content = FALSE, !.endsCr = FALSE]
    BY <1>5, <1>8 DEF FinishLine, t
  <2>2. /\ t.data = o.data /\ t.line = <<>> /\ t.discarding = o.content /\ t.content = FALSE
        /\ t.endsCr = FALSE /\ t.events = o.events /\ t.state = o.state
    BY <1>0, <2>1 DEF Observing
  <2>3. t \in Observing
    BY <1>0, <1>1, <2>1, NoBytes DEF Observing
  <2>4. LongOf(f) /\ o.data = <<>> /\ (o.content <=> l # <<>>)
    BY <1>0, <1>8 DEF Held, l
  <2>5. Held(t, g)
    <3>1. CASE o.content
      BY <1>2, <1>6, <2>2, <2>4, <3>1 DEF Held
    <3>2. CASE ~o.content
      <4>1. Len(<<>>) = 0 /\ 0 < MaxEvent /\ 0 + 0 <= MaxEvent
        BY Consts
      <4> QED BY <1>2, <2>2, <2>4, <3>2, <4>1 DEF Held
    <3> QED BY <1>1, <3>1, <3>2
  <2>6. Observed(t, g)
    BY <1>7, <2>2, <2>4 DEF j
  <2> QED BY <2>3, <2>5, <2>6 DEF Sound, t, g
<1>9. CASE ~o.discarding
  <2>0. o.line = L /\ o.data = d /\ Len(d) < MaxEvent /\ Len(d) + Len(L) <= MaxEvent /\ ~LongOf(f)
        /\ Stripped(o.line) = l
    BY <1>0, <1>9 DEF Held, L, d, l
  <2>1. CASE l = <<>>
    <3>0. t = Classify(o) /\ j = Parse(d)
      BY <1>5, <1>9, <2>0, <2>1 DEF FinishLine, t, j
    <3>1. CASE j = None
      <4>1. t = [o EXCEPT !.data = <<>>, !.line = <<>>]
        BY <2>0, <3>0, <3>1 DEF Classify
      <4>2. /\ t.data = <<>> /\ t.line = <<>> /\ t.discarding = o.discarding
            /\ t.events = o.events /\ t.state = o.state
        BY <1>0, <4>1 DEF Observing
      <4>3. t \in Observing
        BY <1>0, <1>1, <4>1, NoBytes DEF Observing
      <4>4. Held(t, g)
        <5>1. Len(<<>>) = 0 /\ 0 < MaxEvent /\ 0 + 0 <= MaxEvent
          BY Consts
        <5> QED BY <1>2, <1>9, <2>1, <4>2, <5>1 DEF Held
      <4>5. Observed(t, g)
        BY <1>7, <3>1, <4>2
      <4> QED BY <4>3, <4>4, <4>5 DEF Sound, t, g
    <3>2. CASE j # None
      <4> DEFINE s == SeeEvent(o.state, Doc[j])
                 n == IF Countable(Doc[j]) THEN o.events + 1 ELSE o.events
      <4>1. t = [o EXCEPT !.data = <<>>, !.line = <<>>, !.state = s, !.events = n]
        BY <1>0, <2>0, <3>0, <3>2 DEF Classify, Observing
      <4>2. /\ t.data = <<>> /\ t.line = <<>> /\ t.discarding = o.discarding
            /\ t.events = n /\ t.state = s
        BY <1>0, <4>1 DEF Observing
      <4>3. Doc[j] \in Document
        BY <3>0, <3>2, ParseIs
      <4>4. Tells(s, Docs(g))
        <5>1. Tells(s, Docs(f) \cup {Doc[j]})
          BY <1>0, <4>3, EventSeen DEF Observed
        <5> QED BY <1>3, <3>2, <5>1
      <4>5. s \in State /\ n \in Nat
        BY <1>1, <4>4 DEF Tells, Says
      <4>6. IsFiniteSet(Counted(g)) /\ n = Cardinality(Counted(g))
        <5>1. IsFiniteSet(Counted(f)) /\ o.events = Cardinality(Counted(f))
          BY <1>0 DEF Observed
        <5>2. CASE Countable(Doc[j])
          <6>1. Counted(g) = Counted(f) \cup {Len(f) + 1}
            BY <1>3, <3>2, <5>2
          <6>2. /\ IsFiniteSet(Counted(f) \cup {Len(f) + 1})
                /\ Cardinality(Counted(f) \cup {Len(f) + 1}) =
                     IF Len(f) + 1 \in Counted(f) THEN Cardinality(Counted(f))
                     ELSE Cardinality(Counted(f)) + 1
            BY <5>1, FS_AddElement
          <6> QED BY <1>3, <5>1, <5>2, <6>1, <6>2
        <5>3. CASE ~Countable(Doc[j])
          BY <1>3, <5>1, <5>3
        <5> QED BY <5>2, <5>3
      <4> HIDE DEF s, n
      <4>7. t \in Observing
        BY <1>0, <1>1, <4>1, <4>5, NoBytes DEF Observing
      <4>8. Held(t, g)
        <5>1. Len(<<>>) = 0 /\ 0 < MaxEvent /\ 0 + 0 <= MaxEvent
          BY Consts
        <5> QED BY <1>2, <1>9, <2>1, <4>2, <5>1 DEF Held
      <4>9. Observed(t, g)
        BY <4>2, <4>4, <4>6 DEF Observed
      <4> QED BY <4>7, <4>8, <4>9 DEF Sound, t, g
    <3> QED BY <3>1, <3>2
  <2>2. CASE l # <<>>
    <3>1. e \in Seq(Byte) /\ Len(e) \in Nat /\ Len(e) < MaxEvent
      <4>1. CASE IsData(l)
        <5>1. Payload(l) \in Seq(Byte) /\ Len(Payload(l)) = Len(l) - 2 /\ Len(l) >= 2
          BY <1>4, <4>1, PayloadIs DEF IsData
        <5>2. /\ Joined(d, Payload(l)) \in Seq(Byte)
              /\ \/ Len(Joined(d, Payload(l))) = Len(Payload(l))
                 \/ Len(Joined(d, Payload(l))) = Len(d) + 1 + Len(Payload(l))
          BY <1>4, <5>1, JoinedIs
        <5>3. e = Joined(d, Payload(l))
          BY <4>1 DEF e
        <5> QED BY <1>4, <2>0, <5>1, <5>2, <5>3, Consts
      <4>2. CASE ~IsData(l)
        BY <1>4, <2>0, <4>2 DEF e
      <4> QED BY <4>1, <4>2
    <3>2. ~(Len(e) > MaxEvent)
      BY <3>1, Consts
    <3>3. t = [o EXCEPT !.data = e, !.line = <<>>]
      BY <1>5, <1>9, <2>0, <2>2, <3>2 DEF FinishLine, t, e
    <3>4. /\ t.data = e /\ t.line = <<>> /\ t.discarding = o.discarding
          /\ t.events = o.events /\ t.state = o.state
      BY <1>0, <3>3 DEF Observing
    <3>5. t \in Observing
      BY <1>0, <1>1, <3>1, <3>3, NoBytes DEF Observing
    <3>6. Held(t, g)
      <4>1. Len(<<>>) = 0 /\ Len(e) + 0 <= MaxEvent
        BY <3>1, Consts
      <4> QED BY <1>2, <1>9, <2>0, <2>2, <3>1, <3>4, <4>1 DEF Held
    <3>7. Observed(t, g)
      BY <1>7, <2>2, <3>4 DEF j
    <3> QED BY <3>5, <3>6, <3>7 DEF Sound, t, g
  <2> QED BY <2>1, <2>2
<1> QED BY <1>1, <1>8, <1>9

(* Whatever the byte.                                                         *)
LEMMA ByteHeld ==
  ASSUME NEW f \in Seq(Byte), NEW o, Sound(o, f), NEW b \in Byte
  PROVE  Sound(PushByte(o, b), Append(f, b))
<1>1. CASE b = LF
  BY <1>1, LineHeld
<1>2. CASE b # LF
  <2> DEFINE g == Append(f, b)
  <2>1. o \in Observing /\ Held(o, f) /\ Observed(o, f)
    BY DEF Sound
  <2>2. /\ PushByte(o, b) \in Observing /\ Held(PushByte(o, b), g)
        /\ PushByte(o, b).events = o.events /\ PushByte(o, b).state = o.state
    BY <1>2, <2>1, PlainHeld
  <2>3. Docs(g) = Docs(f) /\ Counted(g) = Counted(f)
    BY <1>2, PlainByte
  <2>4. Observed(PushByte(o, b), g)
    BY <2>1, <2>2, <2>3 DEF Observed
  <2> QED BY <2>2, <2>4 DEF Sound
<1> QED BY <1>1, <1>2

(* A new observer has seen the empty stream.                                  *)
LEMMA NewSound == Sound(NewObserver, <<>>)
<1> DEFINE f == <<>>
<1>1. f \in Seq(Byte) /\ Len(f) = 0 /\ DOMAIN f = {}
  OBVIOUS
<1>2. Ends(f) = {} /\ Blanks(f) = {} /\ Parsed(f) = {} /\ Docs(f) = {} /\ Counted(f) = {}
  BY <1>1 DEF Ends, Blanks, Parsed, Docs, Counted
<1> HIDE DEF f
<1>3. StartOf(f) = 0 /\ OpenOf(f) = 0
  BY <1>1, <1>2 DEF StartOf, OpenOf, LastBefore
<1>4. LineOf(f) = <<>> /\ DataOf(f) = <<>>
  <2>1. /\ LineOf(f) \in Seq(Byte) /\ Len(LineOf(f)) = Len(f) - StartOf(f)
    BY <1>1, TailIs
  <2>2. 0 \in 0..Len(f) /\ 0 \in Nat /\ 0 <= 0
    BY <1>1
  <2>3. DataBetween(f, 0, 0) = <<>>
    BY <1>1, <2>2, DataIs
  <2>4. DataOf(f) = <<>>
    BY <1>1, <1>3, <2>3 DEF DataOf
  <2>5. Len(LineOf(f)) = 0
    BY <1>1, <1>3, <2>1
  <2> HIDE DEF Byte
  <2>6. LineOf(f) = <<>>
    BY <2>1, <2>5, EmptySeq
  <2> QED BY <2>4, <2>6
<1>5. ~LongOf(f)
  <2>1. LongOf(f) <=> TooLong(f, 0, 0)
    BY <1>1, <1>3 DEF LongOf
  <2>2. (0 + 1)..0 = {}
    OBVIOUS
  <2> QED BY <2>1, <2>2 DEF TooLong
<1>6. /\ NewObserver.data = <<>> /\ NewObserver.line = <<>> /\ NewObserver.discarding = FALSE
      /\ NewObserver.events = 0 /\ NewObserver.state = Nothing
  BY DEF NewObserver
<1>7. Nothing \in State
  BY NothingTells DEF Tells, Says
<1>8. NewObserver \in Observing
  BY <1>7 DEF NewObserver, Observing
<1>9. Held(NewObserver, f)
  <2>1. Len(<<>>) = 0 /\ 0 < MaxEvent /\ 0 + 0 <= MaxEvent
    BY Consts
  <2> QED BY <1>4, <1>5, <1>6, <2>1 DEF Held
<1>10. Observed(NewObserver, f)
  BY <1>2, <1>6, NothingTells, FS_EmptySet DEF Observed
<1> QED BY <1>8, <1>9, <1>10 DEF Sound, f

(* What an observer may hold.                                                 *)
Sounds == {o \in Observing : \E f \in Seq(Byte) : Sound(o, f)}

(* SseObserver::push: the bytes of a chunk.                                   *)
LEMMA BytesHeld ==
  ASSUME NEW f \in Seq(Byte), NEW o, Sound(o, f), NEW c \in Seq(Byte)
  PROVE  Sound(PushBytes(o, c), f \o c)
<1> DEFINE m == Len(c)
           D(F) == F = [n \in 0..m |-> IF n = 0 THEN o ELSE PushByte(F[n - 1], c[n])]
           A == CHOOSE F : D(F)
           J == [n \in 1..m |-> [y \in Sounds |-> PushByte(y, c[n])]]
<1>1. m \in Nat /\ \A n \in 1..m : c[n] \in Byte
  <2> HIDE DEF Byte
  <2> QED OBVIOUS
<1>2. PushBytes(o, c) = A[m]
  BY Zenon DEF PushBytes
<1>3. D(A)
  <2>1. o \in Sounds
    BY DEF Sounds, Sound
  <2>2. ASSUME NEW b \in Byte, NEW y \in Sounds PROVE PushByte(y, b) \in Sounds
    <3>1. PICK h \in Seq(Byte) : Sound(y, h)
      BY DEF Sounds
    <3>2. Append(h, b) \in Seq(Byte)
      <4> HIDE DEF Byte
      <4> QED OBVIOUS
    <3>3. Sound(PushByte(y, b), Append(h, b))
      BY <3>1, ByteHeld
    <3> QED BY <3>2, <3>3 DEF Sounds, Sound
  <2>3. J \in [1..m -> [Sounds -> Sounds]]
    BY <1>1, <2>2
  <2>4. PICK F : Follows(F, Sounds, m, o, J)
    <3> HIDE DEF J, m
    <3> QED BY <1>1, <2>1, <2>3, Recursion
  <2>5. F \in [0..m -> Sounds] /\ F[0] = o /\ \A n \in 1..m : F[n] = J[n][F[n - 1]]
    BY <2>4 DEF Follows
  <2>6. ASSUME NEW n \in 0..m
        PROVE  F[n] = IF n = 0 THEN o ELSE PushByte(F[n - 1], c[n])
    <3>1. CASE n = 0
      BY <2>5, <3>1
    <3>2. CASE n # 0
      <4>1. n \in 1..m /\ n - 1 \in 0..m
        BY <1>1, <3>2
      <4>2. F[n - 1] \in Sounds
        BY <2>5, <4>1
      <4>3. J[n][F[n - 1]] = PushByte(F[n - 1], c[n])
        BY <4>1, <4>2
      <4> QED BY <2>5, <3>2, <4>1, <4>3
    <3> QED BY <3>1, <3>2
  <2>7. D(F)
    BY <2>5, <2>6
  <2> HIDE DEF D
  <2> QED BY <2>7
<1> HIDE DEF A, J, m
<1>4. A[0] = o /\ \A n \in 1..m : A[n] = PushByte(A[n - 1], c[n])
  <2>1. \A n \in 0..m : A[n] = IF n = 0 THEN o ELSE PushByte(A[n - 1], c[n])
    BY <1>3
  <2> QED BY <1>1, <2>1
<1> DEFINE P(n) == SubSeq(c, 1, n)
           H(n) == f \o P(n)
           Q == {n \in 0..m : Sound(A[n], H(n))}
<1>5. ASSUME NEW n \in 0..m PROVE P(n) \in Seq(Byte) /\ H(n) \in Seq(Byte)
  <2>1. n \in Nat /\ n <= Len(c) /\ 1 \in Nat \ {0}
    BY <1>1 DEF m
  <2> HIDE DEF Byte
  <2>2. P(n) \in Seq(Byte)
    BY <2>1, SliceIs
  <2> QED BY <2>2, ConcatProperties
<1>6. 0 \in Q
  <2>1. P(0) = <<>>
    BY SubSeqEmpty
  <2>2. H(0) = f
    <3> HIDE DEF Byte
    <3> QED BY <2>1, ConcatEmptySeq
  <2> HIDE DEF H
  <2> QED BY <1>1, <1>4, <2>2
<1>7. ASSUME NEW n \in 1..m, n - 1 \in Q PROVE n \in Q
  <2> DEFINE k == n - 1
             b == c[n]
  <2>1. n \in 0..m /\ k \in 0..m /\ b \in Byte /\ n \in 1..Len(c) /\ 1 \in 1..Len(c) /\ n \in 1..Len(c)
    BY <1>1 DEF m
  <2>2. P(n) = P(k) \o <<b>>
    <3> HIDE DEF Byte
    <3> QED BY <2>1, SubSeqRecursiveSecond
  <2>3. P(k) \in Seq(Byte) /\ H(k) \in Seq(Byte)
    BY <1>5, <2>1
  <2> HIDE DEF P, k, b
  <2>4. H(n) = Append(H(k), b)
    <3> DEFINE p == P(k)
               q == P(n)
    <3>1. p \in Seq(Byte) /\ q = p \o <<b>> /\ <<b>> \in Seq(Byte) /\ f \o p \in Seq(Byte)
      <4>1. <<b>> \in Seq(Byte)
        <5>1. b \in Byte
          BY <2>1
        <5> HIDE DEF Byte
        <5> QED BY <5>1
      <4> QED BY <2>2, <2>3, <4>1
    <3> HIDE DEF p, q
    <3>2. f \o q = (f \o p) \o <<b>>
      BY <3>1, ConcatAssociative
    <3>3. Append(f \o p, b) = (f \o p) \o <<b>>
      BY <2>1, <3>1, AppendIsConcat
    <3> QED BY <3>2, <3>3 DEF p, q
  <2> HIDE DEF H
  <2>5. Sound(A[k], H(k)) /\ A[n] = PushByte(A[k], b)
    BY <1>4, <1>7 DEF k, b
  <2>6. Sound(PushByte(A[k], b), Append(H(k), b))
    BY <2>1, <2>3, <2>5, ByteHeld
  <2> QED BY <2>1, <2>4, <2>5, <2>6
<1>8. m \in Q
  <2> HIDE DEF Q
  <2>1. \A n \in 0..m : n \in Q
    BY <1>1, <1>6, <1>7, Induct
  <2> QED BY <1>1, <2>1
<1>9. P(m) = c
  <2> HIDE DEF Byte
  <2> QED BY SubSeqFull DEF m
<1> QED BY <1>2, <1>8, <1>9

-----------------------------------------------------------------------------
(* Reports.                                                                  *)

(* A field is reported as measured only if it was seen, as it was seen.        *)
LEMMA ReportIs ==
  /\ \A v : Report(v).kind \in {"unavailable", "invalid", "measured"}
  /\ \A v \in Number : Measured(Report(v)) => v \in Nat /\ Report(v).value = v
BY DEF Report, Measured, Number

(* Published usage adds up.                                                   *)
Consistent(u) ==
  /\ Measured(u.cached) => Measured(u.prompt) /\ u.cached.value <= u.prompt.value
  /\ Measured(u.reasoning) => Measured(u.completion) /\ u.reasoning.value <= u.completion.value
  /\ Measured(u.total) /\ Measured(u.prompt) /\ Measured(u.completion) =>
       u.prompt.value + u.completion.value <= u.total.value
Kinds == {"measured", "estimated", "unavailable", "invalid"}

(* UsageState::finish.                                                        *)
LEMMA UsageAdds ==
  ASSUME NEW usage \in [Field -> Number], NEW estimate \in Nat, NEW u,
         u = FinishUsage(usage, estimate)
  PROVE  /\ Consistent(u) /\ \A f \in Field : u[f].kind \in Kinds
         /\ estimate = 0 => u.completion.kind # "estimated"
<1> DEFINE r == [f \in Field |-> Report(usage[f])]
           last == IF r.completion.kind = "unavailable" /\ estimate > 0
                   THEN [kind |-> "estimated", value |-> estimate] ELSE r.completion
<1>1. /\ "prompt" \in Field /\ "completion" \in Field /\ "total" \in Field
      /\ "cached" \in Field /\ "reasoning" \in Field
  BY DEF Field
<1>2. \A f \in Field : /\ r[f].kind \in {"unavailable", "invalid", "measured"}
                       /\ Measured(r[f]) => r[f].value \in Nat
  BY ReportIs
<1>3. u = [r EXCEPT !.total = Total(r), !.cached = Part(r.cached, r.prompt),
                    !.reasoning = Part(r.reasoning, r.completion), !.completion = last]
  BY DEF FinishUsage
<1>4. DOMAIN r = Field
  OBVIOUS
<1> HIDE DEF r, last
<1>5. /\ u.prompt = r.prompt /\ u.total = Total(r) /\ u.completion = last
      /\ u.cached = Part(r.cached, r.prompt) /\ u.reasoning = Part(r.reasoning, r.completion)
  BY <1>1, <1>3, <1>4
<1>6. \A f \in Field : f \in {"prompt", "completion", "total", "cached", "reasoning"}
  BY DEF Field
<1>7. Total(r) = r.total \/ Total(r) = [kind |-> "invalid"]
  BY DEF Total
<1>8. \A x, y : Part(x, y) = x \/ Part(x, y) = [kind |-> "invalid"]
  BY DEF Part
<1>9. ~Measured([kind |-> "invalid"]) /\ [kind |-> "invalid"].kind \in Kinds
  BY DEF Measured, Kinds
<1>10. last = r.completion \/ last.kind = "estimated"
  BY DEF last
<1>11. Measured(r.completion) => last = r.completion
  BY DEF last, Measured
<1>12. Measured(u.cached) => Measured(u.prompt) /\ u.cached.value <= u.prompt.value
  <2> SUFFICES ASSUME Measured(u.cached)
               PROVE  Measured(u.prompt) /\ u.cached.value <= u.prompt.value
    OBVIOUS
  <2>1. u.cached = r.cached
    BY <1>5, <1>8, <1>9
  <2>2. Within(r.cached, r.prompt)
    BY <1>5, <1>9, <2>1 DEF Part
  <2> QED BY <1>5, <2>1, <2>2 DEF Within
<1>13. Measured(u.reasoning) => Measured(u.completion) /\ u.reasoning.value <= u.completion.value
  <2> SUFFICES ASSUME Measured(u.reasoning)
               PROVE  Measured(u.completion) /\ u.reasoning.value <= u.completion.value
    OBVIOUS
  <2>1. u.reasoning = r.reasoning
    BY <1>5, <1>8, <1>9
  <2>2. Within(r.reasoning, r.completion)
    BY <1>5, <1>9, <2>1 DEF Part
  <2> QED BY <1>5, <1>11, <2>1, <2>2 DEF Within
<1>14. Measured(u.total) /\ Measured(u.prompt) /\ Measured(u.completion) =>
         u.prompt.value + u.completion.value <= u.total.value
  <2> SUFFICES ASSUME Measured(u.total), Measured(u.prompt), Measured(u.completion)
               PROVE  u.prompt.value + u.completion.value <= u.total.value
    OBVIOUS
  <2>1. u.total = r.total /\ Measured(r.total) /\ Measured(r.prompt)
    BY <1>5, <1>7, <1>9
  <2>2. u.completion = r.completion /\ Measured(r.completion)
    BY <1>5, <1>10 DEF Measured
  <2>3. r.total.value \in Nat /\ r.prompt.value \in Nat /\ r.completion.value \in Nat
    BY <1>1, <1>2, <2>1, <2>2
  <2>4. ~(r.total.value < r.prompt.value + r.completion.value)
    BY <1>5, <1>9, <2>1, <2>2 DEF Total
  <2> QED BY <1>5, <2>1, <2>2, <2>3, <2>4
<1>15. \A f \in Field : u[f].kind \in Kinds
  <2>1. \A f \in Field : r[f].kind \in Kinds
    BY <1>2 DEF Kinds
  <2>2. u.prompt.kind \in Kinds /\ u.total.kind \in Kinds
    BY <1>1, <1>5, <1>7, <1>9, <2>1
  <2>3. u.cached.kind \in Kinds /\ u.reasoning.kind \in Kinds
    BY <1>1, <1>5, <1>8, <1>9, <2>1
  <2>4. u.completion.kind \in Kinds
    BY <1>1, <1>5, <1>10, <2>1 DEF Kinds
  <2> QED BY <1>6, <2>2, <2>3, <2>4
<1>16. estimate = 0 => u.completion.kind # "estimated"
  BY <1>1, <1>2, <1>5 DEF last
<1> QED BY <1>12, <1>13, <1>14, <1>15, <1>16 DEF Consistent

(* So does usage of which nothing is known.                                   *)
LEMMA NoUsage ==
  /\ Consistent(UnavailableUsage) /\ \A f \in Field : UnavailableUsage[f].kind \in Kinds
  /\ UnavailableUsage.completion.kind # "estimated"
BY DEF Consistent, UnavailableUsage, Measured, Field, Kinds

(* States with the usage of s, the sights of choices in order.                *)
Kept(s) == {y \in State : y.usage = s.usage /\ \E G : FinishSays(y, G)}

(* A choice leaves usage alone.                                               *)
LEMMA ChoiceKept ==
  ASSUME NEW s, NEW y \in Kept(s), NEW c \in Choice \cup {Invalid}
  PROVE  SeeIndex(y, c) \in Kept(s) /\ BodyChoice(y, c) \in Kept(s)
<1>1. PICK G : FinishSays(y, G)
  BY DEF Kept
<1>2. y \in State /\ y.usage = s.usage
  BY DEF Kept
<1>3. ASSUME NEW z \in Kept(s) PROVE BadTools(z) \in Kept(s)
  <2>1. z \in State /\ z.usage = s.usage /\ \E H : FinishSays(z, H)
    BY DEF Kept
  <2> DEFINE t == BadTools(z)
  <2>2. t \in State /\ t.usage = z.usage /\ t.order = z.order /\ t.finish = z.finish
        /\ t.overflowed = z.overflowed
    BY <2>1 DEF BadTools, State
  <2> HIDE DEF t
  <2>3. \E H : FinishSays(t, H)
    BY <2>1, <2>2 DEF FinishSays
  <2>4. t \in Kept(s)
    BY <2>1, <2>2, <2>3 DEF Kept
  <2> QED BY <2>4 DEF t
<1>4. ASSUME NEW x \in Nat, NEW v \in Reason PROVE SeeFinish(y, x, v) \in Kept(s)
  <2> DEFINE t == SeeFinish(y, x, v)
  <2>1. t \in State /\ FinishSays(t, G \cup {<<x, v>>}) /\ t.usage = y.usage
    BY <1>1, <1>2, FinishSeen
  <2> HIDE DEF t
  <2>2. t \in Kept(s)
    BY <1>2, <2>1 DEF Kept
  <2> QED BY <2>2 DEF t
<1>5. CASE ~Read(c)
  BY <1>3, <1>5 DEF SeeIndex, BodyChoice, Read
<1>6. CASE Read(c)
  <2>1. c.index \in Nat /\ c.finish \in Reason /\ Absent \in Reason
    BY <1>6, ChoiceIs DEF Reason
  <2>2. SeeFinish(y, c.index, c.finish) \in Kept(s) /\ SeeFinish(y, c.index, Absent) \in Kept(s)
    BY <1>4, <2>1
  <2> QED BY <1>3, <1>6, <2>2 DEF SeeIndex, BodyChoice, Read
<1> QED BY <1>5, <1>6

(* remember_choice_indexes leaves usage alone.                                *)
LEMMA IndexesKept ==
  ASSUME NEW s, NEW y \in Kept(s), NEW j \in Json \cup {None}
  PROVE  SeeIndexes(y, j) \in Kept(s)
<1>1. CASE j = None \/ Doc[j].choices \in {Absent, Invalid}
  <2>1. SeeIndexes(y, j) = y
    BY <1>1 DEF SeeIndexes
  <2> QED BY <2>1
<1>2. CASE ~(j = None \/ Doc[j].choices \in {Absent, Invalid})
  <2> DEFINE cs == Doc[j].choices
             m == Len(cs)
             D(F) == F = [n \in 0..m |-> IF n = 0 THEN y ELSE SeeIndex(F[n - 1], cs[n])]
             A == CHOOSE F : D(F)
             J == [n \in 1..m |-> [z \in Kept(s) |-> SeeIndex(z, cs[n])]]
  <2>1. SeeIndexes(y, j) = A[m]
    BY <1>2, Zenon DEF SeeIndexes
  <2>2. cs \in Seq(Choice \cup {Invalid})
    BY <1>2, Consts DEF Document
  <2> HIDE DEF cs
  <2>3. m \in Nat /\ \A n \in 1..m : cs[n] \in Choice \cup {Invalid}
    <3> HIDE DEF Choice
    <3> QED BY <2>2
  <2>4. J \in [1..m -> [Kept(s) -> Kept(s)]]
    BY <2>3, ChoiceKept
  <2>5. PICK F : Follows(F, Kept(s), m, y, J)
    <3> HIDE DEF J, m
    <3> QED BY <2>3, <2>4, Recursion
  <2>6. F \in [0..m -> Kept(s)] /\ F[0] = y /\ \A n \in 1..m : F[n] = J[n][F[n - 1]]
    BY <2>5 DEF Follows
  <2>7. ASSUME NEW n \in 0..m
        PROVE  F[n] = IF n = 0 THEN y ELSE SeeIndex(F[n - 1], cs[n])
    <3>1. CASE n = 0
      BY <2>6, <3>1
    <3>2. CASE n # 0
      <4>1. n \in 1..m /\ n - 1 \in 0..m
        BY <2>3, <3>2
      <4>2. F[n - 1] \in Kept(s)
        BY <2>6, <4>1
      <4>3. J[n][F[n - 1]] = SeeIndex(F[n - 1], cs[n])
        BY <4>1, <4>2
      <4> QED BY <2>6, <3>2, <4>1, <4>3
    <3> QED BY <3>1, <3>2
  <2>8. D(F)
    BY <2>6, <2>7
  <2>9. D(A)
    <3> HIDE DEF D
    <3> QED BY <2>8
  <2> HIDE DEF A, J, m
  <2>10. A[0] = y /\ \A n \in 1..m : A[n] = SeeIndex(A[n - 1], cs[n])
    <3>1. \A n \in 0..m : A[n] = IF n = 0 THEN y ELSE SeeIndex(A[n - 1], cs[n])
      BY <2>9
    <3> QED BY <2>3, <3>1
  <2> DEFINE Q == {n \in 0..m : A[n] \in Kept(s)}
  <2>11. 0 \in Q
    BY <2>3, <2>10
  <2>12. ASSUME NEW n \in 1..m, n - 1 \in Q PROVE n \in Q
    <3>1. n \in 0..m /\ A[n - 1] \in Kept(s)
      BY <2>3, <2>12
    <3>2. SeeIndex(A[n - 1], cs[n]) \in Kept(s)
      BY <2>3, <3>1, ChoiceKept
    <3> QED BY <2>10, <3>1, <3>2
  <2>13. m \in Q
    <3> HIDE DEF Q
    <3>1. \A n \in 0..m : n \in Q
      BY <2>3, <2>11, <2>12, Induct
    <3> QED BY <2>3, <3>1
  <2> QED BY <2>1, <2>13
<1> QED BY <1>1, <1>2

(* So do the choices of a body.                                               *)
LEMMA BodyKept ==
  ASSUME NEW s, NEW y \in Kept(s), NEW cs \in Seq(Choice \cup {Invalid})
  PROVE  BodyChoices(y, cs) \in Kept(s)
<1> DEFINE m == Len(cs)
           D(F) == F = [n \in 0..m |-> IF n = 0 THEN y ELSE BodyChoice(F[n - 1], cs[n])]
           A == CHOOSE F : D(F)
           J == [n \in 1..m |-> [z \in Kept(s) |-> BodyChoice(z, cs[n])]]
<1>1. BodyChoices(y, cs) = A[m]
  BY Zenon DEF BodyChoices
<1>2. m \in Nat /\ \A n \in 1..m : cs[n] \in Choice \cup {Invalid}
  <2> HIDE DEF Choice
  <2> QED OBVIOUS
<1>3. J \in [1..m -> [Kept(s) -> Kept(s)]]
  BY <1>2, ChoiceKept
<1>4. PICK F : Follows(F, Kept(s), m, y, J)
  <2> HIDE DEF J, m
  <2> QED BY <1>2, <1>3, Recursion
<1>5. F \in [0..m -> Kept(s)] /\ F[0] = y /\ \A n \in 1..m : F[n] = J[n][F[n - 1]]
  BY <1>4 DEF Follows
<1>6. ASSUME NEW n \in 0..m
      PROVE  F[n] = IF n = 0 THEN y ELSE BodyChoice(F[n - 1], cs[n])
  <2>1. CASE n = 0
    BY <1>5, <2>1
  <2>2. CASE n # 0
    <3>1. n \in 1..m /\ n - 1 \in 0..m
      BY <1>2, <2>2
    <3>2. F[n - 1] \in Kept(s)
      BY <1>5, <3>1
    <3>3. J[n][F[n - 1]] = BodyChoice(F[n - 1], cs[n])
      BY <3>1, <3>2
    <3> QED BY <1>5, <2>2, <3>1, <3>3
  <2> QED BY <2>1, <2>2
<1>7. D(F)
  BY <1>5, <1>6
<1>8. D(A)
  <2> HIDE DEF D
  <2> QED BY <1>7
<1> HIDE DEF A, J, m
<1>9. A[0] = y /\ \A n \in 1..m : A[n] = BodyChoice(A[n - 1], cs[n])
  <2>1. \A n \in 0..m : A[n] = IF n = 0 THEN y ELSE BodyChoice(A[n - 1], cs[n])
    BY <1>8
  <2> QED BY <1>2, <2>1
<1> DEFINE Q == {n \in 0..m : A[n] \in Kept(s)}
<1>10. 0 \in Q
  BY <1>2, <1>9
<1>11. ASSUME NEW n \in 1..m, n - 1 \in Q PROVE n \in Q
  <2>1. n \in 0..m /\ A[n - 1] \in Kept(s)
    BY <1>2, <1>11
  <2>2. BodyChoice(A[n - 1], cs[n]) \in Kept(s)
    BY <1>2, <2>1, ChoiceKept
  <2> QED BY <1>9, <2>1, <2>2
<1>12. m \in Q
  <2> HIDE DEF Q
  <2>1. \A n \in 0..m : n \in Q
    BY <1>2, <1>10, <1>11, Induct
  <2> QED BY <1>2, <2>1
<1> QED BY <1>1, <1>12

(* Calls are only counted if some choice lists one.                           *)
LEMMA CallsCounted ==
  ASSUME NEW cs \in Seq(Choice \cup {Invalid}), \A i \in 1..Len(cs) : CallsIn(cs[i]) = 0
  PROVE  BodyCalls(cs) = 0
<1> DEFINE m == Len(cs)
           D(F) == F = [n \in 0..m |-> IF n = 0 THEN 0 ELSE F[n - 1] + CallsIn(cs[n])]
           A == CHOOSE F : D(F)
           F == [n \in 0..m |-> 0]
<1>1. BodyCalls(cs) = A[m]
  BY Zenon DEF BodyCalls
<1>2. m \in Nat
  <2> HIDE DEF Choice
  <2> QED OBVIOUS
<1>3. ASSUME NEW n \in 0..m PROVE F[n] = IF n = 0 THEN 0 ELSE F[n - 1] + CallsIn(cs[n])
  <2>1. CASE n = 0
    BY <2>1
  <2>2. CASE n # 0
    <3>1. n \in 1..m /\ n - 1 \in 0..m
      BY <1>2, <2>2
    <3> QED BY <2>2, <3>1
  <2> QED BY <2>1, <2>2
<1>4. D(F)
  BY <1>3
<1>5. D(A)
  <2> HIDE DEF D, F
  <2> QED BY <1>4
<1> HIDE DEF A, m
<1>6. A[0] = 0 /\ \A n \in 1..m : A[n] = A[n - 1] + CallsIn(cs[n])
  <2>1. \A n \in 0..m : A[n] = IF n = 0 THEN 0 ELSE A[n - 1] + CallsIn(cs[n])
    BY <1>5
  <2> QED BY <1>2, <2>1
<1> DEFINE Q == {n \in 0..m : A[n] = 0}
<1>7. 0 \in Q
  BY <1>2, <1>6
<1>8. ASSUME NEW n \in 1..m, n - 1 \in Q PROVE n \in Q
  <2>1. n \in 0..m /\ A[n - 1] = 0 /\ CallsIn(cs[n]) = 0
    BY <1>2, <1>8 DEF m
  <2> QED BY <1>6, <2>1
<1>9. m \in Q
  <2> HIDE DEF Q
  <2>1. \A n \in 0..m : n \in Q
    BY <1>2, <1>7, <1>8, Induct
  <2> QED BY <1>2, <2>1
<1> QED BY <1>1, <1>9

(* Calls are counted by a number.                                             *)
LEMMA BodyCallsNat ==
  ASSUME NEW cs \in Seq(Choice \cup {Invalid})
  PROVE  BodyCalls(cs) \in Nat
<1> DEFINE m == Len(cs)
           D(F) == F = [n \in 0..m |-> IF n = 0 THEN 0 ELSE F[n - 1] + CallsIn(cs[n])]
           A == CHOOSE F : D(F)
           J == [n \in 1..m |-> [k \in Nat |-> k + CallsIn(cs[n])]]
<1>1. BodyCalls(cs) = A[m]
  BY Zenon DEF BodyCalls
<1>2. m \in Nat /\ \A n \in 1..m : cs[n] \in Choice \cup {Invalid}
  <2> HIDE DEF Choice
  <2> QED OBVIOUS
<1>3. \A n \in 1..m : CallsIn(cs[n]) \in Nat
  <2> SUFFICES ASSUME NEW n \in 1..m PROVE CallsIn(cs[n]) \in Nat
    OBVIOUS
  <2> DEFINE c == cs[n]
  <2>1. c \in Choice \cup {Invalid}
    BY <1>2
  <2> HIDE DEF c
  <2>2. CASE c = Invalid \/ c.index = Invalid \/ c.tools \in {Absent, Invalid}
    BY <2>2 DEF CallsIn, c
  <2>3. CASE ~(c = Invalid \/ c.index = Invalid \/ c.tools \in {Absent, Invalid})
    <3>1. c.tools \in Seq(Nat \cup {Invalid})
      BY <2>1, <2>3 DEF Choice
    <3>2. Len(c.tools) \in Nat
      BY <3>1
    <3>3. CallsIn(c) = Len(c.tools)
      BY <2>3 DEF CallsIn
    <3> QED BY <3>2, <3>3 DEF c
  <2> QED BY <2>2, <2>3
<1>4. J \in [1..m -> [Nat -> Nat]]
  BY <1>3
<1>5. PICK F : Follows(F, Nat, m, 0, J)
  <2> HIDE DEF J, m
  <2> QED BY <1>2, <1>4, Recursion
<1>6. F \in [0..m -> Nat] /\ F[0] = 0 /\ \A n \in 1..m : F[n] = J[n][F[n - 1]]
  BY <1>5 DEF Follows
<1>7. ASSUME NEW n \in 0..m PROVE F[n] = IF n = 0 THEN 0 ELSE F[n - 1] + CallsIn(cs[n])
  <2>1. CASE n = 0
    BY <1>6, <2>1
  <2>2. CASE n # 0
    <3>1. n \in 1..m /\ n - 1 \in 0..m
      BY <1>2, <2>2
    <3>2. F[n - 1] \in Nat
      BY <1>6, <3>1
    <3>3. J[n][F[n - 1]] = F[n - 1] + CallsIn(cs[n])
      BY <3>1, <3>2
    <3> QED BY <1>6, <2>2, <3>1, <3>3
  <2> QED BY <2>1, <2>2
<1>8. D(F)
  BY <1>6, <1>7
<1>9. D(A)
  <2> HIDE DEF D
  <2> QED BY <1>8
<1> HIDE DEF A, J, m
<1>10. A[0] = 0 /\ \A n \in 1..m : A[n] = A[n - 1] + CallsIn(cs[n])
  <2>1. \A n \in 0..m : A[n] = IF n = 0 THEN 0 ELSE A[n - 1] + CallsIn(cs[n])
    BY <1>9
  <2> QED BY <1>2, <2>1
<1> DEFINE Q == {n \in 0..m : A[n] \in Nat}
<1>11. 0 \in Q
  BY <1>2, <1>10
<1>12. ASSUME NEW n \in 1..m, n - 1 \in Q PROVE n \in Q
  <2>1. n \in 0..m /\ A[n - 1] \in Nat /\ CallsIn(cs[n]) \in Nat
    BY <1>2, <1>3, <1>12
  <2> QED BY <1>10, <2>1
<1>13. m \in Q
  <2> HIDE DEF Q
  <2>1. \A n \in 0..m : n \in Q
    BY <1>2, <1>11, <1>12, Induct
  <2> QED BY <1>2, <2>1
<1> QED BY <1>1, <1>13

-----------------------------------------------------------------------------
(* The inductive invariant: what the observer holds is a function of the bytes *)
(* it has read, what is reported a function of what it holds.                 *)
Traced ==
  /\ fed \in Seq(Byte) /\ outcome \in Outcome \cup {"body", None}
  /\ outcome # "body" => Sound(obs, fed)
  /\ outcome = "body" => Sound(obs, <<>>)
  /\ outcome = None => result = None
  /\ outcome \in Outcome => result = FinishStream(obs, outcome)
  /\ outcome = "body" => \E b \in Json \cup {Text} : fed = <<b>> /\ result = ObserveBuffered(b)

(* No outcome is the absence of one.                                          *)
LEMMA OutcomesDiffer == None \notin Outcome /\ None # "body" /\ "body" \notin Outcome
BY Consts DEF Outcome

(* A new observer has read nothing.                                           *)
LEMMA InitTraced == Init => Traced
BY NewSound, NoBytes, OutcomesDiffer DEF Init, Traced

(* Every step keeps the invariant.                                            *)
LEMMA NextTraced == Traced /\ [Next]_vars => Traced'
<1> SUFFICES ASSUME Traced, [Next]_vars PROVE Traced'
  OBVIOUS
<1>1. CASE Push
  <2>1. PICK c \in Chunk : obs' = PushBytes(obs, c) /\ fed' = fed \o c
    BY <1>1 DEF Push
  <2>2. outcome = None /\ outcome' = None /\ result' = result
    BY <1>1 DEF Push
  <2>3. Sound(obs, fed) /\ fed \in Seq(Byte) /\ c \in Seq(Byte) /\ result = None
    BY <2>2, OutcomesDiffer, Consts DEF Traced
  <2>4. Sound(PushBytes(obs, c), fed \o c)
    BY <2>3, BytesHeld
  <2>5. fed \o c \in Seq(Byte)
    BY <2>3, ConcatProperties
  <2>6. fed' \in Seq(Byte) /\ Sound(obs', fed')
    BY <2>1, <2>4, <2>5
  <2> QED BY <2>2, <2>3, <2>6, OutcomesDiffer DEF Traced
<1>2. CASE Finish
  <2>1. PICK how \in Outcome : outcome' = how /\ result' = FinishStream(obs, how)
    BY <1>2 DEF Finish
  <2>2. outcome = None /\ obs' = obs /\ fed' = fed
    BY <1>2 DEF Finish
  <2>3. Sound(obs, fed) /\ fed \in Seq(Byte)
    BY <2>2, OutcomesDiffer DEF Traced
  <2>4. outcome' \in Outcome /\ result' = FinishStream(obs', outcome')
    BY <2>1, <2>2
  <2> QED BY <2>2, <2>3, <2>4, OutcomesDiffer DEF Traced
<1>3. CASE Body
  <2>1. PICK b \in Json \cup {Text} : fed' = <<b>> /\ result' = ObserveBuffered(b)
    BY <1>3 DEF Body
  <2>2. outcome = None /\ fed = <<>> /\ outcome' = "body" /\ obs' = obs
    BY <1>3 DEF Body
  <2>3. Sound(obs, <<>>)
    BY <2>2, OutcomesDiffer DEF Traced
  <2>4. <<b>> \in Seq(Byte)
    <3>1. b \in Byte
      BY DEF Byte
    <3> HIDE DEF Byte
    <3> QED BY <3>1
  <2> QED BY <2>1, <2>2, <2>3, <2>4, OutcomesDiffer DEF Traced
<1>4. CASE UNCHANGED vars
  BY <1>4 DEF vars, Traced
<1> QED BY <1>1, <1>2, <1>3, <1>4 DEF Next

(* The state a finished stream is reported from.                              *)
LEMMA FinishKept ==
  ASSUME NEW o, NEW f \in Seq(Byte), Sound(o, f), NEW how \in Outcome, NEW r,
         r = FinishStream(o, how)
  PROVE  /\ Consistent(r.usage) /\ \A x \in Field : r.usage[x].kind \in Kinds
         /\ how # "completed" \/ Unterminated(o) =>
              /\ r.tools.kind = "unavailable"
              /\ \A i \in DOMAIN r.finish : r.finish[i].kind = "unavailable"
              /\ r.usage.completion.kind # "estimated"
         /\ how \in {"disconnected", "truncated"} => r.usage = UnavailableUsage
<1> DEFINE cut == Unterminated(o)
           tail == IF IsData(o.line) THEN Parse(Payload(o.line)) ELSE None
           one == SeeIndexes(o.state, Parse(o.data))
           two == SeeIndexes(one, tail)
           state == IF how = "completed" /\ cut THEN two ELSE o.state
           incomplete == how # "completed" \/ cut
           estimate == IF incomplete THEN 0 ELSE o.events
           calls == Cardinality(state.pairs)
           usage == FinishUsage(state.usage, estimate)
<1>1. o \in Observing /\ Tells(o.state, Docs(f))
  BY DEF Sound, Observed
<1>2. o.state \in State /\ o.events \in Nat /\ \E G : FinishSays(o.state, G)
  BY <1>1 DEF Observing, Tells, Says
<1>3. o.state \in Kept(o.state)
  BY <1>2 DEF Kept
<1>4. Parse(o.data) \in Json \cup {None} /\ tail \in Json \cup {None}
  BY ParseIs
<1>5. one \in Kept(o.state)
  BY <1>3, <1>4, IndexesKept
<1>6. two \in Kept(o.state)
  <2> HIDE DEF one, tail
  <2> QED BY <1>4, <1>5, IndexesKept
<1>7. r = FinishState(state, how, incomplete, estimate, calls)
  BY DEF FinishStream
<1>8. state \in Kept(o.state)
  <2> HIDE DEF two
  <2> QED BY <1>3, <1>6
<1> HIDE DEF state, calls, cut
<1>9. state.usage \in [Field -> Number]
  BY <1>2, <1>8, StateIs DEF Kept
<1>10. estimate \in Nat /\ (incomplete => estimate = 0)
  BY <1>2
<1>11. incomplete <=> how # "completed" \/ Unterminated(o)
  BY DEF cut
<1> HIDE DEF incomplete, estimate
<1>12. /\ Consistent(usage) /\ \A x \in Field : usage[x].kind \in Kinds
       /\ estimate = 0 => usage.completion.kind # "estimated"
  BY <1>9, <1>10, UsageAdds
<1>13. r.usage = (IF how \in {"disconnected", "truncated"} THEN UnavailableUsage ELSE usage)
  BY <1>7 DEF FinishState
<1> HIDE DEF usage
<1>14. Report(Absent).kind = "unavailable"
  BY DEF Report
<1>15. incomplete => r.tools.kind = "unavailable"
  BY <1>7, <1>14 DEF FinishState
<1>16. incomplete => \A i \in DOMAIN r.finish : r.finish[i].kind = "unavailable"
  BY <1>7, <1>14 DEF FinishState
<1>17. Consistent(r.usage) /\ \A x \in Field : r.usage[x].kind \in Kinds
  BY <1>12, <1>13, NoUsage
<1>18. incomplete => r.usage.completion.kind # "estimated"
  BY <1>10, <1>12, <1>13, NoUsage
<1> QED BY <1>11, <1>13, <1>15, <1>16, <1>17, <1>18

(* What is reported of a body.                                                *)
LEMMA BodyReported ==
  ASSUME NEW b \in Json \cup {Text}, NEW r, r = ObserveBuffered(b)
  PROVE  /\ Consistent(r.usage) /\ \A x \in Field : r.usage[x].kind \in Kinds
         /\ Measured(r.tools) /\ r.tools.value > 0 => HasSubstance(b)
<1> DEFINE d == Doc[b]
           s == [Nothing EXCEPT !.usage = SeeUsage(@, d.usage)]
           p == [s EXCEPT !.toolsPresent = TRUE]
<1>0. Tells(Nothing, {}) /\ 0 \in Nat
  BY NothingTells
<1>1. Nothing \in Kept(Nothing) /\ Nothing \in State
  BY <1>0 DEF Tells, Says, Kept
<1>2. ASSUME NEW y \in State, NEW calls \in Nat, r = FinishState(y, "completed", FALSE, 0, calls)
      PROVE  /\ Consistent(r.usage) /\ \A x \in Field : r.usage[x].kind \in Kinds
             /\ Measured(r.tools) /\ r.tools.value > 0 => calls > 0
  <2>1. r.usage = FinishUsage(y.usage, 0)
    BY <1>2 DEF FinishState
  <2>2. y.usage \in [Field -> Number]
    BY StateIs
  <2>3. Consistent(r.usage) /\ \A x \in Field : r.usage[x].kind \in Kinds
    BY <1>0, <2>1, <2>2, UsageAdds
  <2>4. r.tools = Report(IF y.toolsInvalid THEN Invalid ELSE IF ~y.toolsPresent THEN Absent ELSE calls)
    BY <1>2 DEF FinishState
  <2>5. ~Measured(Report(Invalid)) /\ ~Measured(Report(Absent))
    BY Consts DEF Report, Measured
  <2>6. Measured(r.tools) => r.tools = Report(calls)
    BY <2>4, <2>5
  <2>7. Report(calls) = [kind |-> "measured", value |-> calls]
    BY Consts DEF Report
  <2>8. Measured(r.tools) => r.tools.value = calls
    BY <2>6, <2>7
  <2> QED BY <2>3, <2>8
<1>3. CASE b \notin Json
  <2>1. r = FinishState(Nothing, "completed", FALSE, 0, 0)
    BY <1>3 DEF ObserveBuffered
  <2> QED BY <1>0, <1>1, <1>2, <1>3, <2>1 DEF HasSubstance
<1>4. CASE b \in Json
  <2>1. d \in Document
    BY <1>4, Consts
  <2> HIDE DEF d
  <2>2. /\ d.usage \in [Field -> Number] \cup {Absent, Invalid}
        /\ d.choices \in Seq(Choice \cup {Invalid}) \cup {Absent, Invalid}
    BY <2>1 DEF Document, Number
  <2>3. /\ s \in State /\ s.order = Nothing.order /\ s.finish = Nothing.finish
        /\ s.overflowed = Nothing.overflowed
    <3>1. UsageSays(Nothing, {})
      BY DEF Nothing, UsageSays, Used, Agreed
    <3> DEFINE u == d.usage
    <3>2. s = [Nothing EXCEPT !.usage = SeeUsage(@, u)] /\ u \in [Field -> Number] \cup {Absent, Invalid}
      BY <2>2
    <3> DEFINE y == Nothing
               U == {}
               V == IF u = Absent THEN U ELSE U \cup {u}
    <3>3. y \in State /\ UsageSays(y, U) /\ s = [y EXCEPT !.usage = SeeUsage(@, u)]
          /\ u \in [Field -> Number] \cup {Absent, Invalid}
      BY <1>1, <3>1, <3>2
    <3> HIDE DEF s, u, y, U
    <3>4. s \in State /\ s.order = y.order /\ s.finish = y.finish /\ s.overflowed = y.overflowed
          /\ UsageSays(s, V)
      BY <3>3, UsageSeen
    <3> QED BY <3>4 DEF y
  <2>4. CASE d.choices = Absent
    <3>1. r = FinishState(s, "completed", FALSE, 0, 0)
      BY <1>4, <2>4 DEF ObserveBuffered, d
    <3> HIDE DEF s
    <3>2. /\ Consistent(r.usage) /\ \A x \in Field : r.usage[x].kind \in Kinds
          /\ Measured(r.tools) /\ r.tools.value > 0 => 0 > 0
      BY <1>0, <1>2, <2>3, <3>1
    <3> QED BY <3>2
  <2>5. CASE d.choices = Invalid
    <3>1. r = FinishState(BadTools(s), "completed", FALSE, 0, 0)
      BY <1>4, <2>5, Consts DEF ObserveBuffered, d
    <3> HIDE DEF s
    <3>2. BadTools(s) \in State
      BY <2>3 DEF BadTools, State
    <3>3. /\ Consistent(r.usage) /\ \A x \in Field : r.usage[x].kind \in Kinds
          /\ Measured(r.tools) /\ r.tools.value > 0 => 0 > 0
      BY <1>0, <1>2, <3>1, <3>2
    <3> QED BY <3>3
  <2>6. CASE d.choices \notin {Absent, Invalid}
    <3> DEFINE cs == d.choices
               y == BodyChoices(p, cs)
    <3>1. cs \in Seq(Choice \cup {Invalid})
      BY <2>2, <2>6
    <3>2. r = FinishState(y, "completed", FALSE, 0, BodyCalls(cs))
      BY <1>4, <2>6 DEF ObserveBuffered, d
    <3> HIDE DEF s, cs
    <3>3. p \in State /\ p.order = s.order /\ p.finish = s.finish /\ p.overflowed = s.overflowed
      BY <2>3 DEF State
    <3>4. p \in Kept(p)
      <4>1. PICK G : FinishSays(Nothing, G)
        BY <1>1 DEF Kept
      <4> HIDE DEF p
      <4>2. FinishSays(p, G)
        BY <2>3, <3>3, <4>1 DEF FinishSays
      <4> QED BY <3>3, <4>2 DEF Kept
    <3> HIDE DEF p
    <3>5. y \in State
      BY <3>1, <3>4, BodyKept DEF Kept
    <3> HIDE DEF y
    <3>6. BodyCalls(cs) \in Nat
      BY <3>1, BodyCallsNat
    <3>7. /\ Consistent(r.usage) /\ \A x \in Field : r.usage[x].kind \in Kinds
          /\ Measured(r.tools) /\ r.tools.value > 0 => BodyCalls(cs) > 0
      BY <1>2, <3>2, <3>5, <3>6
    <3>8. BodyCalls(cs) > 0 => HasSubstance(b)
      <4> SUFFICES ASSUME BodyCalls(cs) > 0 PROVE HasSubstance(b)
        OBVIOUS
      <4>1. PICK i \in 1..Len(cs) : CallsIn(cs[i]) # 0
        BY <3>1, <3>6, CallsCounted
      <4>2. cs[i] \in Choice \cup {Invalid} /\ DOMAIN cs = 1..Len(cs)
        <5> HIDE DEF Choice
        <5> QED BY <3>1
      <4>3. cs[i] # Invalid /\ cs[i].tools \notin {Absent, Invalid} /\ Len(cs[i].tools) # 0
        BY <4>1 DEF CallsIn
      <4>4. cs[i].tools # <<>>
        BY <4>3
      <4> QED BY <1>4, <4>2, <4>3, <4>4 DEF HasSubstance, cs, d
    <3> QED BY <3>7, <3>8
  <2> QED BY <2>4, <2>5, <2>6
<1> QED BY <1>3, <1>4

(* The observer knows whether the bytes end within an event.                  *)
LEMMA CutKnown ==
  ASSUME NEW o, NEW f \in Seq(Byte), Sound(o, f)
  PROVE  Cut(f) <=> Unterminated(o)
<1>1. Held(o, f)
  BY DEF Sound
<1>2. /\ Len(f) \in Nat /\ StartOf(f) \in 0..Len(f) /\ LineOf(f) \in Seq(Byte)
      /\ Len(LineOf(f)) = Len(f) - StartOf(f)
  BY TailIs
<1>3. StartOf(f) < Len(f) <=> LineOf(f) # <<>>
  <2>1. StartOf(f) < Len(f) <=> Len(LineOf(f)) # 0
    BY <1>2
  <2>2. LineOf(f) # <<>> <=> Len(LineOf(f)) # 0
    <3> HIDE DEF Byte
    <3> QED BY <1>2, EmptySeq
  <2> QED BY <2>1, <2>2
<1>4. Cut(f) <=> LineOf(f) # <<>> \/ LongOf(f) \/ DataOf(f) # <<>>
  BY <1>3 DEF Cut, StartOf, OpenOf, LongOf, DataOf
<1> QED BY <1>1, <1>4 DEF Held, Unterminated

-----------------------------------------------------------------------------
(* The reference, part by part.                                              *)
Offered(E) == UNION {ChoicesOf(d) : d \in E}
Good(E) == {c \in Offered(E) : c # Invalid /\ c.index # Invalid}
GoodIndexes(E) == {c.index : c \in Good(E)}
GoodPairs(E) == UNION {{<<c.index, t>> : t \in ToSet(c.tools)} :
                         c \in {c \in Good(E) : c.tools \notin {Absent, Invalid}}}
GoodReasons(E, i) == {c.finish : c \in {c \in Good(E) : c.index = i}}
SaidUsage(E, x) == {IF d.usage = Invalid THEN Invalid ELSE d.usage[x] :
                      d \in {d \in E : d.usage # Absent}}
SaidBad(E) == \/ \E d \in E : d.choices = Invalid
              \/ Offered(E) # Good(E) \/ \E c \in Good(E) : c.tools = Invalid
              \/ \E p \in GoodPairs(E) : p[2] = Invalid
              \/ Cardinality(GoodPairs(E)) > MaxIndexed

(* It says so much and no more.                                              *)
LEMMA ReferenceIs ==
  ASSUME NEW f, NEW E, E = Docs(f)
  PROVE  /\ Reference(f).usage = FinishUsage([x \in Field |-> Agreed(SaidUsage(E, x))],
                                             Cardinality(Counted(f)))
         /\ Reference(f).tools = Report(IF SaidBad(E) THEN Invalid
                                        ELSE IF \A d \in E : d.choices = Absent THEN Absent
                                        ELSE Cardinality(GoodPairs(E)))
         /\ Reference(f).finish =
              [i \in GoodIndexes(E) |->
                 Report(IF Cardinality(GoodIndexes(E)) > MaxIndexed THEN Invalid
                        ELSE Agreed(GoodReasons(E, i)))]
BY DEF Reference, Docs, Counted, Offered, Good, GoodIndexes, GoodPairs, GoodReasons, SaidUsage,
       SaidBad

(* The documents of a stream are documents.                                   *)
LEMMA DocsAre == \A f : \A d \in Docs(f) : d \in Document
<1> SUFFICES ASSUME NEW f, NEW i \in Parsed(f) PROVE Doc[EventAt(f, i)] \in Document
  BY DEF Docs
<1>1. EventAt(f, i) # None
  BY DEF Parsed
<1>2. EventAt(f, i) = Parse(DataBetween(f, LastBefore(Blanks(f), i), i))
  BY <1>1 DEF EventAt
<1> QED BY <1>1, <1>2, ParseIs

(* The choices of documents.                                                  *)
LEMMA OfferedIs ==
  ASSUME NEW E, \A d \in E : d \in Document
  PROVE  /\ \A c : c \in Offered(E) <=>
               \E d \in E : Listed(d) /\ \E k \in 1..Len(d.choices) : c = d.choices[k]
         /\ \A c \in Offered(E) : c \in Choice \cup {Invalid}
         /\ \A c \in Good(E) : Read(c)
         /\ \A c \in Offered(E) : Read(c) => c \in Good(E)
<1>1. ASSUME NEW d \in E, Listed(d)
      PROVE  /\ d.choices \in Seq(Choice \cup {Invalid}) /\ DOMAIN d.choices = 1..Len(d.choices)
             /\ \A k \in 1..Len(d.choices) : d.choices[k] \in Choice \cup {Invalid}
  <2>1. d.choices \in Seq(Choice \cup {Invalid})
    BY <1>1 DEF Document, Listed
  <2> HIDE DEF Choice
  <2> QED BY <2>1
<1>2. ASSUME NEW d \in E
      PROVE  \A c : c \in ChoicesOf(d) <=> Listed(d) /\ \E k \in 1..Len(d.choices) : c = d.choices[k]
  <2>1. CASE Listed(d)
    BY <1>1, <2>1 DEF ChoicesOf, Listed, ToSet
  <2>2. CASE ~Listed(d)
    BY <2>2 DEF ChoicesOf, Listed
  <2> QED BY <2>1, <2>2
<1>3. \A c : c \in Offered(E) <=>
               \E d \in E : Listed(d) /\ \E k \in 1..Len(d.choices) : c = d.choices[k]
  BY <1>2 DEF Offered
<1> QED BY <1>1, <1>3 DEF Good, Read

(* The sights of them.                                                        *)
LEMMA SightsAre ==
  ASSUME NEW E, \A d \in E : d \in Document
  PROVE  \A z : z \in AllSights(E) <=> \E c \in Good(E) : z = <<c.index, c.finish>>
<1>1. /\ \A c : c \in Offered(E) <=>
               \E d \in E : Listed(d) /\ \E k \in 1..Len(d.choices) : c = d.choices[k]
      /\ \A c \in Good(E) : Read(c) /\ c \in Offered(E)
      /\ \A c \in Offered(E) : Read(c) => c \in Good(E)
  BY OfferedIs DEF Good
<1>2. \A z : z \in AllSights(E) <=>
               \E d \in E : Listed(d) /\ \E k \in 1..Len(d.choices) : z \in Sight(d.choices[k])
  BY DEF AllSights, SightsOf, Sights
<1>3. \A c, z : z \in Sight(c) <=> Read(c) /\ z = <<c.index, c.finish>>
  BY DEF Sight
<1> QED BY <1>1, <1>2, <1>3

(* The calls in them.                                                         *)
LEMMA PairsAre ==
  ASSUME NEW E, \A d \in E : d \in Document
  PROVE  /\ \A z : z \in AllPairs(E) <=> z \in GoodPairs(E) /\ z[2] # Invalid
         /\ AnyBad(E) <=> \/ \E d \in E : d.choices = Invalid
                          \/ Offered(E) # Good(E) \/ \E c \in Good(E) : c.tools = Invalid
                          \/ \E p \in GoodPairs(E) : p[2] = Invalid
<1>1. /\ \A c : c \in Offered(E) <=>
               \E d \in E : Listed(d) /\ \E k \in 1..Len(d.choices) : c = d.choices[k]
      /\ \A c \in Offered(E) : c \in Choice \cup {Invalid}
      /\ \A c \in Good(E) : Read(c) /\ c \in Offered(E)
      /\ \A c \in Offered(E) : Read(c) => c \in Good(E)
  BY OfferedIs DEF Good
<1>2. \A z : z \in AllPairs(E) <=> \E c \in Offered(E) : z \in CallsOf(c)
  <2>1. \A z : z \in AllPairs(E) <=>
               \E d \in E : Listed(d) /\ \E k \in 1..Len(d.choices) : z \in CallsOf(d.choices[k])
    BY DEF AllPairs, PairsOf, CallsUpTo
  <2> QED BY <1>1, <2>1
<1>3. \A c, z : z \in CallsOf(c) <=>
                  /\ Listing(c)
                  /\ \E k \in 1..Len(c.tools) : c.tools[k] # Invalid /\ z = <<c.index, c.tools[k]>>
  BY DEF CallsOf, Called
<1>4. ASSUME NEW c \in Offered(E), Listing(c)
      PROVE  DOMAIN c.tools = 1..Len(c.tools)
  <2>1. c.tools \in Seq(Nat \cup {Invalid})
    BY <1>1, <1>4, ChoiceIs DEF Listing
  <2> QED BY <2>1
<1>5. \A z : z \in GoodPairs(E) <=>
               \E c \in Offered(E) : /\ Listing(c)
                                     /\ \E k \in 1..Len(c.tools) : z = <<c.index, c.tools[k]>>
  <2>1. \A c : c \in {x \in Good(E) : x.tools \notin {Absent, Invalid}} <=> c \in Offered(E) /\ Listing(c)
    BY <1>1 DEF Listing
  <2>2. \A z : z \in GoodPairs(E) <=>
               \E c \in {x \in Good(E) : x.tools \notin {Absent, Invalid}} :
                 \E t \in ToSet(c.tools) : z = <<c.index, t>>
    BY DEF GoodPairs
  <2>3. \A z : z \in GoodPairs(E) <=>
               \E c \in Offered(E) : Listing(c) /\ \E t \in ToSet(c.tools) : z = <<c.index, t>>
    BY <2>1, <2>2
  <2>4. \A c \in Offered(E) : Listing(c) =>
          \A t : t \in ToSet(c.tools) <=> \E k \in 1..Len(c.tools) : t = c.tools[k]
    BY <1>4 DEF ToSet
  <2>5. ASSUME NEW z
        PROVE  (\E c \in Offered(E) : Listing(c) /\ \E t \in ToSet(c.tools) : z = <<c.index, t>>)
               <=> (\E c \in Offered(E) : /\ Listing(c)
                                          /\ \E k \in 1..Len(c.tools) : z = <<c.index, c.tools[k]>>)
    <3>1. ASSUME NEW c \in Offered(E), Listing(c)
          PROVE  (\E t \in ToSet(c.tools) : z = <<c.index, t>>)
                 <=> \E k \in 1..Len(c.tools) : z = <<c.index, c.tools[k]>>
      <4>1. \A t : t \in ToSet(c.tools) <=> \E k \in 1..Len(c.tools) : t = c.tools[k]
        BY <2>4, <3>1
      <4> QED BY <4>1, Zenon
    <3> QED BY <3>1, Zenon
  <2> QED BY <2>3, <2>5, Zenon
<1>6. \A z : z \in AllPairs(E) <=> z \in GoodPairs(E) /\ z[2] # Invalid
  <2>1. \A x, y : <<x, y>>[2] = y
    OBVIOUS
  <2> QED BY <1>2, <1>3, <1>5, <2>1
<1>7. AnyBad(E) <=> (\E d \in E : d.choices = Invalid) \/ (\E c \in Offered(E) : Bad(c))
  <2>1. AnyBad(E) <=> \E d \in E : \/ d.choices = Invalid
                                   \/ Listed(d) /\ \E k \in 1..Len(d.choices) : Bad(d.choices[k])
    BY DEF AnyBad, BadDoc, BadIn
  <2> QED BY <1>1, <2>1
<1>8. (\E c \in Offered(E) : Bad(c)) <=>
        \/ Offered(E) # Good(E) \/ \E c \in Good(E) : c.tools = Invalid
        \/ \E p \in GoodPairs(E) : p[2] = Invalid
  <2>1. \A c : Bad(c) <=> \/ ~Read(c) \/ c.tools = Invalid
                          \/ Listing(c) /\ \E k \in 1..Len(c.tools) : c.tools[k] = Invalid
    BY DEF Bad, BadUpTo
  <2>2. Offered(E) # Good(E) <=> \E c \in Offered(E) : ~Read(c)
    <3>1. \A c : c \in Good(E) <=> c \in Offered(E) /\ Read(c)
      BY <1>1
    <3> QED BY <3>1
  <2>3. (\E p \in GoodPairs(E) : p[2] = Invalid) <=>
          \E c \in Offered(E) : Listing(c) /\ \E k \in 1..Len(c.tools) : c.tools[k] = Invalid
    <3>1. \A x, y : <<x, y>>[2] = y
      OBVIOUS
    <3>2. ASSUME NEW p \in GoodPairs(E), p[2] = Invalid
          PROVE  \E c \in Offered(E) : Listing(c) /\ \E k \in 1..Len(c.tools) : c.tools[k] = Invalid
      <4>1. PICK c \in Offered(E) : Listing(c) /\ \E k \in 1..Len(c.tools) : p = <<c.index, c.tools[k]>>
        BY <1>5
      <4>2. PICK k \in 1..Len(c.tools) : p = <<c.index, c.tools[k]>>
        BY <4>1
      <4> QED BY <3>1, <3>2, <4>1, <4>2
    <3>3. ASSUME NEW c \in Offered(E), Listing(c), NEW k \in 1..Len(c.tools), c.tools[k] = Invalid
          PROVE  \E p \in GoodPairs(E) : p[2] = Invalid
      <4>1. <<c.index, c.tools[k]>> \in GoodPairs(E)
        BY <1>5, <3>3, Zenon
      <4> QED BY <3>1, <3>3, <4>1
    <3> QED BY <3>2, <3>3
  <2> QED BY <1>1, <2>1, <2>2, <2>3
<1> QED BY <1>6, <1>7, <1>8

(* The indexes an order holds.                                                *)
LEMMA OrderCount ==
  ASSUME NEW s \in State, NEW G, FinishSays(s, G)
  PROVE  IsFiniteSet(ToSet(s.order)) /\ Cardinality(ToSet(s.order)) = Len(s.order)
<1> DEFINE q == s.order
           m == Len(q)
<1>1. q \in Seq(Nat) /\ m \in Nat /\ DOMAIN q = 1..m /\ q \in [1..m -> Nat]
  <2>1. q \in Seq(Nat)
    BY StateIs
  <2> HIDE DEF q
  <2> QED BY <2>1, LenProperties
<1>2. \A i, j \in 1..m : q[i] = q[j] => i = j
  BY DEF FinishSays
<1> HIDE DEF q, m
<1>3. q \in Bijection(1..m, ToSet(q))
  <2>1. \A i \in 1..m : q[i] \in ToSet(q)
    BY <1>1 DEF ToSet
  <2>2. \A y \in ToSet(q) : \E i \in 1..m : q[i] = y
    BY <1>1 DEF ToSet
  <2>3. q \in [1..m -> ToSet(q)]
    BY <1>1, <2>1
  <2> QED BY <1>2, <2>2, <2>3 DEF Bijection, Injection, Surjection, IsInjective
<1>4. ExistsBijection(1..m, ToSet(q))
  BY <1>3 DEF ExistsBijection
<1>5. Cardinality(ToSet(q)) = m /\ IsFiniteSet(ToSet(q))
  BY <1>1, <1>4, FS_CountingElements, FS_NatBijection
<1> QED BY <1>5 DEF q, m

(* Where the state keeps the choice with an index.                            *)
Place(s, i) == CHOOSE k \in DOMAIN s.order : s.order[k] = i

(* What a finished stream reports of each choice.                             *)
LEMMA FinishEach ==
  ASSUME NEW o, ~Unterminated(o), NEW r, r = FinishStream(o, "completed")
  PROVE  /\ DOMAIN r.finish = ToSet(o.state.order)
         /\ \A i \in ToSet(o.state.order) :
              r.finish[i] = Report(IF o.state.overflowed THEN Invalid
                                   ELSE o.state.finish[Place(o.state, i)])
<1> DEFINE s == o.state
           g == [i \in ToSet(s.order) |->
                   Report(IF FALSE THEN Absent ELSE IF s.overflowed THEN Invalid
                          ELSE s.finish[Place(s, i)])]
<1>1. r = FinishState(s, "completed", FALSE, o.events, Cardinality(s.pairs))
  BY DEF FinishStream
<1>2. FinishState(s, "completed", FALSE, o.events, Cardinality(s.pairs)).finish = g
  BY Zenon DEF FinishState, Place
<1>3. r.finish = g
  BY <1>1, <1>2, Zenon
<1>4. DOMAIN g = ToSet(s.order)
  OBVIOUS
<1>5. \A i \in ToSet(s.order) :
        g[i] = Report(IF s.overflowed THEN Invalid ELSE s.finish[Place(s, i)])
  OBVIOUS
<1> QED BY <1>3, <1>4, <1>5

(* A complete stream is reported as the reference says.                       *)
LEMMA Exact ==
  ASSUME NEW o, NEW f \in Seq(Byte), Sound(o, f), ~Unterminated(o), NEW r,
         r = FinishStream(o, "completed")
  PROVE  /\ r.usage = Reference(f).usage /\ r.tools = Reference(f).tools
         /\ \A i \in DOMAIN r.finish : r.finish[i] = Reference(f).finish[i]
         /\ Cardinality(DOMAIN r.finish) =
              IF Cardinality(DOMAIN Reference(f).finish) > MaxIndexed THEN MaxIndexed
              ELSE Cardinality(DOMAIN Reference(f).finish)
<1> DEFINE s == o.state
           E == Docs(f)
           G == AllSights(E)
           T == AllPairs(E)
           bad == AnyBad(E)
           X == GoodIndexes(E)
           many == Cardinality(X) > MaxIndexed
<1>1. /\ Tells(s, E) /\ o.events = Cardinality(Counted(f)) /\ \A d \in E : d \in Document
  BY DocsAre DEF Sound, Observed
<1>2. /\ s \in State /\ UsageSays(s, UsagesOf(E)) /\ FinishSays(s, G) /\ CallsSay(s, T, bad)
      /\ s.toolsPresent <=> AnyListed(E)
  BY <1>1 DEF Tells, Says
<1>3. r = FinishState(s, "completed", FALSE, o.events, Cardinality(s.pairs))
  BY DEF FinishStream
<1>4. /\ Reference(f).usage = FinishUsage([x \in Field |-> Agreed(SaidUsage(E, x))],
                                          Cardinality(Counted(f)))
      /\ Reference(f).tools = Report(IF SaidBad(E) THEN Invalid
                                     ELSE IF \A d \in E : d.choices = Absent THEN Absent
                                     ELSE Cardinality(GoodPairs(E)))
      /\ Reference(f).finish =
           [i \in X |-> Report(IF many THEN Invalid ELSE Agreed(GoodReasons(E, i)))]
  BY ReferenceIs
<1> HIDE DEF s, E
<1>5. r.usage = Reference(f).usage
  <2>1. \A x \in Field : SaidUsage(E, x) = Used(UsagesOf(E), x)
    BY DEF SaidUsage, Used, UsagesOf
  <2>2. s.usage = [x \in Field |-> Agreed(SaidUsage(E, x))]
    <3>1. s.usage \in [Field -> Number]
      BY <1>2, StateIs
    <3>2. \A x \in Field : s.usage[x] = Agreed(SaidUsage(E, x))
      BY <1>2, <2>1 DEF UsageSays
    <3> QED BY <3>1, <3>2
  <2>3. r.usage = FinishUsage(s.usage, o.events)
    BY <1>3 DEF FinishState
  <2> QED BY <1>1, <1>4, <2>2, <2>3
<1>6. r.tools = Reference(f).tools
  <2>1. r.tools = Report(IF s.toolsInvalid THEN Invalid ELSE IF ~s.toolsPresent THEN Absent
                         ELSE Cardinality(s.pairs))
    BY <1>3 DEF FinishState
  <2>2. \A z : z \in T <=> z \in GoodPairs(E) /\ z[2] # Invalid
    BY <1>1, PairsAre
  <2>3. bad <=> \/ \E d \in E : d.choices = Invalid
                \/ Offered(E) # Good(E) \/ \E c \in Good(E) : c.tools = Invalid
                \/ \E p \in GoodPairs(E) : p[2] = Invalid
    BY <1>1, PairsAre
  <2>4. ~bad => T = GoodPairs(E)
    BY <2>2, <2>3
  <2>5. SaidBad(E) <=> bad \/ Cardinality(GoodPairs(E)) > MaxIndexed
    BY <2>3 DEF SaidBad
  <2>6. ~bad => ((\A d \in E : d.choices = Absent) <=> ~AnyListed(E))
    BY <2>3 DEF AnyListed, Listed
  <2> HIDE DEF T, bad
  <2>7. s.toolsInvalid <=> bad \/ Cardinality(T) > MaxIndexed
    BY <1>2 DEF CallsSay
  <2>8. s.toolsInvalid <=> SaidBad(E)
    BY <2>4, <2>5, <2>7
  <2>9. ~s.toolsInvalid => s.pairs = GoodPairs(E) /\ ~bad
    BY <1>2, <2>4, <2>7 DEF CallsSay
  <2>10. CASE s.toolsInvalid
    BY <1>4, <2>1, <2>8, <2>10
  <2>11. CASE ~s.toolsInvalid
    BY <1>2, <1>4, <2>1, <2>6, <2>8, <2>9, <2>11
  <2> QED BY <2>10, <2>11
<1>7. \A z : z \in G <=> \E c \in Good(E) : z = <<c.index, c.finish>>
  BY <1>1, SightsAre
<1>8. \A c \in Good(E) : c.index \in Nat /\ c.finish \in Reason
  <2>1. \A c \in Good(E) : Read(c) /\ c \in Choice \cup {Invalid}
    BY <1>1, OfferedIs DEF Good
  <2> QED BY <2>1, ChoiceIs
<1> HIDE DEF G
<1>9. X = Indexes(G)
  <2>1. ASSUME NEW x \in X PROVE x \in Indexes(G)
    <3>1. PICK c \in Good(E) : x = c.index
      BY DEF GoodIndexes
    <3>2. x \in Nat /\ c.finish \in Reason /\ <<x, c.finish>> \in G
      BY <1>7, <1>8, <3>1
    <3> QED BY <3>2 DEF Indexes, Sighted
  <2>2. ASSUME NEW x \in Indexes(G) PROVE x \in X
    <3>1. PICK v \in Reason : <<x, v>> \in G
      BY DEF Indexes, Sighted
    <3>2. PICK c \in Good(E) : <<x, v>> = <<c.index, c.finish>>
      BY <1>7, <3>1
    <3> QED BY <3>2 DEF GoodIndexes
  <2> QED BY <2>1, <2>2
<1>10. ASSUME NEW i PROVE GoodReasons(E, i) = Shown(G, i)
  <2>1. ASSUME NEW v \in GoodReasons(E, i) PROVE v \in Shown(G, i)
    <3>1. PICK c \in Good(E) : c.index = i /\ v = c.finish
      BY DEF GoodReasons
    <3> QED BY <1>7, <1>8, <3>1 DEF Shown
  <2>2. ASSUME NEW v \in Shown(G, i) PROVE v \in GoodReasons(E, i)
    <3>1. PICK c \in Good(E) : <<i, v>> = <<c.index, c.finish>>
      BY <1>7 DEF Shown
    <3> QED BY <3>1 DEF GoodReasons
  <2> QED BY <2>1, <2>2
<1>11. /\ IsFiniteSet(ToSet(s.order)) /\ Cardinality(ToSet(s.order)) = Len(s.order)
       /\ Len(s.order) \in Nat /\ DOMAIN s.order = 1..Len(s.order) /\ s.order \in Seq(Nat)
       /\ Len(s.order) <= MaxIndexed
  <2>1. s.order \in Seq(Nat)
    BY <1>2, StateIs
  <2>2. Len(s.order) <= MaxIndexed
    BY <1>2 DEF FinishSays
  <2> QED BY <1>2, <2>1, <2>2, OrderCount
<1>12. \A y : y \in ToSet(s.order) <=> \E i \in 1..Len(s.order) : s.order[i] = y
  BY <1>11 DEF ToSet
<1>13. ToSet(s.order) \subseteq X
  <2>1. \A i \in 1..Len(s.order) : Sighted(G, s.order[i]) /\ s.order[i] \in Nat
    BY <1>2, <1>11 DEF FinishSays
  <2> QED BY <1>9, <1>12, <2>1 DEF Indexes
<1>14. IsFiniteSet(X)
  BY <1>2, <1>9 DEF FinishSays
<1> HIDE DEF X
<1>15. s.overflowed \in BOOLEAN
  BY <1>2, StateIs
<1>16. /\ s.overflowed <=> many
       /\ ~many => ToSet(s.order) = X
       /\ many => Len(s.order) = MaxIndexed
  <2>1. CASE s.overflowed
    <3>1. /\ Len(s.order) = MaxIndexed
          /\ \E x \in Nat : Sighted(G, x) /\ \A i \in 1..Len(s.order) : s.order[i] # x
      BY <1>2, <2>1 DEF FinishSays
    <3>2. PICK x \in Nat : Sighted(G, x) /\ \A i \in 1..Len(s.order) : s.order[i] # x
      BY <3>1
    <3>3. x \in X /\ x \notin ToSet(s.order)
      BY <1>9, <1>12, <3>2 DEF Indexes
    <3> DEFINE Y == ToSet(s.order) \cup {x}
    <3>4. Cardinality(Y) = Len(s.order) + 1
      BY <1>11, <3>3, FS_AddElement
    <3>5. Y \in SUBSET X
      BY <1>13, <3>3
    <3> HIDE DEF Y
    <3>6. Cardinality(Y) <= Cardinality(X) /\ Cardinality(X) \in Nat
      BY <1>14, <3>5, FS_Subset, FS_CardinalityType
    <3>7. many
      BY <3>1, <3>4, <3>6, Consts
    <3> QED BY <2>1, <3>1, <3>7
  <2>2. CASE ~s.overflowed
    <3>1. \A x \in Nat : Sighted(G, x) => \E i \in 1..Len(s.order) : s.order[i] = x
      BY <1>2, <2>2 DEF FinishSays
    <3>2. X \subseteq ToSet(s.order)
      BY <1>9, <1>12, <3>1 DEF Indexes
    <3>3. ToSet(s.order) = X
      BY <1>13, <3>2
    <3>4. ~many
      BY <1>11, <3>3, Consts
    <3> QED BY <2>2, <3>3, <3>4
  <2> QED BY <1>15, <2>1, <2>2
<1> HIDE DEF many
<1> DEFINE at(i) == Place(s, i)
<1>17. /\ DOMAIN r.finish = ToSet(s.order)
       /\ \A i \in ToSet(s.order) :
            r.finish[i] = Report(IF s.overflowed THEN Invalid ELSE s.finish[at(i)])
  BY FinishEach DEF s
<1>18. ASSUME NEW i \in ToSet(s.order) PROVE r.finish[i] = Reference(f).finish[i]
  <2>1. \E k \in DOMAIN s.order : s.order[k] = i
    BY <1>11, <1>12
  <2>2. at(i) \in DOMAIN s.order /\ s.order[at(i)] = i
    BY <2>1 DEF Place
  <2>3. r.finish[i] = Report(IF s.overflowed THEN Invalid ELSE s.finish[at(i)])
    BY <1>17
  <2> HIDE DEF at
  <2>4. s.finish[at(i)] = Agreed(Shown(G, i))
    BY <1>2, <1>11, <2>2 DEF FinishSays
  <2>5. Agreed(Shown(G, i)) = Agreed(GoodReasons(E, i))
    BY <1>10
  <2>6. i \in X
    BY <1>13
  <2>7. Reference(f).finish[i] = Report(IF many THEN Invalid ELSE Agreed(GoodReasons(E, i)))
    BY <1>4, <2>6
  <2> QED BY <1>16, <2>3, <2>4, <2>5, <2>7
<1>19. DOMAIN r.finish = ToSet(s.order) /\ DOMAIN Reference(f).finish = X
  BY <1>4, <1>17
<1>20. Cardinality(DOMAIN r.finish) =
         IF Cardinality(DOMAIN Reference(f).finish) > MaxIndexed THEN MaxIndexed
         ELSE Cardinality(DOMAIN Reference(f).finish)
  <2>1. CASE many
    BY <1>11, <1>16, <1>19, <2>1 DEF many
  <2>2. CASE ~many
    BY <1>16, <1>19, <2>2 DEF many
  <2> QED BY <2>1, <2>2
<1> QED BY <1>5, <1>6, <1>18, <1>19, <1>20

(* The bytes the observer holds.                                              *)
LEMMA SoundBounded ==
  ASSUME NEW o, NEW f, Sound(o, f)
  PROVE  /\ Retained(o) <= MaxEvent /\ (o.discarding => Retained(o) = 0)
         /\ o.events \in Nat /\ Len(o.state.order) = Len(o.state.finish)
<1>1. o \in Observing /\ Held(o, f) /\ Tells(o.state, Docs(f))
  BY DEF Sound, Observed
<1>2. o.events \in Nat /\ o.discarding \in BOOLEAN
  BY <1>1 DEF Observing
<1>3. Len(o.state.order) = Len(o.state.finish)
  BY <1>1 DEF Tells, Says, FinishSays
<1>4. CASE o.discarding
  <2>1. o.data = <<>> /\ o.line = <<>> /\ Len(<<>>) = 0
    BY <1>1, <1>4 DEF Held
  <2> QED BY <1>2, <1>3, <2>1, Consts DEF Retained
<1>5. CASE ~o.discarding
  BY <1>1, <1>2, <1>3, <1>5 DEF Held, Retained
<1> QED BY <1>2, <1>4, <1>5

(* The invariant bounds the memory.                                           *)
LEMMA TracedBounded == Traced => MemoryBounded
<1> SUFFICES ASSUME Traced PROVE MemoryBounded
  OBVIOUS
<1>1. \E f \in Seq(Byte) : Sound(obs, f)
  BY NoBytes DEF Traced
<1>2. /\ Retained(obs) <= MaxEvent /\ (obs.discarding => Retained(obs) = 0)
      /\ obs.events \in Nat /\ Len(obs.state.order) = Len(obs.state.finish)
  BY <1>1, SoundBounded
<1>3. outcome # None => \A x \in Field : result.usage[x].kind \in Kinds
  <2>1. CASE outcome \in Outcome
    <3>1. Sound(obs, fed) /\ fed \in Seq(Byte) /\ result = FinishStream(obs, outcome)
      BY <2>1, OutcomesDiffer DEF Traced
    <3> QED BY <2>1, <3>1, FinishKept
  <2>2. CASE outcome = "body"
    <3>1. PICK b \in Json \cup {Text} : result = ObserveBuffered(b)
      BY <2>2 DEF Traced
    <3> QED BY <3>1, BodyReported
  <2> QED BY <2>1, <2>2 DEF Traced
<1>4. outcome # None => UsageMetrics(result.usage) \in [Field -> Kinds]
  BY <1>3 DEF UsageMetrics
<1>5. TypeOK
  BY <1>2, <1>4 DEF TypeOK, Traced, Kinds
<1> QED BY <1>2, <1>5 DEF MemoryBounded, RetainedBounded

(* And what is reported.                                                      *)
LEMMA TracedExact == Traced => ReportedExactly
<1> SUFFICES ASSUME Traced PROVE ReportedExactly
  OBVIOUS
<1>1. CASE outcome \in Outcome
  <2> DEFINE how == outcome
             r == result
  <2>1. Sound(obs, fed) /\ fed \in Seq(Byte) /\ r = FinishStream(obs, how) /\ how # "body" /\ how # None
    BY <1>1, OutcomesDiffer DEF Traced
  <2>2. Cut(fed) <=> Unterminated(obs)
    BY <2>1, CutKnown
  <2>3. /\ Consistent(r.usage)
        /\ how # "completed" \/ Unterminated(obs) =>
              /\ r.tools.kind = "unavailable"
              /\ \A i \in DOMAIN r.finish : r.finish[i].kind = "unavailable"
              /\ r.usage.completion.kind # "estimated"
        /\ how \in {"disconnected", "truncated"} => r.usage = UnavailableUsage
    <3>1. how \in Outcome
      BY <1>1
    <3> HIDE DEF how, r
    <3> QED BY <2>1, <3>1, FinishKept
  <2>4. PartialClaimsNothing
    BY <2>2, <2>3 DEF PartialClaimsNothing
  <2>5. UsageConsistent
    BY <2>3 DEF UsageConsistent, Consistent
  <2>6. CallsAreSubstance
    BY <2>1 DEF CallsAreSubstance
  <2>7. CompleteIsExact
    <3> SUFFICES ASSUME outcome = "completed", ~Cut(fed)
                 PROVE  /\ r.usage = Reference(fed).usage /\ r.tools = Reference(fed).tools
                        /\ \A i \in DOMAIN r.finish : r.finish[i] = Reference(fed).finish[i]
                        /\ Cardinality(DOMAIN r.finish) =
                             IF Cardinality(DOMAIN Reference(fed).finish) > MaxIndexed
                             THEN MaxIndexed ELSE Cardinality(DOMAIN Reference(fed).finish)
      BY DEF CompleteIsExact
    <3>1. ~Unterminated(obs) /\ r = FinishStream(obs, "completed")
      BY <2>1, <2>2
    <3> HIDE DEF r
    <3> QED BY <2>1, <3>1, Exact
  <2> QED BY <2>4, <2>5, <2>6, <2>7 DEF ReportedExactly
<1>2. CASE outcome = "body"
  <2>1. PICK b \in Json \cup {Text} : fed = <<b>> /\ result = ObserveBuffered(b)
    BY <1>2 DEF Traced
  <2>2. /\ Consistent(result.usage)
        /\ Measured(result.tools) /\ result.tools.value > 0 => HasSubstance(b)
    BY <2>1, BodyReported
  <2>3. fed[1] = b /\ outcome # "completed"
    BY <1>2, <2>1
  <2>4. CompleteIsExact /\ PartialClaimsNothing
    BY <1>2, <2>3 DEF CompleteIsExact, PartialClaimsNothing
  <2>5. UsageConsistent
    BY <2>2 DEF UsageConsistent, Consistent
  <2>6. CallsAreSubstance
    BY <2>2, <2>3 DEF CallsAreSubstance
  <2> QED BY <2>4, <2>5, <2>6 DEF ReportedExactly
<1>3. CASE outcome = None
  <2>1. outcome # "completed" /\ outcome # "body"
    BY <1>3, OutcomesDiffer DEF Outcome
  <2>2. CompleteIsExact /\ PartialClaimsNothing /\ UsageConsistent /\ CallsAreSubstance
    BY <1>3, <2>1 DEF CompleteIsExact, PartialClaimsNothing, UsageConsistent, CallsAreSubstance
  <2> QED BY <2>2 DEF ReportedExactly
<1> QED BY <1>1, <1>2, <1>3 DEF Traced

-----------------------------------------------------------------------------
(* SseObserver never holds more than MAX_EVENT_BYTES of a stream and nothing  *)
(* of an event it discards, for any stream in any chunks.                     *)
THEOREM MemoryTheorem == Spec => []MemoryBounded
<1>1. Spec => []Traced
  BY InitTraced, NextTraced, PTL DEF Spec
<1> QED BY <1>1, TracedBounded, PTL

(* SseObserver::finish and observe_buffered: what is published of an answer is *)
(* what its bytes say, however they were cut into chunks, lines and events,    *)
(* at whatever caps; of a part of one, nothing is.                            *)
THEOREM ReportedTheorem == Spec => []ReportedExactly
<1>1. Spec => []Traced
  BY InitTraced, NextTraced, PTL DEF Spec
<1> QED BY <1>1, TracedExact, PTL

=============================================================================
