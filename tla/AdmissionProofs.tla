--------------------------- MODULE AdmissionProofs ---------------------------
(***************************************************************************)
(* Which provider a request goes to, and when it is admitted to a model: the  *)
(* guarantees of Selection and of Governor, whose state is apart.            *)
(*                                                                         *)
(* Selection, for any providers, stores, samples and numbers of requests.    *)
(* Lists are built by recursion, and what they hold is proved by induction   *)
(* over a set of positions.  A rank in a weak order is a bijection, so the   *)
(* sort keeps every candidate once.  The leaders of the round-robin orders   *)
(* stand one behind the other before the counter, and the counter wraps at a *)
(* multiple of every list's length.  What select has read of a provider at    *)
(* different moments is still true of it at the end if nothing happened to it *)
(* (Calm): that is the invariant behind the choice.                          *)
(*                                                                         *)
(* The governor, for any number of requests, any pins and any periods.  The  *)
(* snapshot is part of the inductive invariant: in whole seconds it is never  *)
(* more than one ahead of the live state, so what a restart brings back ages. *)
(***************************************************************************)
EXTENDS Selection, Governor, FiniteSetTheorems, WellFoundedInduction, TLAPS

(* Induction up to a number, over a set.                                      *)
LEMMA Induct ==
  ASSUME NEW m \in Nat, NEW Q, 0 \in Q, \A n \in 1..m : n - 1 \in Q => n \in Q
  PROVE  \A n \in 0..m : n \in Q
<1> DEFINE Bad == {n \in 0..m : n \notin Q}
<1> SUFFICES ASSUME Bad # {} PROVE FALSE
  OBVIOUS
<1>1. IsWellFoundedOn(OpToRel(<, Nat), Nat)
  BY NatLessThanWellFounded
<1>2. Bad \in SUBSET Nat
  OBVIOUS
<1>3. PICK n \in Bad : \A k \in Bad : ~(<<k, n>> \in OpToRel(<, Nat))
  <2> HIDE DEF Bad
  <2> QED BY <1>1, <1>2, WFMin
<1>4. \A k \in Bad : ~(k < n)
  BY <1>2, <1>3 DEF OpToRel
<1>5. n # 0 /\ n \in 1..m /\ n - 1 \in 0..m
  OBVIOUS
<1>6. n - 1 \notin Bad
  BY <1>4, <1>5
<1> QED BY <1>5, <1>6

(* F begins with v, and G gives each value from the one before it.            *)
Follows(F, V, m, v, G) ==
  F \in [0..m -> V] /\ F[0] = v /\ \A n \in 1..m : F[n] = G[n][F[n - 1]]

(* A function may be defined by such a recursion.                            *)
LEMMA Recursion ==
  ASSUME NEW V, NEW m \in Nat, NEW v \in V, NEW G \in [1..m -> [V -> V]]
  PROVE  \E F : Follows(F, V, m, v, G)
<1> DEFINE OK(F, k) == /\ F \in [0..k -> V] /\ F[0] = v
                       /\ \A n \in 1..k : F[n] = G[n][F[n - 1]]
           Q == {k \in 0..m : \E F : OK(F, k)}
<1>1. 0 \in Q
  <2> DEFINE F == [n \in 0..0 |-> v]
  <2>1. OK(F, 0)
    OBVIOUS
  <2> HIDE DEF OK
  <2> QED BY <2>1
<1>2. ASSUME NEW k \in 1..m, k - 1 \in Q PROVE k \in Q
  <2>1. PICK F : OK(F, k - 1)
    BY <1>2
  <2> DEFINE H == [n \in 0..k |-> IF n = k THEN G[k][F[k - 1]] ELSE F[n]]
  <2>2. k \in Nat /\ k # 0 /\ k - 1 \in 0..(k - 1) /\ F[k - 1] \in V
    BY <2>1
  <2>3. G[k][F[k - 1]] \in V
    BY <2>2
  <2>4. \A n \in 0..k : n # k => n \in 0..(k - 1)
    BY <2>2
  <2>5. H \in [0..k -> V] /\ H[0] = v
    BY <2>1, <2>2, <2>3, <2>4
  <2>6. ASSUME NEW n \in 1..k PROVE H[n] = G[n][H[n - 1]]
    <3>1. n - 1 \in 0..k /\ n - 1 # k /\ H[n - 1] = F[n - 1] /\ n \in 0..k
      BY <2>2
    <3>2. CASE n = k
      BY <3>1, <3>2
    <3>3. CASE n # k
      <4>1. n \in 1..(k - 1)
        BY <2>2, <3>3
      <4>2. F[n] = G[n][F[n - 1]]
        BY <2>1, <4>1
      <4> QED BY <3>1, <3>3, <4>2
    <3> QED BY <3>2, <3>3
  <2> HIDE DEF H
  <2>7. OK(H, k)
    BY <2>5, <2>6
  <2> HIDE DEF OK
  <2> QED BY <2>7
<1>3. m \in Q
  <2> HIDE DEF Q
  <2>1. \A n \in 0..m : n \in Q
    BY <1>1, <1>2, Induct
  <2> QED BY <2>1
<1> QED BY <1>3 DEF Follows

-----------------------------------------------------------------------------
(* Lists without repetition.                                                *)
Once(s) == \A i, j \in 1..Len(s) : s[i] = s[j] => i = j

(* A one-to-one map of a finite set into one no larger reaches all of it.     *)
LEMMA Permuted ==
  ASSUME NEW n \in Nat, NEW f \in [1..n -> 1..n], \A i, j \in 1..n : f[i] = f[j] => i = j
  PROVE  \A y \in 1..n : \E i \in 1..n : f[i] = y
<1>1. IsFiniteSet(1..n)
  BY FS_Interval
<1>2. f \in Injection(1..n, 1..n)
  BY DEF Injection, IsInjective
<1>3. f \in Surjection(1..n, 1..n)
  BY <1>1, <1>2, FS_Injection
<1> QED BY <1>3 DEF Surjection

(* A list without repetition is no longer than there are members.            *)
LEMMA Short ==
  ASSUME NEW S, IsFiniteSet(S), NEW s \in Seq(S), Once(s)
  PROVE  Len(s) <= Cardinality(S)
<1>1. Len(s) \in Nat /\ s \in [1..Len(s) -> S]
  OBVIOUS
<1>2. s \in Injection(1..Len(s), S)
  BY <1>1 DEF Injection, IsInjective, Once
<1>3. Cardinality(1..Len(s)) <= Cardinality(S)
  BY <1>2, FS_Injection
<1>4. Cardinality(1..Len(s)) = Len(s)
  <2>1. 1 \in Int /\ Len(s) \in Int
    BY <1>1
  <2>2. Cardinality(1..Len(s)) = IF 1 > Len(s) THEN 0 ELSE Len(s) - 1 + 1
    BY <2>1, FS_Interval
  <2> QED BY <1>1, <2>2
<1> QED BY <1>3, <1>4

(* The arrangements of a finite set have each of its members once.           *)
LEMMA Arranged ==
  ASSUME NEW S, IsFiniteSet(S), NEW s \in SetToSeqs(S)
  PROVE  s \in Seq(S) /\ Once(s) /\ ToSet(s) = S
<1> DEFINE n == Cardinality(S)
<1>1. n \in Nat
  BY FS_CardinalityType
<1>2. s \in [1..n -> S] /\ \A i, j \in 1..n : i # j => s[i] # s[j]
  BY DEF SetToSeqs
<1>3. Cardinality(1..n) = n
  <2>1. 1 \in Int /\ n \in Int
    BY <1>1
  <2> HIDE DEF n
  <2>2. Cardinality(1..n) = IF 1 > n THEN 0 ELSE n - 1 + 1
    BY <2>1, FS_Interval
  <2> QED BY <1>1, <2>2
<1>4. s \in Injection(1..n, S)
  BY <1>2 DEF Injection, IsInjective
<1>5. s \in Surjection(1..n, S)
  BY <1>3, <1>4, FS_Injection
<1> HIDE DEF n
<1>6. s \in Seq(S) /\ Len(s) = n
  BY <1>1, <1>2
<1>7. ToSet(s) = S
  BY <1>2, <1>5 DEF Surjection, ToSet
<1> QED BY <1>2, <1>6, <1>7 DEF Once

(* One position of Filtered.                                                *)
Passed(T, f, x) == IF x \in T THEN Append(f, x) ELSE f

(* The first n members of s that are in T.                                  *)
Part(f, S, s, T, n) ==
  /\ f \in Seq(S)
  /\ \A x : x \in ToSet(f) <=> x \in T /\ \E i \in 1..n : s[i] = x
  /\ Once(s) => Once(f)

(* One position more.                                                       *)
LEMMA PartStep ==
  ASSUME NEW S, NEW s \in Seq(S), NEW T, NEW n \in 1..Len(s), NEW f, Part(f, S, s, T, n - 1)
  PROVE  Part(Passed(T, f, s[n]), S, s, T, n)
<1>1. /\ f \in Seq(S) /\ Len(f) \in Nat /\ Len(s) \in Nat /\ n \in Nat /\ s[n] \in S
      /\ \A x : x \in ToSet(f) <=> x \in T /\ \E i \in 1..(n - 1) : s[i] = x
      /\ Once(s) => Once(f)
  BY DEF Part
<1>2. \A i : i \in 1..n <=> i \in 1..(n - 1) \/ i = n
  BY <1>1
<1>3. CASE s[n] \notin T
  BY <1>1, <1>2, <1>3 DEF Part, Passed
<1>4. CASE s[n] \in T
  <2> DEFINE g == Append(f, s[n])
  <2>1. /\ g \in Seq(S) /\ Len(g) = Len(f) + 1 /\ g[Len(f) + 1] = s[n]
        /\ \A i \in 1..Len(f) : g[i] = f[i]
    BY <1>1
  <2>2. \A i : i \in 1..Len(g) <=> i \in 1..Len(f) \/ i = Len(f) + 1
    BY <1>1, <2>1
  <2> HIDE DEF g
  <2>3. DOMAIN f = 1..Len(f) /\ DOMAIN g = 1..Len(g)
    BY <1>1, <2>1
  <2>4. \A x : x \in ToSet(g) <=> x \in ToSet(f) \/ x = s[n]
    BY <2>1, <2>2, <2>3 DEF ToSet
  <2>5. \A x : x \in ToSet(g) <=> x \in T /\ \E i \in 1..n : s[i] = x
    BY <1>1, <1>2, <1>4, <2>4
  <2>6. ASSUME Once(s) PROVE Once(g)
    <3>1. \A i \in 1..(n - 1) : s[i] # s[n]
      BY <1>1, <2>6 DEF Once
    <3>2. s[n] \notin ToSet(f)
      BY <1>1, <3>1
    <3>3. \A i \in 1..Len(f) : f[i] # s[n]
      BY <2>3, <3>2 DEF ToSet
    <3>4. \A i \in 1..Len(f) : i # Len(f) + 1
      BY <1>1
    <3> QED BY <1>1, <2>1, <2>2, <2>6, <3>3, <3>4 DEF Once
  <2>7. Part(g, S, s, T, n)
    BY <2>1, <2>5, <2>6 DEF Part
  <2> QED BY <1>4, <2>7 DEF g, Passed
<1> QED BY <1>3, <1>4

(* Filtered keeps exactly the members in T.                                  *)
LEMMA FilteredIs ==
  ASSUME NEW S, NEW s \in Seq(S), NEW T
  PROVE  /\ Filtered(s, T) \in Seq(S)
         /\ \A x : x \in ToSet(Filtered(s, T)) <=> x \in ToSet(s) /\ x \in T
         /\ Once(s) => Once(Filtered(s, T))
<1> DEFINE m == Len(s)
           D(F) == F = [n \in 0..m |-> IF n = 0 THEN <<>>
                                       ELSE IF s[n] \in T THEN Append(F[n - 1], s[n])
                                       ELSE F[n - 1]]
           A == CHOOSE F : D(F)
           G == [n \in 1..m |-> [f \in Seq(S) |-> Passed(T, f, s[n])]]
<1>1. m \in Nat /\ \A n \in 1..m : s[n] \in S
  OBVIOUS
<1>2. Filtered(s, T) = A[m]
  BY Zenon DEF Filtered
<1>3. D(A)
  <2>1. G \in [1..m -> [Seq(S) -> Seq(S)]]
    BY <1>1 DEF Passed
  <2>0. PICK F : Follows(F, Seq(S), m, <<>>, G)
    <3>1. <<>> \in Seq(S)
      OBVIOUS
    <3> HIDE DEF G, m
    <3> QED BY <1>1, <2>1, <3>1, Recursion
  <2>2. F \in [0..m -> Seq(S)] /\ F[0] = <<>> /\ \A n \in 1..m : F[n] = G[n][F[n - 1]]
    BY <2>0 DEF Follows
  <2>3. ASSUME NEW n \in 0..m
        PROVE  F[n] = IF n = 0 THEN <<>> ELSE IF s[n] \in T THEN Append(F[n - 1], s[n])
                                         ELSE F[n - 1]
    <3>1. CASE n = 0
      BY <2>2, <3>1
    <3>2. CASE n # 0
      <4>1. n \in 1..m /\ n - 1 \in 0..m
        BY <1>1, <3>2
      <4>2. F[n - 1] \in Seq(S)
        BY <2>2, <4>1
      <4>3. G[n][F[n - 1]] = Passed(T, F[n - 1], s[n])
        BY <4>1, <4>2
      <4> QED BY <2>2, <3>2, <4>1, <4>3 DEF Passed
    <3> QED BY <3>1, <3>2
  <2>4. D(F)
    BY <2>2, <2>3
  <2> HIDE DEF D
  <2> QED BY <2>4
<1> HIDE DEF A, G, m
<1>4. A[0] = <<>> /\ \A n \in 1..m : A[n] = Passed(T, A[n - 1], s[n])
  <2>1. \A n \in 0..m : A[n] = IF n = 0 THEN <<>>
                               ELSE IF s[n] \in T THEN Append(A[n - 1], s[n]) ELSE A[n - 1]
    BY <1>3
  <2> QED BY <1>1, <2>1 DEF Passed
<1> DEFINE Q == {n \in 0..m : Part(A[n], S, s, T, n)}
<1>5. 0 \in Q
  <2>1. <<>> \in Seq(S) /\ ToSet(<<>>) = {} /\ Once(<<>>)
    BY DEF ToSet, Once
  <2>2. Part(<<>>, S, s, T, 0)
    BY <2>1 DEF Part
  <2> QED BY <1>1, <1>4, <2>2
<1>6. ASSUME NEW n \in 1..m, n - 1 \in Q PROVE n \in Q
  <2>1. n \in 1..Len(s) /\ n \in 0..m
    BY <1>1 DEF m
  <2> QED BY <1>4, <1>6, <2>1, PartStep
<1>7. Part(A[m], S, s, T, m)
  <2> HIDE DEF Q
  <2>1. \A n \in 0..m : n \in Q
    BY <1>1, <1>5, <1>6, Induct
  <2> QED BY <1>1, <2>1 DEF Q
<1>8. \A x : x \in ToSet(s) <=> \E i \in 1..m : s[i] = x
  BY DEF ToSet, m
<1> QED BY <1>2, <1>7, <1>8 DEF Part

-----------------------------------------------------------------------------
(* A stable sort.  Among the places of the list, Earlier is a total order when *)
(* what it sorts by is a weak one.                                           *)
Weak(before) ==
  \A p, q, r \in Provider :
    /\ <<p, q>> \in before => <<q, p>> \notin before
    /\ <<p, r>> \in before => <<p, q>> \in before \/ <<q, r>> \in before

(* Earlier is a strict linear order of the positions.                        *)
LEMMA EarlierOrders ==
  ASSUME NEW rts \in Seq(Provider), NEW before, Weak(before),
         NEW i \in 1..Len(rts), NEW j \in 1..Len(rts), NEW k \in 1..Len(rts)
  PROVE  /\ i # j => Earlier(rts, before, i, j) \/ Earlier(rts, before, j, i)
         /\ i # j => ~(Earlier(rts, before, i, j) /\ Earlier(rts, before, j, i))
         /\ Earlier(rts, before, i, j) /\ Earlier(rts, before, j, k)
              => Earlier(rts, before, i, k)
<1>1. rts[i] \in Provider /\ rts[j] \in Provider /\ rts[k] \in Provider
  OBVIOUS
<1>2. i \in Nat /\ j \in Nat /\ k \in Nat
  OBVIOUS
<1>3. /\ i # j => Earlier(rts, before, i, j) \/ Earlier(rts, before, j, i)
      /\ i # j => ~(Earlier(rts, before, i, j) /\ Earlier(rts, before, j, i))
  <2>1. <<rts[i], rts[j]>> \in before => <<rts[j], rts[i]>> \notin before
    BY <1>1 DEF Weak
  <2>2. i # j => (i < j <=> ~(j < i))
    BY <1>2
  <2> QED BY <2>1, <2>2 DEF Earlier
<1>4. ASSUME Earlier(rts, before, i, j), Earlier(rts, before, j, k)
      PROVE  Earlier(rts, before, i, k)
  <2> DEFINE P == rts[i]
             O == rts[j]
             R == rts[k]
  <2>1. /\ <<P, O>> \in before \/ (<<O, P>> \notin before /\ i < j)
        /\ <<O, R>> \in before \/ (<<R, O>> \notin before /\ j < k)
    BY <1>4 DEF Earlier
  <2> HIDE DEF P, O, R
  <2>2. P \in Provider /\ O \in Provider /\ R \in Provider
    BY <1>1 DEF P, O, R
  <2>3. /\ <<P, O>> \in before => <<P, R>> \in before \/ <<R, O>> \in before
        /\ <<O, R>> \in before => <<O, P>> \in before \/ <<P, R>> \in before
        /\ <<R, P>> \in before => <<R, O>> \in before \/ <<O, P>> \in before
        /\ <<P, O>> \in before => <<O, P>> \notin before
        /\ <<O, R>> \in before => <<R, O>> \notin before
    BY <2>2 DEF Weak
  <2>4. i < j /\ j < k => i < k
    BY <1>2
  <2>5. <<P, R>> \in before \/ (<<R, P>> \notin before /\ i < k)
    BY <2>1, <2>3, <2>4
  <2> QED BY <2>5 DEF Earlier, P, R
<1> QED BY <1>3, <1>4

(* So each has a rank of its own.                                            *)
LEMMA RankIs ==
  ASSUME NEW rts \in Seq(Provider), NEW before, Weak(before), NEW i \in 1..Len(rts)
  PROVE  /\ Rank(rts, before, i) \in 1..Len(rts)
         /\ \A k \in 1..Len(rts) : i # k /\ Earlier(rts, before, i, k) =>
              Rank(rts, before, i) < Rank(rts, before, k)
<1> DEFINE n == Len(rts)
           Ahead(k) == {j \in 1..n : j # k /\ Earlier(rts, before, j, k)}
<1>1. n \in Nat /\ DOMAIN rts = 1..n /\ IsFiniteSet(1..n) /\ Cardinality(1..n) = n
  <2>1. n \in Nat /\ DOMAIN rts = 1..n
    OBVIOUS
  <2> HIDE DEF n
  <2>2. /\ IsFiniteSet(1..n)
        /\ Cardinality(1..n) = IF 1 > n THEN 0 ELSE n - 1 + 1
    BY <2>1, FS_Interval
  <2> QED BY <2>1, <2>2
<1>2. \A k \in 1..n : Rank(rts, before, k) = Cardinality(Ahead(k)) + 1
  BY <1>1 DEF Rank
<1>3. ASSUME NEW k \in 1..n PROVE IsFiniteSet(Ahead(k)) /\ Cardinality(Ahead(k)) \in Nat
  <2>1. Ahead(k) \in SUBSET (1..n)
    OBVIOUS
  <2> HIDE DEF Ahead
  <2>2. IsFiniteSet(Ahead(k))
    BY <1>1, <2>1, FS_Subset
  <2> QED BY <2>2, FS_CardinalityType
<1>4. Cardinality(Ahead(i)) + 1 <= n
  <2>1. Ahead(i) \in SUBSET (1..n \ {i}) /\ i \in 1..n
    OBVIOUS
  <2> HIDE DEF Ahead
  <2>2. IsFiniteSet(1..n \ {i}) /\ Cardinality(1..n \ {i}) = n - 1
    BY <1>1, <2>1, FS_RemoveElement
  <2>3. Cardinality(Ahead(i)) <= n - 1
    BY <2>1, <2>2, FS_Subset
  <2> QED BY <1>1, <1>3, <2>1, <2>3
<1>5. ASSUME NEW k \in 1..n, i # k, Earlier(rts, before, i, k)
      PROVE  Cardinality(Ahead(i)) < Cardinality(Ahead(k))
  <2>1. Ahead(i) \cup {i} \in SUBSET Ahead(k)
    <3> SUFFICES ASSUME NEW j \in Ahead(i) \cup {i} PROVE j \in Ahead(k)
      OBVIOUS
    <3>1. CASE j = i
      BY <1>5, <3>1
    <3>2. CASE j \in 1..n /\ j # i /\ Earlier(rts, before, j, i)
      <4>1. Earlier(rts, before, j, k)
        BY <1>5, <3>2, EarlierOrders
      <4>2. j # k
        BY <1>5, <3>2, EarlierOrders
      <4> QED BY <3>2, <4>1, <4>2
    <3> QED BY <3>1, <3>2
  <2>2. i \notin Ahead(i) /\ i \in 1..n
    OBVIOUS
  <2> HIDE DEF Ahead
  <2>3. Cardinality(Ahead(i) \cup {i}) = Cardinality(Ahead(i)) + 1
    BY <1>3, <2>2, FS_AddElement
  <2>4. Cardinality(Ahead(i) \cup {i}) <= Cardinality(Ahead(k))
    BY <1>3, <1>5, <2>1, FS_Subset
  <2>5. Cardinality(Ahead(i)) \in Nat /\ Cardinality(Ahead(k)) \in Nat
    BY <1>3, <1>5, <2>2
  <2> QED BY <2>3, <2>4, <2>5
<1> HIDE DEF Ahead
<1>6. Rank(rts, before, i) \in 1..n
  BY <1>1, <1>2, <1>3, <1>4
<1>7. ASSUME NEW k \in 1..n, i # k, Earlier(rts, before, i, k)
      PROVE  Rank(rts, before, i) < Rank(rts, before, k)
  <2>1. Cardinality(Ahead(i)) \in Nat /\ Cardinality(Ahead(k)) \in Nat
    BY <1>3
  <2> QED BY <1>2, <1>5, <1>7, <2>1
<1> QED BY <1>6, <1>7

(* Sorted has the members of the list, and none before one it comes after.    *)
LEMMA SortedIs ==
  ASSUME NEW rts \in Seq(Provider), NEW before, Weak(before), NEW s, s = Sorted(rts, before)
  PROVE  /\ s \in Seq(Provider) /\ ToSet(s) = ToSet(rts) /\ (Once(rts) => Once(s))
         /\ \A i, j \in 1..Len(s) : i < j => <<s[j], s[i]>> \notin before
<1> DEFINE n == Len(rts)
           f == [i \in 1..n |-> Rank(rts, before, i)]
           at == [y \in 1..n |-> CHOOSE i \in 1..n : Rank(rts, before, i) = y]
<1>1. n \in Nat /\ DOMAIN rts = 1..n
  OBVIOUS
<1>2. f \in [1..n -> 1..n] /\ \A i \in 1..n : f[i] = Rank(rts, before, i)
  BY RankIs
<1>3. \A i, k \in 1..n : i # k /\ Earlier(rts, before, i, k) => f[i] < f[k]
  BY <1>2, RankIs
<1> HIDE DEF f, n
<1>4. ASSUME NEW i \in 1..n, NEW k \in 1..n, f[i] = f[k] PROVE i = k
  <2> SUFFICES ASSUME i # k PROVE FALSE
    OBVIOUS
  <2>1. Earlier(rts, before, i, k) \/ Earlier(rts, before, k, i)
    BY EarlierOrders DEF n
  <2>2. f[i] \in Nat /\ f[k] \in Nat
    BY <1>2
  <2> QED BY <1>3, <1>4, <2>1, <2>2
<1>5. \A y \in 1..n : \E i \in 1..n : f[i] = y
  BY <1>1, <1>2, <1>4, Permuted
<1>6. \A y \in 1..n : at[y] \in 1..n /\ f[at[y]] = y
  BY <1>2, <1>5
<1>7. s = [y \in 1..n |-> rts[at[y]]]
  BY <1>1 DEF Sorted
<1> HIDE DEF at
<1>8. \A y \in 1..n : s[y] = rts[at[y]] /\ rts[at[y]] \in Provider
  BY <1>1, <1>6, <1>7 DEF n
<1>9. s \in Seq(Provider) /\ Len(s) = n
  <2>1. s \in [1..n -> Provider]
    BY <1>7, <1>8
  <2> QED BY <1>1, <2>1
<1>10. ToSet(s) = ToSet(rts)
  <2>1. \A i \in 1..n : f[i] \in 1..n /\ at[f[i]] = i
    BY <1>2, <1>4, <1>6
  <2>2. \A i \in 1..n : s[f[i]] = rts[i]
    BY <1>8, <2>1
  <2>3. DOMAIN s = 1..n
    BY <1>9
  <2> QED BY <1>1, <1>2, <1>6, <1>8, <2>2, <2>3 DEF ToSet
<1>11. Once(rts) => Once(s)
  <2> SUFFICES ASSUME Once(rts), NEW y \in 1..n, NEW z \in 1..n, s[y] = s[z] PROVE y = z
    BY <1>9 DEF Once
  <2>1. at[y] = at[z]
    BY <1>6, <1>8 DEF Once, n
  <2> QED BY <1>6, <2>1
<1>12. ASSUME NEW y \in 1..n, NEW z \in 1..n, y < z PROVE <<s[z], s[y]>> \notin before
  <2>1. at[y] # at[z] /\ at[y] \in 1..n /\ at[z] \in 1..n
    BY <1>6, <1>12
  <2>2. ~Earlier(rts, before, at[z], at[y])
    BY <1>3, <1>6, <1>12, <2>1
  <2> QED BY <1>8, <2>2 DEF Earlier
<1> QED BY <1>9, <1>10, <1>11, <1>12

-----------------------------------------------------------------------------
(* The configuration.                                                       *)
Models == Model \cup {Wild, Free}

(* The assumptions the proofs use.                                           *)
LEMMA Assumed ==
  /\ Upstream \in Provider /\ IsFiniteSet(Provider) /\ Cardinality(Provider) \in Nat
  /\ Elo \in [Provider -> Int] /\ Samples \subseteq Nat /\ IsFiniteSet(Samples)
  /\ Period \in Nat \ {0} /\ \A n \in 1..Cardinality(Provider) : Period % n = 0
  /\ Ttl \in Nat \ {0} /\ Decay \in Nat \ {0}
BY SelectionAssumption, FS_CardinalityType

(* What a saved configuration is.                                            *)
LEMMA StoreIs ==
  ASSUME NEW s \in Stores
  PROVE  /\ s.strategy \in Strategy /\ s.defs \in Seq(ToSet(s.defs))
         /\ \A d \in ToSet(s.defs) : d.name \in Provider /\ ProviderDef(d)
         /\ \A i, j \in 1..Len(s.defs) : s.defs[i].name = s.defs[j].name => i = j
<1>1. Valid(s)
  BY SelectionAssumption
<1>2. s.strategy \in Strategy /\ s.defs \in Seq(ToSet(s.defs))
  BY <1>1 DEF Valid
<1>3. \A d \in ToSet(s.defs) : d.name \in Provider /\ ProviderDef(d)
  BY <1>1 DEF Valid, ProviderDef
<1>4. DOMAIN s.defs = 1..Len(s.defs)
  BY <1>2
<1>5. \A i, j \in 1..Len(s.defs) : s.defs[i].name = s.defs[j].name => i = j
  BY <1>1, <1>4 DEF Valid, IsInjective
<1> QED BY <1>2, <1>3, <1>5

(* The definition behind a runtime.                                          *)
LEMMA DefIs ==
  ASSUME store \in Stores, NEW p \in Runtimes
  PROVE  /\ Def(p) \in Active(store) /\ Def(p).name = p /\ p \in Provider
         /\ ProviderDef(Def(p))
<1>1. Def(p) \in Active(store) /\ Def(p).name = p
  BY DEF Def, Runtimes
<1>2. Def(p) \in ToSet(store.defs)
  BY <1>1 DEF Active
<1> QED BY <1>1, <1>2, StoreIs

(* The runtimes, each once.                                                  *)
LEMMA OrderIs ==
  ASSUME store \in Stores
  PROVE  Order \in Seq(Provider) /\ Once(Order) /\ ToSet(Order) = Runtimes
<1> DEFINE defs == store.defs
           names == [i \in DOMAIN defs |-> defs[i].name]
<1>1. /\ defs \in Seq(ToSet(defs)) /\ \A d \in ToSet(defs) : d.name \in Provider
      /\ \A i, j \in 1..Len(defs) : defs[i].name = defs[j].name => i = j
  BY StoreIs
<1>2. Len(defs) \in Nat /\ DOMAIN defs = 1..Len(defs)
  BY <1>1
<1>3. \A i \in 1..Len(defs) : names[i] = defs[i].name /\ names[i] \in Provider
  BY <1>1, <1>2 DEF ToSet
<1>4. names \in Seq(Provider) /\ Len(names) = Len(defs)
  <2>1. names \in [1..Len(defs) -> Provider]
    BY <1>2, <1>3
  <2> HIDE DEF names
  <2> QED BY <1>2, <2>1
<1>5. Once(names)
  BY <1>1, <1>3, <1>4 DEF Once
<1>6. ToSet(names) = {d.name : d \in ToSet(defs)}
  BY <1>2 DEF ToSet
<1>7. Runtimes \subseteq ToSet(names)
  BY <1>6 DEF Runtimes, Active
<1>8. Order = Filtered(names, Runtimes)
  BY DEF Order
<1> HIDE DEF names
<1>9. /\ Order \in Seq(Provider) /\ Once(Order)
      /\ \A x : x \in ToSet(Order) <=> x \in ToSet(names) /\ x \in Runtimes
  BY <1>4, <1>5, <1>8, FilteredIs
<1> QED BY <1>7, <1>9

(* What a list of names is scoped to: a provider with one definition to read is *)
(* kept exactly when that serves.                                            *)
LEMMA ScopeIs ==
  ASSUME NEW c, c.names \in Seq(Provider), Once(c.names), NEW rts \in Scopes(c)
  PROVE  /\ rts \in Seq(Provider) /\ Once(rts)
         /\ Len(rts) \in Nat /\ Len(rts) <= Cardinality(Provider)
         /\ \A x \in ToSet(rts) : x \in c.ok /\ x \in ToSet(c.names)
         /\ \A p \in ToSet(c.names) : \A d : p \in c.ok /\ c.defs[p] = {d}
              => (p \in ToSet(rts) <=> Scoped(c, d))
<1> DEFINE low == {p \in c.ok : \A d \in c.defs[p] : Scoped(c, d)}
           high == {p \in c.ok : \E d \in c.defs[p] : Scoped(c, d)}
<1>1. PICK S \in SUBSET high : low \subseteq S /\ rts = Filtered(c.names, S)
  BY DEF Scopes, Between
<1>2. /\ rts \in Seq(Provider) /\ Once(rts)
      /\ \A x : x \in ToSet(rts) <=> x \in ToSet(c.names) /\ x \in S
  BY <1>1, FilteredIs
<1>3. Len(rts) \in Nat /\ Len(rts) <= Cardinality(Provider)
  BY <1>2, Assumed, Short
<1>4. ASSUME NEW p \in ToSet(c.names), NEW d, p \in c.ok, c.defs[p] = {d}
      PROVE  p \in S <=> Scoped(c, d)
  <2>1. (p \in low <=> Scoped(c, d)) /\ (p \in high <=> Scoped(c, d))
    BY <1>4
  <2> HIDE DEF low, high
  <2> QED BY <1>1, <2>1
<1>5. \A x \in S : x \in c.ok
  BY <1>1
<1> HIDE DEF low, high
<1> QED BY <1>2, <1>3, <1>4, <1>5

-----------------------------------------------------------------------------
(* Strategies.  A measured latency is a number, and both orders are weak.     *)
Speeds(lats) == \A p \in Provider : lats[p] # None => lats[p] \in Nat

ByLatency(lats) == {x \in Provider \X Provider : Faster(lats, x[1], x[2])}
ByHybrid(lats) == {x \in Provider \X Provider :
                     Faster(lats, x[1], x[2]) \/ Stronger(lats, x[1], x[2])}

(* What the orders say of two providers.                                     *)
LEMMA OrdersAre ==
  ASSUME NEW lats, NEW p \in Provider, NEW q \in Provider
  PROVE  /\ <<p, q>> \in ByLatency(lats) <=> Faster(lats, p, q)
         /\ <<p, q>> \in ByHybrid(lats) <=> Faster(lats, p, q) \/ Stronger(lats, p, q)
BY DEF ByLatency, ByHybrid

(* Both orders by speed are weak orders.                                     *)
LEMMA OrdersWeak ==
  ASSUME NEW lats, Speeds(lats) PROVE Weak(ByLatency(lats)) /\ Weak(ByHybrid(lats))
<1> DEFINE F(x, y) == Faster(lats, x, y)
           G(x, y) == Faster(lats, x, y) \/ Stronger(lats, x, y)
<1> SUFFICES ASSUME NEW p \in Provider, NEW q \in Provider, NEW r \in Provider
             PROVE  /\ F(p, q) => ~F(q, p)
                    /\ F(p, r) => F(p, q) \/ F(q, r)
                    /\ G(p, q) => ~G(q, p)
                    /\ G(p, r) => G(p, q) \/ G(q, r)
  BY OrdersAre DEF Weak
<1>2. \A x \in {p, q, r} : Elo[x] \in Int /\ (lats[x] # None => lats[x] \in Nat)
  BY Assumed DEF Speeds
<1>3. /\ F(p, q) => ~F(q, p)
      /\ F(p, r) => F(p, q) \/ F(q, r)
  BY <1>2 DEF Faster
<1>4. G(p, q) => ~G(q, p)
  BY <1>2 DEF Faster, Stronger
<1>5. G(p, r) => G(p, q) \/ G(q, r)
  BY <1>2 DEF Faster, Stronger
<1> QED BY <1>3, <1>4, <1>5

(* The counter among n places: each place follows the one before it, and the  *)
(* first comes after the last.                                               *)
LEMMA Remainder ==
  ASSUME NEW n \in Nat \ {0}, NEW c \in Nat
  PROVE  c % n \in 0..(n - 1) /\ \E q \in Nat : c = n * q + (c % n)
<1>1. c % n \in 0..(n - 1)
  OBVIOUS
<1>2. c = n * (c \div n) + (c % n) /\ c \div n \in Nat
  OBVIOUS
<1> QED BY <1>1, <1>2

(* A remainder is unique.                                                    *)
LEMMA RemainderOf ==
  ASSUME NEW n \in Nat \ {0}, NEW c \in Nat, NEW q \in Nat, NEW r \in 0..(n - 1), c = n * q + r
  PROVE  c % n = r
<1>1. PICK p \in Nat : c = n * p + (c % n)
  BY Remainder
<1> DEFINE s == c % n
<1>2. s \in 0..(n - 1)
  BY Remainder
<1> HIDE DEF s
<1>3. c = n * p + s
  BY <1>1 DEF s
<1>4. n * q + r = n * p + s
  BY <1>3
<1>5. n * q \in Nat /\ n * p \in Nat
  OBVIOUS
<1>6. CASE p = q
  BY <1>2, <1>4, <1>5, <1>6 DEF s
<1>7. CASE p < q
  <2>1. PICK d \in Nat : q = p + 1 + d
    <3>1. q - p - 1 \in Nat /\ q = p + 1 + (q - p - 1)
      BY <1>7
    <3> QED BY <3>1
  <2>2. n * q = n * p + n + n * d /\ n * d \in Nat
    BY <2>1
  <2> QED BY <1>2, <1>4, <1>5, <2>2
<1>8. CASE q < p
  <2>1. PICK d \in Nat : p = q + 1 + d
    <3>1. p - q - 1 \in Nat /\ p = q + 1 + (p - q - 1)
      BY <1>8
    <3> QED BY <3>1
  <2>2. n * p = n * q + n + n * d /\ n * d \in Nat
    BY <2>1
  <2> QED BY <1>2, <1>4, <1>5, <2>2
<1> QED BY <1>6, <1>7, <1>8

(* The remainder of a few more.                                              *)
LEMMA RemainderAdd ==
  ASSUME NEW n \in Nat \ {0}, NEW c \in Nat, NEW k \in 0..n
  PROVE  (c + k) % n = IF (c % n) + k < n THEN (c % n) + k ELSE (c % n) + k - n
<1> DEFINE r == c % n
<1>1. PICK q \in Nat : c = n * q + r
  BY Remainder
<1>2. r \in 0..(n - 1)
  BY Remainder
<1> HIDE DEF r
<1>3. c + k \in Nat /\ n * q \in Nat /\ r \in Nat
  BY <1>2
<1>4. CASE r + k < n
  <2>1. r + k \in 0..(n - 1) /\ c + k = n * q + (r + k)
    BY <1>1, <1>2, <1>3, <1>4
  <2>2. (c + k) % n = r + k
    BY <1>3, <2>1, RemainderOf
  <2> QED BY <1>4, <2>2 DEF r
<1>5. CASE ~(r + k < n)
  <2>1. r + k - n \in 0..(n - 1)
    BY <1>2, <1>3, <1>5
  <2>2. q + 1 \in Nat /\ n * (q + 1) = n * q + n
    OBVIOUS
  <2>3. c + k = n * (q + 1) + (r + k - n)
    BY <1>1, <1>2, <1>3, <2>2
  <2>4. (c + k) % n = r + k - n
    BY <1>3, <2>1, <2>2, <2>3, RemainderOf
  <2> QED BY <1>5, <2>4 DEF r
<1> QED BY <1>4, <1>5

(* The round-robin order begins at the counter and goes around once.          *)
LEMMA TurnIs ==
  ASSUME NEW rts \in Seq(Provider), rts # <<>>, counter \in Nat,
         NEW s, s = OrderRoundRobin(rts)
  PROVE  /\ s \in Seq(Provider) /\ ToSet(s) = ToSet(rts) /\ (Once(rts) => Once(s))
         /\ s[1] = rts[(counter % Len(rts)) + 1]
<1> DEFINE n == Len(rts)
           r == counter % n
           at == [i \in 1..n |-> ((counter + i - 1) % n) + 1]
<1>1. n \in Nat \ {0} /\ DOMAIN rts = 1..n /\ 1 \in 1..n
  OBVIOUS
<1>2. r \in 0..(n - 1) /\ r \in Nat
  <2>1. n \in Nat \ {0}
    BY <1>1
  <2> HIDE DEF n
  <2>2. r \in 0..(n - 1)
    BY <2>1, Remainder
  <2> HIDE DEF r
  <2> QED BY <2>1, <2>2
<1>3. s = [i \in 1..n |-> rts[at[i]]]
  BY <1>1 DEF OrderRoundRobin
<1>4. ASSUME NEW i \in 1..n
      PROVE  at[i] = IF r + (i - 1) < n THEN r + i ELSE r + i - n
  <2>1. i - 1 \in 0..n /\ counter + i - 1 = counter + (i - 1)
    BY <1>1
  <2> DEFINE k == i - 1
  <2> HIDE DEF n, k
  <2>2. (counter + k) % n = IF r + k < n THEN r + k ELSE r + k - n
    BY <1>1, <2>1, RemainderAdd DEF k
  <2>3. at[i] = ((counter + k) % n) + 1
    BY <2>1 DEF k
  <2> HIDE DEF r
  <2> QED BY <1>1, <1>2, <2>2, <2>3 DEF k
<1> HIDE DEF at, r, n
<1>5. \A i \in 1..n : at[i] \in 1..n
  BY <1>1, <1>2, <1>4
<1>6. ASSUME NEW i \in 1..n, NEW j \in 1..n, at[i] = at[j] PROVE i = j
  <2>1. /\ at[i] = IF r + (i - 1) < n THEN r + i ELSE r + i - n
        /\ at[j] = IF r + (j - 1) < n THEN r + j ELSE r + j - n
    BY <1>4
  <2>2. /\ i \in Int /\ j \in Int /\ n \in Int /\ r \in Int
        /\ i >= 1 /\ i <= n /\ j >= 1 /\ j <= n /\ r >= 0 /\ r < n
    BY <1>1, <1>2
  <2>3. CASE r + (i - 1) < n
    <3>1. at[j] = r + i
      BY <1>6, <2>1, <2>3
    <3> QED BY <2>1, <2>2, <2>3, <3>1
  <2>4. CASE ~(r + (i - 1) < n)
    <3>1. at[j] = r + i - n
      BY <1>6, <2>1, <2>4
    <3> QED BY <2>1, <2>2, <2>4, <3>1
  <2> QED BY <2>3, <2>4
<1>7. \A y \in 1..n : \E i \in 1..n : at[i] = y
  <2>1. at \in [1..n -> 1..n]
    BY <1>5 DEF at
  <2> QED BY <1>1, <1>6, <2>1, Permuted
<1>8. \A i \in 1..n : s[i] = rts[at[i]] /\ rts[at[i]] \in Provider
  BY <1>1, <1>3, <1>5 DEF n
<1>9. s \in Seq(Provider) /\ Len(s) = n
  <2>1. s \in [1..n -> Provider]
    BY <1>3, <1>8
  <2> QED BY <1>1, <2>1
<1>10. ToSet(s) = ToSet(rts)
  <2>1. DOMAIN s = 1..n
    BY <1>9
  <2>2. ASSUME NEW x \in ToSet(s) PROVE x \in ToSet(rts)
    <3>1. PICK i \in 1..n : x = s[i]
      BY <2>1 DEF ToSet
    <3> QED BY <1>1, <1>5, <1>8, <3>1 DEF ToSet
  <2>3. ASSUME NEW x \in ToSet(rts) PROVE x \in ToSet(s)
    <3>1. PICK y \in 1..n : x = rts[y]
      BY <1>1 DEF ToSet
    <3>2. PICK i \in 1..n : at[i] = y
      BY <1>7
    <3> QED BY <1>8, <2>1, <3>1, <3>2 DEF ToSet
  <2> QED BY <2>2, <2>3
<1>11. Once(rts) => Once(s)
  <2> SUFFICES ASSUME Once(rts), NEW i \in 1..n, NEW j \in 1..n, s[i] = s[j] PROVE i = j
    BY <1>9 DEF Once
  <2>1. at[i] = at[j]
    BY <1>5, <1>8 DEF Once, n
  <2> QED BY <1>6, <2>1
<1>12. at[1] = r + 1
  BY <1>1, <1>2, <1>4
<1> QED BY <1>1, <1>8, <1>9, <1>10, <1>11, <1>12 DEF r, n

(* The arrangements of the candidates.                                       *)
LEMMA Rearranged ==
  ASSUME NEW rts \in Seq(Provider), NEW list \in SetToSeqs(ToSet(rts))
  PROVE  list \in Seq(Provider) /\ Once(list) /\ ToSet(list) = ToSet(rts)
<1>1. ToSet(rts) \in SUBSET Provider
  BY DEF ToSet
<1>2. IsFiniteSet(ToSet(rts))
  BY <1>1, Assumed, FS_Subset
<1>3. list \in Seq(ToSet(rts)) /\ Once(list) /\ ToSet(list) = ToSet(rts)
  BY <1>2, Arranged
<1>4. list \in Seq(Provider)
  <2> HIDE DEF ToSet
  <2> QED BY <1>1, <1>3
<1> QED BY <1>3, <1>4

(* The free ones among the candidates.                                       *)
LEMMA FreeIs ==
  ASSUME NEW c, NEW rts \in Seq(Provider), Once(rts), NEW list \in FreeOnes(c, rts)
  PROVE  /\ list \in Seq(Provider) /\ Once(list)
         /\ \A x \in ToSet(list) : x \in ToSet(rts)
         /\ \A p \in ToSet(rts) : \A d : c.defs[p] = {d} => (p \in ToSet(list) <=> d.free)
<1> DEFINE low == {p \in ToSet(rts) : \A d \in c.defs[p] : d.free}
           high == {p \in ToSet(rts) : \E d \in c.defs[p] : d.free}
<1>1. PICK S \in SUBSET high : low \subseteq S /\ list = Filtered(rts, S)
  BY DEF FreeOnes, Between
<1>2. /\ list \in Seq(Provider) /\ Once(list)
      /\ \A x : x \in ToSet(list) <=> x \in ToSet(rts) /\ x \in S
  BY <1>1, FilteredIs
<1>3. ASSUME NEW p \in ToSet(rts), NEW d, c.defs[p] = {d}
      PROVE  p \in S <=> d.free
  <2>1. (p \in low <=> d.free) /\ (p \in high <=> d.free)
    BY <1>3
  <2> HIDE DEF low, high
  <2> QED BY <1>1, <2>1
<1> HIDE DEF low, high
<1> QED BY <1>2, <1>3

(* What each strategy makes of the candidates.                               *)
LEMMA OrderedIs ==
  ASSUME NEW t \in Task, NEW c, c = task[t], c.pinned \in BOOLEAN, c.strategy \in Strategy,
         Speeds(latency), Speeds(c.lats), counter \in Nat,
         NEW rts \in Seq(Provider), Once(rts), rts # <<>>, NEW list \in Ordered(t, rts)
  PROVE  /\ list \in Seq(Provider) /\ Once(list)
         /\ IF ~c.pinned /\ c.strategy = "free" THEN list \in FreeOnes(c, rts)
            ELSE ToSet(list) = ToSet(rts)
         /\ Measuring(c) => \A i, j \in 1..Len(list) :
              i < j => <<list[j], list[i]>> \notin ByHybrid(c.lats)
         /\ ~c.pinned /\ c.strategy = "least_latency" /\ ToSet(rts) \subseteq calm[t] =>
              \A i, j \in 1..Len(list) : i < j => <<list[j], list[i]>> \notin ByLatency(latency)
<1>1. /\ Weak(ByLatency(latency)) /\ Weak(ByHybrid(c.lats))
  BY OrdersWeak
<1>2. CASE c.pinned
  <2>1. list = rts
    BY <1>2 DEF Ordered, Hybrids
  <2> QED BY <1>2, <2>1 DEF Measuring, Hybrids
<1>3. CASE ~c.pinned /\ c.strategy = "ast_race"
  <2>1. list = rts
    BY <1>3 DEF Ordered, Hybrids
  <2> QED BY <1>3, <2>1 DEF Measuring, Hybrids
<1>4. CASE Measuring(c)
  <2>1. list = OrderHybrid(c.lats, rts)
    BY <1>4 DEF Ordered, Measuring, Hybrids
  <2> DEFINE before == ByHybrid(c.lats)
  <2>2. list = Sorted(rts, before) /\ Weak(before)
    BY <1>1, <2>1 DEF OrderHybrid, ByHybrid
  <2> HIDE DEF before
  <2>3. /\ list \in Seq(Provider) /\ ToSet(list) = ToSet(rts) /\ Once(list)
        /\ \A i, j \in 1..Len(list) : i < j => <<list[j], list[i]>> \notin before
    BY <2>2, SortedIs
  <2> QED BY <1>4, <2>3 DEF Measuring, Hybrids, before
<1>5. CASE ~c.pinned /\ c.strategy = "weighted_elo"
  <2>1. list \in OrderElo(c.defs, rts)
    BY <1>5 DEF Ordered, Measuring, Hybrids
  <2>2. list \in SetToSeqs(ToSet(rts))
    BY <2>1 DEF OrderElo
  <2> QED BY <1>5, <2>2, Rearranged DEF Measuring, Hybrids
<1>6. CASE ~c.pinned /\ c.strategy = "least_latency"
  <2>1. list \in OrderLatency(t, rts)
    BY <1>6 DEF Ordered, Measuring, Hybrids
  <2>2. CASE ToSet(rts) \subseteq calm[t]
    <3>1. list = Sorted(rts, ByLatency(latency))
      BY <2>1, <2>2 DEF OrderLatency, ByLatency
    <3>2. /\ list \in Seq(Provider) /\ ToSet(list) = ToSet(rts) /\ Once(list)
          /\ \A i, j \in 1..Len(list) : i < j => <<list[j], list[i]>> \notin ByLatency(latency)
      BY <1>1, <3>1, SortedIs
    <3> QED BY <1>6, <3>2 DEF Measuring, Hybrids
  <2>3. CASE ~(ToSet(rts) \subseteq calm[t])
    <3>1. list \in SetToSeqs(ToSet(rts))
      BY <2>1, <2>3 DEF OrderLatency
    <3> QED BY <1>6, <2>3, <3>1, Rearranged DEF Measuring, Hybrids
  <2> QED BY <2>2, <2>3
<1>7. CASE ~c.pinned /\ c.strategy = "round_robin"
  <2>1. list = OrderRoundRobin(rts)
    BY <1>7 DEF Ordered, Measuring, Hybrids
  <2>2. list \in Seq(Provider) /\ ToSet(list) = ToSet(rts) /\ Once(list)
    BY <2>1, TurnIs
  <2> QED BY <1>7, <2>2 DEF Measuring, Hybrids
<1>8. CASE ~c.pinned /\ c.strategy = "free"
  <2>1. list \in FreeOnes(c, rts)
    BY <1>8 DEF Ordered, Measuring, Hybrids
  <2> QED BY <1>8, <2>1, FreeIs DEF Measuring, Hybrids
<1> QED BY <1>2, <1>3, <1>4, <1>5, <1>6, <1>7, <1>8 DEF Strategy, Measuring, Hybrids

-----------------------------------------------------------------------------
(* Lanes: one for each material among the first n keys.                       *)
Lane(d) == {[key |-> Material(k), rpm |-> RpmFor(d, k), enabled |-> k.enabled]
              : k \in ToSet(d.keys)}
Materials(d, n) == {Material(d.keys[i]) : i \in 1..n} \ {None}
Laned(lanes, d, n) ==
  /\ lanes \in Seq(Lane(d))
  /\ \A i, j \in 1..Len(lanes) : lanes[i].key = lanes[j].key => i = j
  /\ \A x : x \in Materials(d, n) <=> \E i \in 1..Len(lanes) : lanes[i].key = x

(* One more key.                                                             *)
LEMMA LaneAdded ==
  ASSUME NEW d, d.keys \in Seq(ToSet(d.keys)), NEW n \in 1..Len(d.keys), NEW lanes,
         Laned(lanes, d, n - 1)
  PROVE  Laned(AddLane(lanes, d, d.keys[n]), d, n)
<1> DEFINE k == d.keys[n]
           m == Material(k)
           new == [key |-> m, rpm |-> RpmFor(d, k), enabled |-> k.enabled]
<1>1. /\ lanes \in Seq(Lane(d)) /\ Len(lanes) \in Nat /\ DOMAIN lanes = 1..Len(lanes)
      /\ \A i, j \in 1..Len(lanes) : lanes[i].key = lanes[j].key => i = j
      /\ \A x : x \in Materials(d, n - 1) <=> \E i \in 1..Len(lanes) : lanes[i].key = x
  BY DEF Laned
<1>2. \A i : i \in 1..n <=> i \in 1..(n - 1) \/ i = n
  OBVIOUS
<1>3. \A x : x \in Materials(d, n) <=> x \in Materials(d, n - 1) \/ (x = m /\ x # None)
  BY <1>2 DEF Materials
<1>4. new \in Lane(d) /\ new.key = m
  BY DEF Lane, ToSet
<1>5. CASE m = None \/ Listed(lanes, m)
  <2>1. AddLane(lanes, d, k) = lanes
    BY <1>5 DEF AddLane
  <2>2. \A x : x \in Materials(d, n) <=> x \in Materials(d, n - 1)
    BY <1>1, <1>3, <1>5 DEF Listed
  <2> QED BY <1>1, <2>1, <2>2 DEF Laned
<1>6. CASE ~(m = None \/ Listed(lanes, m))
  <2> DEFINE g == Append(lanes, new)
  <2>1. AddLane(lanes, d, k) = g
    BY <1>6 DEF AddLane
  <2> HIDE DEF k, m, new
  <2>2. /\ g \in Seq(Lane(d)) /\ Len(g) = Len(lanes) + 1 /\ g[Len(lanes) + 1] = new
        /\ \A i \in 1..Len(lanes) : g[i] = lanes[i]
    BY <1>1, <1>4
  <2>3. \A i : i \in 1..Len(g) <=> i \in 1..Len(lanes) \/ i = Len(lanes) + 1
    BY <1>1, <2>2
  <2> HIDE DEF g
  <2>4. \A i \in 1..Len(lanes) : lanes[i].key # m /\ i # Len(lanes) + 1
    BY <1>1, <1>6 DEF Listed
  <2>5. \A i, j \in 1..Len(g) : g[i].key = g[j].key => i = j
    BY <1>1, <1>4, <2>2, <2>3, <2>4
  <2>6. \A x : x \in Materials(d, n) <=> \E i \in 1..Len(g) : g[i].key = x
    <3> SUFFICES ASSUME NEW x
                 PROVE  x \in Materials(d, n) <=> \E i \in 1..Len(g) : g[i].key = x
      OBVIOUS
    <3>1. ASSUME x \in Materials(d, n) PROVE \E i \in 1..Len(g) : g[i].key = x
      <4>1. CASE x = m
        BY <1>4, <2>2, <2>3, <4>1
      <4>2. CASE x # m
        <5>1. PICK i \in 1..Len(lanes) : lanes[i].key = x
          BY <1>1, <1>3, <3>1, <4>2
        <5> QED BY <2>2, <2>3, <5>1
      <4> QED BY <4>1, <4>2
    <3>2. ASSUME NEW i \in 1..Len(g), g[i].key = x PROVE x \in Materials(d, n)
      <4>1. CASE i = Len(lanes) + 1
        BY <1>3, <1>4, <1>6, <2>2, <3>2, <4>1
      <4>2. CASE i # Len(lanes) + 1
        <5>1. i \in 1..Len(lanes) /\ lanes[i].key = x
          BY <2>2, <2>3, <3>2, <4>2
        <5> QED BY <1>1, <1>3, <5>1
      <4> QED BY <4>1, <4>2
    <3> QED BY <3>1, <3>2
  <2>7. Laned(g, d, n)
    BY <2>2, <2>5, <2>6 DEF Laned
  <2> QED BY <2>1, <2>7 DEF k
<1> QED BY <1>5, <1>6

(* All keys.                                                                 *)
LEMMA LanesAre ==
  ASSUME NEW d, d.keys \in Seq(ToSet(d.keys))
  PROVE  Laned(LaneSpecs(d), d, Len(d.keys))
<1> DEFINE m == Len(d.keys)
           V == Seq(Lane(d))
           D(F) == F = [n \in 0..m |-> IF n = 0 THEN <<>>
                                       ELSE AddLane(F[n - 1], d, d.keys[n])]
           A == CHOOSE F : D(F)
           G == [n \in 1..m |-> [lanes \in V |-> AddLane(lanes, d, d.keys[n])]]
<1>1. m \in Nat /\ \A n \in 1..m : d.keys[n] \in ToSet(d.keys)
  OBVIOUS
<1>2. LaneSpecs(d) = A[m]
  BY Zenon DEF LaneSpecs
<1>3. D(A)
  <2>1. ASSUME NEW n \in 1..m, NEW lanes \in V PROVE AddLane(lanes, d, d.keys[n]) \in V
    <3> DEFINE k == d.keys[n]
               new == [key |-> Material(k), rpm |-> RpmFor(d, k), enabled |-> k.enabled]
    <3>1. new \in Lane(d)
      BY <1>1 DEF Lane
    <3>2. AddLane(lanes, d, k) = lanes \/ AddLane(lanes, d, k) = Append(lanes, new)
      BY DEF AddLane
    <3> HIDE DEF k, new
    <3>3. Append(lanes, new) \in V
      BY <3>1
    <3> HIDE DEF V
    <3>4. AddLane(lanes, d, k) \in V
      BY <2>1, <3>2, <3>3
    <3> QED BY <3>4 DEF k
  <2>2. G \in [1..m -> [V -> V]] /\ <<>> \in V
    BY <2>1
  <2>0. PICK F : Follows(F, V, m, <<>>, G)
    <3> HIDE DEF G, m, V
    <3> QED BY <1>1, <2>2, Recursion
  <2>3. F \in [0..m -> V] /\ F[0] = <<>> /\ \A n \in 1..m : F[n] = G[n][F[n - 1]]
    BY <2>0 DEF Follows
  <2>4. ASSUME NEW n \in 0..m
        PROVE  F[n] = IF n = 0 THEN <<>> ELSE AddLane(F[n - 1], d, d.keys[n])
    <3>1. CASE n = 0
      BY <2>3, <3>1
    <3>2. CASE n # 0
      <4>1. n \in 1..m /\ n - 1 \in 0..m
        BY <1>1, <3>2
      <4>2. F[n - 1] \in V
        BY <2>3, <4>1
      <4>3. G[n][F[n - 1]] = AddLane(F[n - 1], d, d.keys[n])
        BY <4>1, <4>2
      <4> QED BY <2>3, <3>2, <4>1, <4>3
    <3> QED BY <3>1, <3>2
  <2>5. D(F)
    BY <2>3, <2>4
  <2> HIDE DEF D
  <2> QED BY <2>5
<1> HIDE DEF A, G, m
<1>4. A[0] = <<>> /\ \A n \in 1..m : A[n] = AddLane(A[n - 1], d, d.keys[n])
  <2>1. \A n \in 0..m : A[n] = IF n = 0 THEN <<>> ELSE AddLane(A[n - 1], d, d.keys[n])
    BY <1>3
  <2> QED BY <1>1, <2>1
<1> DEFINE Q == {n \in 0..m : Laned(A[n], d, n)}
<1>5. 0 \in Q
  <2>1. <<>> \in Seq(Lane(d)) /\ Len(<<>>) = 0 /\ Materials(d, 0) = {} /\ 1..0 = {}
    BY DEF Materials
  <2>2. Laned(<<>>, d, 0)
    BY <2>1 DEF Laned
  <2> QED BY <1>1, <1>4, <2>2
<1>6. ASSUME NEW n \in 1..m, n - 1 \in Q PROVE n \in Q
  <2>1. n \in 1..Len(d.keys) /\ n \in 0..m /\ Laned(A[n - 1], d, n - 1)
    BY <1>1, <1>6 DEF m
  <2> QED BY <1>4, <2>1, LaneAdded
<1>7. \A n \in 0..m : n \in Q
  <2> HIDE DEF Q
  <2> QED BY <1>1, <1>5, <1>6, Induct
<1> QED BY <1>1, <1>2, <1>7 DEF m

(* Every key material has one lane.                                          *)
LEMMA LanesCover ==
  ASSUME store \in Stores PROVE LanesCoverKeys
<1> SUFFICES ASSUME NEW d \in Active(store)
             PROVE  /\ IsInjective([n \in DOMAIN LaneSpecs(d) |-> LaneSpecs(d)[n].key])
                    /\ {LaneSpecs(d)[n].key : n \in DOMAIN LaneSpecs(d)}
                         = {Material(k) : k \in ToSet(d.keys)} \ {None}
  BY Zenon DEF LanesCoverKeys
<1>1. ProviderDef(d)
  BY StoreIs DEF Active
<1>2. d.keys \in Seq(ToSet(d.keys))
  BY <1>1 DEF ProviderDef
<1> DEFINE lanes == LaneSpecs(d)
<1>3. Laned(lanes, d, Len(d.keys))
  BY <1>2, LanesAre
<1> HIDE DEF lanes
<1>4. /\ lanes \in Seq(Lane(d)) /\ DOMAIN lanes = 1..Len(lanes)
      /\ \A i, j \in 1..Len(lanes) : lanes[i].key = lanes[j].key => i = j
      /\ \A x : x \in Materials(d, Len(d.keys)) <=> \E i \in 1..Len(lanes) : lanes[i].key = x
  BY <1>3 DEF Laned
<1>5. IsInjective([n \in DOMAIN lanes |-> lanes[n].key])
  BY <1>4 DEF IsInjective
<1>6. {Material(k) : k \in ToSet(d.keys)} = {Material(d.keys[i]) : i \in 1..Len(d.keys)}
  BY <1>2 DEF ToSet
<1>7. {lanes[n].key : n \in DOMAIN lanes} = {Material(k) : k \in ToSet(d.keys)} \ {None}
  <2> DEFINE M == Materials(d, Len(d.keys))
  <2>1. M = {Material(k) : k \in ToSet(d.keys)} \ {None}
    BY <1>6 DEF Materials
  <2> HIDE DEF M
  <2>2. \A x : x \in M <=> \E i \in 1..Len(lanes) : lanes[i].key = x
    BY <1>4 DEF M
  <2>3. {lanes[n].key : n \in DOMAIN lanes} = M
    BY <1>4, <2>2
  <2> QED BY <2>1, <2>3
<1> QED BY <1>5, <1>7 DEF lanes

-----------------------------------------------------------------------------
(* The listing of /v1/models: entries with different ids.                     *)
Entries == {Entry(x[1], x[2]) : x \in Runtimes \X Models} \cup {Relayed(m) : m \in Models}
Listings == {l \in Seq(Entries) : \A i, j \in 1..Len(l) : l[i].id = l[j].id => i = j}
Has(l, m) == \E i \in 1..Len(l) : l[i].id = m
Grown(l, k) == k \in Listings /\ \A m : Has(l, m) => Has(k, m)

(* An entry shows the strikes of its owner and id, a bare one none.           *)
LEMMA EntryIs ==
  ASSUME store \in Stores, NEW e \in Entries
  PROVE  /\ <<e.owner, e.id>> \in Pairs
         /\ e.strikes = IF e.owner \in Runtimes THEN Shown(<<e.owner, e.id>>) ELSE None
<1>1. ASSUME NEW p \in Provider, NEW m \in Models PROVE <<p, m>> \in Pairs
  BY <1>1 DEF Models, Pairs
<1>2. ASSUME NEW p \in Runtimes, NEW m \in Models, e = Entry(p, m)
      PROVE  /\ <<e.owner, e.id>> \in Pairs
             /\ e.strikes = IF e.owner \in Runtimes THEN Shown(<<e.owner, e.id>>) ELSE None
  <2>1. e.owner = p /\ e.id = m /\ e.strikes = Shown(<<p, m>>)
    BY <1>2 DEF Entry
  <2>2. p \in Provider
    BY DefIs
  <2> QED BY <1>1, <2>1, <2>2
<1>3. ASSUME NEW m \in Models, e = Relayed(m)
      PROVE  /\ <<e.owner, e.id>> \in Pairs
             /\ e.strikes = IF e.owner \in Runtimes THEN Shown(<<e.owner, e.id>>) ELSE None
  <2>1. CASE Upstream \in Runtimes
    BY <1>2, <1>3, <2>1 DEF Relayed
  <2>2. CASE Upstream \notin Runtimes
    <3>1. e.owner = Upstream /\ e.id = m /\ e.strikes = None
      BY <1>3, <2>2 DEF Relayed
    <3> QED BY <1>1, <2>2, <3>1, Assumed
  <2> QED BY <2>1, <2>2
<1>4. (\E x \in Runtimes \X Models : e = Entry(x[1], x[2])) \/ \E m \in Models : e = Relayed(m)
  BY DEF Entries
<1>5. ASSUME NEW x \in Runtimes \X Models, e = Entry(x[1], x[2])
      PROVE  \E p \in Runtimes, m \in Models : e = Entry(p, m)
  <2>1. x[1] \in Runtimes /\ x[2] \in Models
    OBVIOUS
  <2> QED BY <1>5, <2>1
<1> QED BY <1>2, <1>3, <1>4, <1>5

(* One more model.                                                           *)
LEMMA ModelAdded ==
  ASSUME NEW l \in Listings, NEW p \in Runtimes, NEW m \in Models
  PROVE  Grown(l, AddModel(l, p, m)) /\ Has(AddModel(l, p, m), m)
<1> DEFINE e == Entry(p, m)
<1>1. /\ l \in Seq(Entries) /\ Len(l) \in Nat /\ DOMAIN l = 1..Len(l)
      /\ \A i, j \in 1..Len(l) : l[i].id = l[j].id => i = j
  BY DEF Listings
<1>2. e \in Entries /\ e.id = m
  <2>1. <<p, m>> \in Runtimes \X Models /\ e = Entry(<<p, m>>[1], <<p, m>>[2])
    OBVIOUS
  <2>2. e.id = m
    BY DEF Entry
  <2> QED BY <2>1, <2>2 DEF Entries
<1>3. CASE Seen(l, p, m)
  <2>1. AddModel(l, p, m) = l
    BY <1>3 DEF AddModel
  <2>2. Has(l, m)
    BY <1>1, <1>3 DEF Has, Seen
  <2> QED BY <2>1, <2>2 DEF Grown
<1>4. CASE ~Seen(l, p, m)
  <2> DEFINE g == Append(l, e)
  <2>1. AddModel(l, p, m) = g
    BY <1>4 DEF AddModel
  <2> HIDE DEF e
  <2>2. /\ g \in Seq(Entries) /\ Len(g) = Len(l) + 1 /\ g[Len(l) + 1] = e
        /\ \A i \in 1..Len(l) : g[i] = l[i]
    BY <1>1, <1>2
  <2>3. \A i : i \in 1..Len(g) <=> i \in 1..Len(l) \/ i = Len(l) + 1
    BY <1>1, <2>2
  <2> HIDE DEF g
  <2>4. \A i \in 1..Len(l) : l[i].id # m /\ i # Len(l) + 1
    BY <1>1, <1>4 DEF Seen
  <2>5. \A i, j \in 1..Len(g) : g[i].id = g[j].id => i = j
    BY <1>1, <1>2, <2>2, <2>3, <2>4
  <2>6. g \in Listings
    BY <2>2, <2>5 DEF Listings
  <2>7. Has(g, m)
    BY <1>2, <2>2, <2>3 DEF Has
  <2>8. ASSUME NEW y, Has(l, y) PROVE Has(g, y)
    <3>1. PICK i \in 1..Len(l) : l[i].id = y
      BY <2>8 DEF Has
    <3> QED BY <2>2, <2>3, <3>1 DEF Has
  <2> QED BY <2>1, <2>6, <2>7, <2>8 DEF Grown
<1> QED BY <1>3, <1>4

(* What a runtime offers.                                                    *)
LEMMA OfferedIs ==
  ASSUME store \in Stores, NEW p \in Runtimes
  PROVE  Offered(p) \in Seq(Models)
<1>1. Def(p).models \in Seq(Models)
  BY DefIs DEF ProviderDef, Models
<1> QED BY <1>1, FilteredIs DEF Offered

(* The models of one provider.                                               *)
LEMMA Merged ==
  ASSUME store \in Stores, NEW p \in Runtimes, NEW l \in Listings
  PROVE  /\ Grown(l, Merge(l, p))
         /\ \A m \in ToSet(Offered(p)) : Has(Merge(l, p), m)
<1> DEFINE models == Offered(p)
           m == Len(models)
           D(F) == F = [n \in 0..m |-> IF n = 0 THEN l
                                       ELSE AddModel(F[n - 1], p, models[n])]
           A == CHOOSE F : D(F)
           G == [n \in 1..m |-> [k \in Listings |-> AddModel(k, p, models[n])]]
<1>0. p \in Provider /\ models \in Seq(Models)
  BY DefIs, OfferedIs
<1>1. m \in Nat /\ DOMAIN models = 1..m /\ \A n \in 1..m : models[n] \in Models
  BY <1>0
<1>2. Merge(l, p) = A[m]
  BY Zenon DEF Merge
<1> HIDE DEF models
<1>3. D(A)
  <2>1. ASSUME NEW n \in 1..m, NEW k \in Listings PROVE AddModel(k, p, models[n]) \in Listings
    BY <1>0, <1>1, ModelAdded DEF Grown
  <2>2. G \in [1..m -> [Listings -> Listings]]
    BY <2>1
  <2>0. PICK F : Follows(F, Listings, m, l, G)
    <3> HIDE DEF G, m
    <3> QED BY <1>1, <2>2, Recursion
  <2>3. F \in [0..m -> Listings] /\ F[0] = l /\ \A n \in 1..m : F[n] = G[n][F[n - 1]]
    BY <2>0 DEF Follows
  <2>4. ASSUME NEW n \in 0..m
        PROVE  F[n] = IF n = 0 THEN l ELSE AddModel(F[n - 1], p, models[n])
    <3>1. CASE n = 0
      BY <2>3, <3>1
    <3>2. CASE n # 0
      <4>1. n \in 1..m /\ n - 1 \in 0..m
        BY <1>1, <3>2
      <4>2. F[n - 1] \in Listings
        BY <2>3, <4>1
      <4>3. G[n][F[n - 1]] = AddModel(F[n - 1], p, models[n])
        BY <4>1, <4>2
      <4> QED BY <2>3, <3>2, <4>1, <4>3
    <3> QED BY <3>1, <3>2
  <2>5. D(F)
    BY <2>3, <2>4
  <2> HIDE DEF D
  <2> QED BY <2>5
<1> HIDE DEF A, G, m
<1>4. A[0] = l /\ \A n \in 1..m : A[n] = AddModel(A[n - 1], p, models[n])
  <2>1. \A n \in 0..m : A[n] = IF n = 0 THEN l ELSE AddModel(A[n - 1], p, models[n])
    BY <1>3
  <2> QED BY <1>1, <2>1
<1> DEFINE Q == {n \in 0..m : Grown(l, A[n]) /\ \A i \in 1..n : Has(A[n], models[i])}
<1>5. 0 \in Q
  BY <1>1, <1>4 DEF Grown
<1>6. ASSUME NEW n \in 1..m, n - 1 \in Q PROVE n \in Q
  <2>1. /\ n \in 0..m /\ models[n] \in Models /\ Grown(l, A[n - 1])
        /\ \A i \in 1..(n - 1) : Has(A[n - 1], models[i])
    BY <1>1, <1>6
  <2>2. A[n - 1] \in Listings
    BY <2>1 DEF Grown
  <2>3. Grown(A[n - 1], A[n]) /\ Has(A[n], models[n])
    BY <1>0, <1>4, <2>1, <2>2, ModelAdded
  <2>4. \A i : i \in 1..n <=> i \in 1..(n - 1) \/ i = n
    BY <1>1
  <2>5. Grown(l, A[n])
    BY <2>1, <2>3 DEF Grown
  <2>6. \A i \in 1..n : Has(A[n], models[i])
    BY <2>1, <2>3, <2>4 DEF Grown
  <2> QED BY <2>1, <2>5, <2>6
<1>7. m \in Q
  <2> HIDE DEF Q
  <2>1. \A n \in 0..m : n \in Q
    BY <1>1, <1>5, <1>6, Induct
  <2> QED BY <1>1, <2>1
<1>8. \A y \in ToSet(models) : \E i \in 1..m : y = models[i]
  BY <1>1 DEF ToSet
<1> QED BY <1>2, <1>7, <1>8 DEF models

(* The models of all of them.                                                *)
LEMMA AllMerged ==
  ASSUME store \in Stores, NEW others \in Seq(Runtimes), NEW l \in Listings
  PROVE  /\ Grown(l, MergeAll(l, others))
         /\ \A p \in ToSet(others) : \A m \in ToSet(Offered(p)) : Has(MergeAll(l, others), m)
<1> DEFINE m == Len(others)
           D(F) == F = [n \in 0..m |-> IF n = 0 THEN l ELSE Merge(F[n - 1], others[n])]
           A == CHOOSE F : D(F)
           G == [n \in 1..m |-> [k \in Listings |-> Merge(k, others[n])]]
           All(k, p) == \A y \in ToSet(Offered(p)) : Has(k, y)
<1>1. m \in Nat /\ DOMAIN others = 1..m /\ \A n \in 1..m : others[n] \in Runtimes
  OBVIOUS
<1>2. MergeAll(l, others) = A[m]
  BY Zenon DEF MergeAll
<1>3. D(A)
  <2>1. ASSUME NEW n \in 1..m, NEW k \in Listings PROVE Merge(k, others[n]) \in Listings
    BY <1>1, Merged DEF Grown
  <2>2. G \in [1..m -> [Listings -> Listings]]
    BY <2>1
  <2>0. PICK F : Follows(F, Listings, m, l, G)
    <3> HIDE DEF G, m
    <3> QED BY <1>1, <2>2, Recursion
  <2>3. F \in [0..m -> Listings] /\ F[0] = l /\ \A n \in 1..m : F[n] = G[n][F[n - 1]]
    BY <2>0 DEF Follows
  <2>4. ASSUME NEW n \in 0..m
        PROVE  F[n] = IF n = 0 THEN l ELSE Merge(F[n - 1], others[n])
    <3>1. CASE n = 0
      BY <2>3, <3>1
    <3>2. CASE n # 0
      <4>1. n \in 1..m /\ n - 1 \in 0..m
        BY <1>1, <3>2
      <4>2. F[n - 1] \in Listings
        BY <2>3, <4>1
      <4>3. G[n][F[n - 1]] = Merge(F[n - 1], others[n])
        BY <4>1, <4>2
      <4> QED BY <2>3, <3>2, <4>1, <4>3
    <3> QED BY <3>1, <3>2
  <2>5. D(F)
    BY <2>3, <2>4
  <2> HIDE DEF D
  <2> QED BY <2>5
<1> HIDE DEF A, G, m
<1>4. A[0] = l /\ \A n \in 1..m : A[n] = Merge(A[n - 1], others[n])
  <2>1. \A n \in 0..m : A[n] = IF n = 0 THEN l ELSE Merge(A[n - 1], others[n])
    BY <1>3
  <2> QED BY <1>1, <2>1
<1> DEFINE Q == {n \in 0..m : Grown(l, A[n]) /\ \A i \in 1..n : All(A[n], others[i])}
<1>5. 0 \in Q
  BY <1>1, <1>4 DEF Grown
<1>6. ASSUME NEW n \in 1..m, n - 1 \in Q PROVE n \in Q
  <2>1. /\ n \in 0..m /\ others[n] \in Runtimes /\ Grown(l, A[n - 1])
        /\ \A i \in 1..(n - 1) : All(A[n - 1], others[i])
    BY <1>1, <1>6
  <2>2. A[n - 1] \in Listings
    BY <2>1 DEF Grown
  <2>3. Grown(A[n - 1], A[n]) /\ All(A[n], others[n])
    BY <1>4, <2>1, <2>2, Merged
  <2>4. \A i : i \in 1..n <=> i \in 1..(n - 1) \/ i = n
    BY <1>1
  <2>5. Grown(l, A[n])
    BY <2>1, <2>3 DEF Grown
  <2>6. \A i \in 1..n : All(A[n], others[i])
    BY <2>1, <2>3, <2>4 DEF Grown
  <2> QED BY <2>1, <2>5, <2>6
<1>7. m \in Q
  <2> HIDE DEF Q
  <2>1. \A n \in 0..m : n \in Q
    BY <1>1, <1>5, <1>6, Induct
  <2> QED BY <1>1, <2>1
<1>8. \A p \in ToSet(others) : \E i \in 1..m : p = others[i]
  BY <1>1 DEF ToSet
<1> QED BY <1>2, <1>7, <1>8

-----------------------------------------------------------------------------
(* The inductive invariant.  What is held by name is typed, and a latency lies *)
(* between two samples.                                                      *)
Speed == {None} \cup {v \in Nat : \E a, b \in Samples : a <= v /\ v <= b}
Held ==
  /\ store \in Stores /\ open \in SUBSET Provider
  /\ healthy \in [Provider -> BOOLEAN \cup {None}] /\ latency \in [Provider -> Speed]
  /\ DOMAIN pin = Session /\ \A s \in Session : pin[s] # None => pin[s].provider \in Provider

(* A streak is never longer than the strikes that are remembered.             *)
Strikes ==
  /\ now \in Nat /\ DOMAIN strikes = Pairs /\ streak \in [Pairs -> Nat]
  /\ \A x \in Pairs : strikes[x] # None =>
       strikes[x].n \in Nat /\ strikes[x].at \in 0..now /\ streak[x] <= strikes[x].n

(* A request before it looks at providers knows its model and its strategy.    *)
Waiting == [at : {"lock"}, session : Session, model : Model \cup {Free}, strategy : Strategy]
Pinning == [at : {"pin"}, session : Session, model : Model \cup {Free},
            strategy : {"sticky_affinity"}]
Finding == [at : {"runtime"}, session : Session, model : Model \cup {Free},
            strategy : {"sticky_affinity"}, provider : Provider]

(* One that looks at them has each name once and is somewhere among them; what *)
(* it has not reached has not passed.                                        *)
Fields == {"at", "session", "model", "strategy", "pinned", "names", "n", "ok", "lats", "defs"}
Known(c) ==
  /\ DOMAIN c = Fields /\ c.session \in Session /\ c.model \in Model \cup {Free}
  /\ c.strategy \in Strategy /\ c.pinned \in BOOLEAN
  /\ c.pinned => c.strategy = "sticky_affinity" /\ Len(c.names) = 1
  /\ c.names \in Seq(Provider) /\ Once(c.names)
  /\ c.ok \subseteq ToSet(c.names) /\ c.lats \in [Provider -> Speed]
Placed(c) ==
  /\ c.at \in {"health", "circuit", "measure", "order"}
  /\ c.at \in {"health", "circuit"} =>
       c.n \in 1..Len(c.names) /\ \A i \in c.n..Len(c.names) : c.names[i] \notin c.ok
  /\ c.at = "measure" => c.n \in 1..Len(Rts(c))
Choosing(c) == Known(c) /\ Placed(c)

TaskOK(x) == \/ x = Idle \/ x \in Waiting \/ x \in Pinning \/ x \in Finding \/ Choosing(x)
             \/ x.at = "routed" /\ "names" \notin DOMAIN x
Tasks == DOMAIN task = Task /\ \A t \in Task : TaskOK(task[t])

(* The leaders stand one behind the other in the list, the last one just       *)
(* before the counter: Back is the place d leads ago.                         *)
Back(r, n, d) == IF r - d >= 1 THEN r - d ELSE r - d + n
InTurn(list, leaders, c) ==
  /\ list \in Seq(Provider) /\ Once(list) /\ leaders \in Seq(Provider)
  /\ Len(leaders) <= Len(list)
  /\ \A i \in 1..Len(leaders) :
       leaders[i] = list[Back(c % Len(list), Len(list), Len(leaders) - i)]
Turning == counter \in 0..(Period - 1) /\ InTurn(turns.list, turns.leaders, counter)

SelectionInv == Held /\ Strikes /\ Tasks /\ Turning

-----------------------------------------------------------------------------
(* An average lies between its parts.                                        *)
LEMMA AverageIs ==
  ASSUME Held, NEW p \in Provider, NEW ms \in Samples
  PROVE  Averaged(p, ms) \in [Provider -> Speed]
<1>1. ms \in Nat /\ ms \in Speed
  BY Assumed DEF Speed
<1> DEFINE o == latency[p]
           v == (7 * ms + 3 * o) \div 10
<1>2. ASSUME o # None PROVE v \in Speed
  <2>1. PICK a \in Samples, b \in Samples : o \in Nat /\ a <= o /\ o <= b
    BY <1>2 DEF Held, Speed
  <2>2. a \in Nat /\ b \in Nat
    BY Assumed
  <2>3. v \in Nat /\ (ms <= v \/ o <= v) /\ (v <= ms \/ v <= o)
    <3> HIDE DEF o
    <3> QED BY <1>1, <2>1
  <2>4. (a <= v \/ ms <= v) /\ (v <= b \/ v <= ms)
    <3> HIDE DEF v, o
    <3> QED BY <1>1, <2>1, <2>2, <2>3
  <2> HIDE DEF v
  <2> QED BY <2>3, <2>4 DEF Speed
<1>3. (IF o = None THEN ms ELSE v) \in Speed
  BY <1>1, <1>2
<1>4. Averaged(p, ms) = [latency EXCEPT ![p] = IF o = None THEN ms ELSE v]
  BY DEF Averaged
<1> HIDE DEF o, v
<1> QED BY <1>3, <1>4 DEF Held

(* The next turn.                                                            *)
LEMMA TurnTaken ==
  ASSUME Turning, NEW list \in Seq(Provider), Once(list), list # <<>>,
         Len(list) <= Cardinality(Provider), counter' = (counter + 1) % Period,
         turns' = Led(list, list[(counter % Len(list)) + 1])
  PROVE  Turning'
<1> DEFINE n == Len(list)
           r == counter % n
           old == turns.leaders
           before == IF turns.list = list THEN turns.leaders ELSE <<>>
           latest == IF Len(before) < Len(list) THEN before ELSE Tail(before)
           new == Append(latest, list[r + 1])
<1>1. n \in Nat \ {0} /\ n \in 1..Cardinality(Provider) /\ Period \in Nat \ {0}
      /\ Period % n = 0 /\ counter \in Nat /\ counter < Period
  BY Assumed DEF Turning
<1>2. r \in 0..(n - 1) /\ list[r + 1] \in Provider
  <2>1. r \in 0..(n - 1)
    <3> HIDE DEF n
    <3> QED BY <1>1, Remainder
  <2> HIDE DEF r
  <2> QED BY <1>1, <2>1
<1>3. turns' = [list |-> list, leaders |-> new]
  BY DEF Led
<1>4. /\ counter' \in 0..(Period - 1)
      /\ counter' % n = IF r + 1 < n THEN r + 1 ELSE 0
  <2> HIDE DEF n
  <2>1. (counter + 1) % n = IF r + 1 < n THEN r + 1 ELSE r + 1 - n
    <3>1. 1 \in 0..n /\ n \in Nat \ {0} /\ counter \in Nat
      BY <1>1
    <3> QED BY <3>1, RemainderAdd
  <2>2. (counter + 1) % n = IF r + 1 < n THEN r + 1 ELSE 0
    <3> HIDE DEF r
    <3> QED BY <1>1, <1>2, <2>1
  <2>3. CASE counter + 1 < Period
    <3>1. (counter + 1) % Period = counter + 1
      <4>1. counter + 1 \in Nat /\ counter + 1 \in 0..(Period - 1) /\ 0 \in Nat
            /\ counter + 1 = Period * 0 + (counter + 1)
        BY <1>1, <2>3
      <4> QED BY <1>1, <4>1, RemainderOf
    <3>2. counter' = counter + 1 /\ counter + 1 \in 0..(Period - 1)
      BY <1>1, <2>3, <3>1
    <3> QED BY <2>2, <3>2
  <2>4. CASE ~(counter + 1 < Period)
    <3>1. counter + 1 = Period
      BY <1>1, <2>4
    <3>2. Period % Period = 0
      <4>1. Period \in Nat /\ 0 \in 0..(Period - 1) /\ 1 \in Nat /\ Period = Period * 1 + 0
        BY <1>1
      <4> QED BY <1>1, <4>1, RemainderOf
    <3>3. 0 % n = 0
      <4>1. 0 \in Nat /\ 0 \in 0..(n - 1) /\ 0 = n * 0 + 0
        BY <1>1
      <4> QED BY <1>1, <4>1, RemainderOf
    <3>4. counter' = 0 /\ Period % n = 0
      BY <1>1, <3>1, <3>2
    <3> QED BY <1>1, <2>2, <3>1, <3>3, <3>4
  <2> QED BY <2>3, <2>4
<1> DEFINE s == counter' % n
<1>5. s = (IF r + 1 < n THEN r + 1 ELSE 0) /\ s \in 0..(n - 1)
  <2>1. s = IF r + 1 < n THEN r + 1 ELSE 0
    BY <1>4
  <2> HIDE DEF s, r, n
  <2> QED BY <1>1, <1>2, <2>1
<1>6. Back(s, n, 0) = r + 1
  <2> HIDE DEF s, r, n
  <2> QED BY <1>1, <1>2, <1>5 DEF Back
<1>7. \A d \in 0..(n - 2) : Back(s, n, d + 1) = Back(r, n, d)
  <2> HIDE DEF s, r, n
  <2> TAKE d \in 0..(n - 2)
  <2>1. d \in Nat /\ d + 1 < n /\ n \in Nat /\ r \in Nat /\ r < n
    BY <1>1, <1>2
  <2>2. CASE r + 1 < n
    <3>1. s = r + 1
      BY <1>5, <2>2
    <3> QED BY <2>1, <3>1 DEF Back
  <2>3. CASE ~(r + 1 < n)
    <3>1. s = 0 /\ r = n - 1
      BY <1>5, <2>1, <2>3
    <3> QED BY <2>1, <3>1 DEF Back
  <2> QED BY <2>2, <2>3
<1> HIDE DEF s
<1>8. /\ latest \in Seq(Provider) /\ Len(latest) \in 0..(n - 1)
      /\ \A i \in 1..Len(latest) : latest[i] = list[Back(s, n, Len(latest) + 1 - i)]
  <2>1. CASE turns.list # list
    <3>1. before = <<>>
      BY <2>1
    <3>2. latest = <<>> /\ Len(latest) = 0 /\ <<>> \in Seq(Provider)
      BY <1>1, <3>1
    <3>3. 0 \in 0..(n - 1) /\ 1..0 = {}
      BY <1>1
    <3> HIDE DEF latest, n
    <3> QED BY <3>2, <3>3
  <2>2. CASE turns.list = list
    <3> DEFINE k == Len(old)
    <3>1. /\ before = old /\ old \in Seq(Provider) /\ k \in Nat /\ k <= n
          /\ \A i \in 1..k : old[i] = list[Back(r, n, k - i)]
      BY <2>2 DEF Turning, InTurn
    <3>2. CASE k < n
      <4>1. latest = old
        BY <3>1, <3>2
      <4>2. ASSUME NEW i \in 1..k PROVE old[i] = list[Back(s, n, k + 1 - i)]
        <5>1. k - i \in 0..(n - 2) /\ k + 1 - i = (k - i) + 1
          <6>1. k \in Nat /\ n \in Nat /\ k < n
            BY <1>1, <3>1, <3>2
          <6> HIDE DEF k, n
          <6> QED BY <6>1
        <5> QED BY <1>7, <3>1, <5>1
      <4> HIDE DEF latest, n
      <4> QED BY <1>1, <3>1, <3>2, <4>1, <4>2
    <3>3. CASE k = n
      <4>1. latest = Tail(old)
        BY <3>1, <3>3
      <4>2. /\ latest \in Seq(Provider) /\ Len(latest) = n - 1
            /\ \A i \in 1..(n - 1) : latest[i] = old[i + 1]
        <5>1. old # <<>> /\ Len(old) = n
          BY <1>1, <3>1, <3>3
        <5> HIDE DEF n, latest, old
        <5> QED BY <1>1, <3>1, <4>1, <5>1
      <4>3. ASSUME NEW i \in 1..(n - 1) PROVE latest[i] = list[Back(s, n, (n - 1) + 1 - i)]
        <5>1. /\ i + 1 \in 1..k /\ k - (i + 1) \in 0..(n - 2)
              /\ (n - 1) + 1 - i = (k - (i + 1)) + 1
          <6> HIDE DEF k, n
          <6> QED BY <1>1, <3>3
        <5>2. old[i + 1] = list[Back(r, n, k - (i + 1))]
          BY <3>1, <5>1
        <5>3. Back(s, n, (k - (i + 1)) + 1) = Back(r, n, k - (i + 1))
          BY <1>7, <5>1
        <5> HIDE DEF latest, n, k, r, old
        <5> QED BY <4>2, <5>1, <5>2, <5>3
      <4>4. n - 1 \in 0..(n - 1)
        BY <1>1
      <4> HIDE DEF latest, n
      <4> QED BY <4>2, <4>3, <4>4
    <3>4. k < n \/ k = n
      BY <1>1, <3>1
    <3> HIDE DEF latest, n, k, r, old
    <3> QED BY <3>2, <3>3, <3>4
  <2> QED BY <2>1, <2>2
<1> HIDE DEF latest, n, r
<1>9. /\ new \in Seq(Provider) /\ Len(new) = Len(latest) + 1 /\ new[Len(latest) + 1] = list[r + 1]
      /\ \A i \in 1..Len(latest) : new[i] = latest[i]
  BY <1>2, <1>8
<1> HIDE DEF new
<1>10. Len(latest) \in Nat /\ Len(new) <= n
  BY <1>1, <1>8, <1>9
<1>11. ASSUME NEW i \in 1..Len(new) PROVE new[i] = list[Back(s, n, Len(new) - i)]
  <2>1. CASE i = Len(latest) + 1
    <3>1. Len(new) - i = 0
      BY <1>9, <1>10, <2>1
    <3> QED BY <1>6, <1>9, <2>1, <3>1
  <2>2. CASE i # Len(latest) + 1
    <3>1. i \in 1..Len(latest) /\ Len(new) - i = Len(latest) + 1 - i
      BY <1>9, <1>10, <2>2
    <3> QED BY <1>8, <1>9, <3>1
  <2> QED BY <2>1, <2>2
<1>12. turns'.list = list /\ turns'.leaders = new
  BY <1>3
<1>13. InTurn(list, new, counter')
  BY <1>9, <1>10, <1>11 DEF InTurn, s, n
<1> QED BY <1>4, <1>12, <1>13 DEF Turning

-----------------------------------------------------------------------------
(* What kind of request has which state.                                     *)
LEMMA KindIs ==
  ASSUME NEW x, TaskOK(x)
  PROVE  /\ x.at = "pin" => x \in Pinning
         /\ x.at = "lock" => x \in Waiting
         /\ x.at = "runtime" => x \in Finding
         /\ x.at \in {"health", "circuit", "measure", "order"} => Choosing(x)
         /\ InSelect(x) <=> Choosing(x)
         /\ InSelect(x) => x.at \in {"health", "circuit", "measure", "order"}
<1>1. CASE x = Idle
  BY <1>1 DEF Idle, InSelect, Choosing, Known, Fields
<1>2. CASE x \in Waiting \/ x \in Pinning \/ x \in Finding
  BY <1>2 DEF Waiting, Pinning, Finding, InSelect, Choosing, Known, Fields
<1>3. CASE Choosing(x)
  <2>1. DOMAIN x = Fields /\ x.at \in {"health", "circuit", "measure", "order"}
    BY <1>3 DEF Choosing, Known, Placed
  <2> QED BY <1>3, <2>1 DEF InSelect, Fields
<1>4. CASE x.at = "routed" /\ "names" \notin DOMAIN x
  BY <1>4 DEF InSelect, Choosing, Known, Fields
<1> QED BY <1>1, <1>2, <1>3, <1>4 DEF TaskOK

(* A request that goes back to take the runtimes.                            *)
LEMMA AskingIs ==
  ASSUME NEW c, c.session \in Session, c.model \in Model \cup {Free}, c.strategy \in Strategy
  PROVE  TaskOK(Asking(c)) /\ ~InSelect(Asking(c)) /\ Asking(c).at = "lock"
BY DEF Asking, TaskOK, Waiting, InSelect

(* A request that begins to look at providers.                               *)
LEMMA LookingIs ==
  ASSUME NEW c, c.session \in Session, c.model \in Model \cup {Free}, c.strategy \in Strategy,
         NEW byPin \in BOOLEAN, NEW names \in Seq(Provider), Once(names), names # <<>>,
         byPin => c.strategy = "sticky_affinity" /\ Len(names) = 1
  PROVE  Choosing(Looking(c, byPin, names))
<1> DEFINE x == Looking(c, byPin, names)
<1>1. /\ DOMAIN x = Fields /\ x.at = "health" /\ x.session = c.session /\ x.model = c.model
      /\ x.strategy = c.strategy /\ x.pinned = byPin /\ x.names = names /\ x.n = 1
      /\ x.ok = {} /\ x.lats = [p \in Provider |-> None]
  BY DEF Looking, Fields
<1> HIDE DEF x
<1>2. Known(x)
  BY <1>1 DEF Known, Speed
<1>3. Len(names) \in Nat /\ Len(names) >= 1
  OBVIOUS
<1>4. Placed(x)
  BY <1>1, <1>3 DEF Placed
<1> QED BY <1>2, <1>4 DEF Choosing, x

(* The fields that stay while a request looks at providers.                  *)
Kept(c, x) ==
  /\ DOMAIN x = Fields /\ x.names = c.names /\ x.strategy = c.strategy /\ x.model = c.model
  /\ x.pinned = c.pinned /\ x.session = c.session

(* Other fields are written.                                                 *)
LEMMA KnownKept ==
  ASSUME NEW c, Known(c), NEW x, Kept(c, x), x.ok \subseteq ToSet(c.names),
         x.lats \in [Provider -> Speed]
  PROVE  Known(x) /\ InSelect(x)
BY DEF Known, Kept, InSelect, Fields

(* The providers that have passed, in the order of their names.              *)
LEMMA RtsIs ==
  ASSUME NEW c, Known(c)
  PROVE  /\ Rts(c) \in Seq(Provider) /\ Once(Rts(c)) /\ ToSet(Rts(c)) = c.ok
         /\ Len(Rts(c)) \in Nat /\ (c.ok # {} => Len(Rts(c)) >= 1)
<1>1. c.names \in Seq(Provider) /\ Once(c.names) /\ c.ok \subseteq ToSet(c.names)
  BY DEF Known
<1>2. /\ Rts(c) \in Seq(Provider) /\ Once(Rts(c))
      /\ \A x : x \in ToSet(Rts(c)) <=> x \in ToSet(c.names) /\ x \in c.ok
  BY <1>1, FilteredIs DEF Rts
<1>3. ToSet(Rts(c)) = c.ok
  BY <1>1, <1>2
<1>4. Len(Rts(c)) \in Nat /\ DOMAIN Rts(c) = 1..Len(Rts(c))
  BY <1>2
<1>5. ASSUME c.ok # {} PROVE Len(Rts(c)) >= 1
  <2>1. PICK p \in ToSet(Rts(c)) : TRUE
    BY <1>3, <1>5
  <2>2. PICK i \in 1..Len(Rts(c)) : Rts(c)[i] = p
    BY <1>4 DEF ToSet
  <2> QED BY <1>4, <2>2
<1> QED BY <1>2, <1>3, <1>4, <1>5

(* What follows a name.                                                      *)
LEMMA PastIs ==
  ASSUME NEW c, Choosing(c), c.at \in {"health", "circuit"},
         NEW ok, ok = c.ok \/ ok = c.ok \cup {c.names[c.n]}
  PROVE  TaskOK(Past(c, ok))
<1>1. /\ Known(c) /\ c.n \in 1..Len(c.names) /\ c.names \in Seq(Provider) /\ Once(c.names)
      /\ Len(c.names) \in Nat /\ DOMAIN c.names = 1..Len(c.names)
      /\ \A i \in c.n..Len(c.names) : c.names[i] \notin c.ok
  BY DEF Choosing, Known, Placed
<1>2. ok \subseteq ToSet(c.names)
  BY <1>1 DEF Known, ToSet
<1>3. CASE c.n < Len(c.names)
  <2> DEFINE x == [c EXCEPT !.at = "health", !.n = c.n + 1, !.ok = ok]
  <2>1. Past(c, ok) = x
    BY <1>3 DEF Past
  <2>2. Known(x) /\ x.at = "health" /\ x.n = c.n + 1 /\ x.ok = ok /\ x.names = c.names
    <3>1. DOMAIN c = Fields /\ c.lats \in [Provider -> Speed]
      BY <1>1 DEF Known
    <3>2. Kept(c, x) /\ x.at = "health" /\ x.n = c.n + 1 /\ x.ok = ok /\ x.lats = c.lats
      BY <3>1 DEF Kept, Fields
    <3> HIDE DEF x
    <3>3. Known(x)
      BY <1>1, <1>2, <3>1, <3>2, KnownKept
    <3> QED BY <3>2, <3>3 DEF Kept
  <2> HIDE DEF x
  <2>3. x.n \in 1..Len(x.names)
    BY <1>1, <1>3, <2>2
  <2>4. ASSUME NEW i \in x.n..Len(x.names) PROVE x.names[i] \notin x.ok
    <3>1. i \in c.n..Len(c.names) /\ i \in 1..Len(c.names) /\ i # c.n
      BY <1>1, <1>3, <2>2
    <3>2. c.names[i] \notin c.ok /\ c.names[i] # c.names[c.n]
      BY <1>1, <3>1 DEF Once
    <3> QED BY <2>2, <3>2
  <2>5. Placed(x)
    BY <2>2, <2>3, <2>4 DEF Placed
  <2> QED BY <2>1, <2>2, <2>5 DEF TaskOK, Choosing
<1>4. CASE ~(c.n < Len(c.names)) /\ ok # {}
  <2> DEFINE next == IF Measuring(c) THEN "measure" ELSE "order"
             x == [c EXCEPT !.at = next, !.n = 1, !.ok = ok]
  <2>1. Past(c, ok) = x
    BY <1>4 DEF Past
  <2>2. Known(x) /\ x.at = next /\ x.n = 1 /\ x.ok = ok
    <3> HIDE DEF next
    <3>1. DOMAIN c = Fields /\ c.lats \in [Provider -> Speed]
      BY <1>1 DEF Known
    <3>2. Kept(c, x) /\ x.at = next /\ x.n = 1 /\ x.ok = ok /\ x.lats = c.lats
      BY <3>1 DEF Kept, Fields
    <3> HIDE DEF x
    <3>3. Known(x)
      BY <1>1, <1>2, <3>1, <3>2, KnownKept
    <3> QED BY <3>2, <3>3
  <2>3. x.at \in {"measure", "order"}
    BY <2>2
  <2> HIDE DEF x, next
  <2>4. Len(Rts(x)) \in Nat /\ Len(Rts(x)) >= 1
    BY <1>4, <2>2, RtsIs
  <2>5. Placed(x)
    BY <2>2, <2>3, <2>4 DEF Placed
  <2> QED BY <2>1, <2>2, <2>5 DEF TaskOK, Choosing
<1>5. CASE ~(c.n < Len(c.names)) /\ ok = {} /\ c.pinned
  <2>1. Past(c, ok) = Asking(c)
    BY <1>5 DEF Past
  <2> QED BY <1>1, <2>1, AskingIs DEF Known
<1>6. CASE ~(c.n < Len(c.names)) /\ ok = {} /\ ~c.pinned
  <2>1. Past(c, ok) = Idle
    BY <1>6 DEF Past
  <2> QED BY <2>1 DEF TaskOK
<1> QED BY <1>3, <1>4, <1>5, <1>6

-----------------------------------------------------------------------------
(* Each step keeps it.                                                       *)
LEMMA SelectionInitInv == SelectionInit => SelectionInv
<1> SUFFICES ASSUME SelectionInit PROVE SelectionInv
  OBVIOUS
<1>1. Held
  <2>1. PICK r \in Restored : /\ healthy = r.healthy /\ latency = r.latency /\ pin = r.pin
                              /\ open = r.open \cap Runtimes
    BY DEF SelectionInit
  <2>2. /\ r.healthy \in [Provider -> BOOLEAN \cup {None}] /\ r.open \subseteq Provider
        /\ r.latency \in [Provider -> Samples \cup {None}]
        /\ r.pin \in [Session -> Pin \cup {None}]
    BY SelectionAssumption
  <2>3. \A v \in Samples \cup {None} : v \in Speed
    BY Assumed DEF Speed
  <2>4. latency \in [Provider -> Speed]
    BY <2>1, <2>2, <2>3
  <2>5. DOMAIN pin = Session /\ \A s \in Session : pin[s] # None => pin[s].provider \in Provider
    BY <2>1, <2>2 DEF Pin
  <2> QED BY <2>1, <2>2, <2>4, <2>5 DEF SelectionInit, Held
<1>2. Strikes
  BY DEF SelectionInit, Strikes
<1>3. Tasks
  BY DEF SelectionInit, Tasks, TaskOK
<1>4. Turning
  <2>1. counter \in 0..(Period - 1)
    BY Assumed DEF SelectionInit
  <2>2. turns.list = <<>> /\ turns.leaders = <<>>
    BY DEF SelectionInit
  <2>3. <<>> \in Seq(Provider) /\ Len(<<>>) = 0 /\ 1..0 = {}
    OBVIOUS
  <2>4. InTurn(<<>>, <<>>, counter)
    BY <2>3 DEF InTurn, Once
  <2> QED BY <2>1, <2>2, <2>4 DEF Turning
<1> QED BY <1>1, <1>2, <1>3, <1>4 DEF SelectionInv

(* The task of a request.                                                    *)
LEMMA TaskKept ==
  ASSUME Tasks, NEW t \in Task, NEW x, TaskOK(x), task' = [task EXCEPT ![t] = x]
  PROVE  Tasks'
BY DEF Tasks

(* A request arrives.                                                        *)
LEMMA ArriveInv ==
  ASSUME SelectionInv, NEW t \in Task, NEW s \in Session, NEW m \in Model \cup {Free},
         Arrive(t, s, m)
  PROVE  SelectionInv'
<1> DEFINE how == IF m = Free THEN "free" ELSE store.strategy
           x == [at |-> IF how = "sticky_affinity" THEN "pin" ELSE "lock",
                 session |-> s, model |-> m, strategy |-> how]
<1>1. /\ task' = [task EXCEPT ![t] = x]
      /\ UNCHANGED <<store, state, counter, strikes, catalog, now, turns, streak>>
  BY DEF Arrive
<1>2. how \in Strategy
  <2>1. store.strategy \in Strategy
    BY StoreIs DEF SelectionInv, Held
  <2> QED BY <2>1 DEF Strategy
<1> HIDE DEF how
<1>3. TaskOK(x)
  BY <1>2 DEF TaskOK, Waiting, Pinning
<1> HIDE DEF x
<1>4. Tasks'
  BY <1>1, <1>3, TaskKept DEF SelectionInv
<1> QED BY <1>1, <1>4 DEF SelectionInv, Held, Strikes, Turning, state

(* A step of select that only changes its request.                           *)
LEMMA ReadInv ==
  ASSUME SelectionInv, NEW t \in Task, NEW x, TaskOK(x), task' = [task EXCEPT ![t] = x],
         UNCHANGED <<store, state, counter, strikes, catalog, now, events, turns, streak>>
  PROVE  SelectionInv'
<1>1. Tasks'
  BY TaskKept DEF SelectionInv
<1> QED BY <1>1 DEF SelectionInv, Held, Strikes, Turning, state

(* select looks at the pin.                                                  *)
LEMMA PinnedInv ==
  ASSUME SelectionInv, NEW t \in Task, SelectPinned(t)
  PROVE  SelectionInv'
<1> DEFINE c == task[t]
           p == GetSticky(c.session)
           x == IF p = None THEN Asking(c)
                ELSE [at |-> "runtime", session |-> c.session, model |-> c.model,
                      strategy |-> c.strategy, provider |-> p]
<1>1. /\ c.at = "pin" /\ task' = [task EXCEPT ![t] = x]
      /\ UNCHANGED <<store, state, counter, strikes, catalog, now, events, turns, streak>>
  BY DEF SelectPinned
<1>2. c \in Pinning
  BY <1>1, KindIs DEF SelectionInv, Tasks
<1>3. /\ c.session \in Session /\ c.model \in Model \cup {Free}
      /\ c.strategy = "sticky_affinity" /\ c.strategy \in Strategy
  BY <1>2 DEF Pinning, Strategy
<1>4. p # None => p \in Provider
  BY <1>3 DEF GetSticky, SelectionInv, Held
<1> HIDE DEF p
<1>5. TaskOK(x)
  <2>1. CASE p = None
    <3>1. TaskOK(Asking(c))
      <4> HIDE DEF c
      <4> QED BY <1>3, AskingIs
    <3> QED BY <2>1, <3>1
  <2>2. CASE p # None
    <3> HIDE DEF c
    <3> QED BY <1>3, <1>4, <2>2 DEF TaskOK, Finding
  <2> QED BY <2>1, <2>2
<1> HIDE DEF x
<1> QED BY <1>1, <1>5, ReadInv

(* One name.                                                                 *)
LEMMA Single ==
  ASSUME NEW p \in Provider
  PROVE  /\ <<p>> \in Seq(Provider) /\ Once(<<p>>) /\ <<p>> # <<>> /\ Len(<<p>>) = 1
         /\ ToSet(<<p>>) = {p} /\ <<p>>[1] = p
<1>1. <<p>> \in Seq(Provider) /\ Len(<<p>>) = 1 /\ <<p>> # <<>> /\ <<p>>[1] = p
  OBVIOUS
<1>2. \A i \in 1..1 : i = 1
  OBVIOUS
<1> QED BY <1>1, <1>2 DEF Once, ToSet

(* select finds the pinned runtime.                                          *)
LEMMA FindPinnedInv ==
  ASSUME SelectionInv, NEW t \in Task, FindPinned(t)
  PROVE  SelectionInv'
<1> DEFINE c == task[t]
           p == c.provider
           x == IF p \in Runtimes /\ Usable(Def(p)) THEN Looking(c, TRUE, <<p>>) ELSE Asking(c)
<1>1. /\ c.at = "runtime" /\ task' = [task EXCEPT ![t] = x]
      /\ UNCHANGED <<store, state, counter, strikes, catalog, now, events, turns, streak>>
  BY DEF FindPinned
<1>2. c \in Finding
  BY <1>1, KindIs DEF SelectionInv, Tasks
<1>3. /\ c.session \in Session /\ c.model \in Model \cup {Free} /\ p \in Provider
      /\ c.strategy = "sticky_affinity" /\ c.strategy \in Strategy
  BY <1>2 DEF Finding, Strategy
<1>4. TaskOK(Looking(c, TRUE, <<p>>)) /\ TaskOK(Asking(c))
  <2> HIDE DEF c, p
  <2>1. Choosing(Looking(c, TRUE, <<p>>))
    BY <1>3, Single, LookingIs
  <2> QED BY <1>3, <2>1, AskingIs DEF TaskOK
<1>5. TaskOK(x)
  BY <1>4
<1> HIDE DEF x
<1> QED BY <1>1, <1>5, ReadInv

(* The names select collects.                                                *)
LEMMA NamesAre ==
  ASSUME store \in Stores, NEW names, names = Filtered(Order, {p \in Runtimes : Usable(Def(p))})
  PROVE  /\ names \in Seq(Provider) /\ Once(names)
         /\ \A p : p \in ToSet(names) <=> p \in Runtimes /\ Usable(Def(p))
<1> DEFINE T == {p \in Runtimes : Usable(Def(p))}
<1>1. Order \in Seq(Provider) /\ Once(Order) /\ ToSet(Order) = Runtimes
  BY OrderIs
<1>2. \A p : p \in T <=> p \in Runtimes /\ Usable(Def(p))
  OBVIOUS
<1> HIDE DEF T
<1>3. /\ names \in Seq(Provider) /\ Once(names)
      /\ \A x : x \in ToSet(names) <=> x \in ToSet(Order) /\ x \in T
  BY <1>1, FilteredIs DEF T
<1> QED BY <1>1, <1>2, <1>3

(* select takes the runtimes.                                                *)
LEMMA CollectInv ==
  ASSUME SelectionInv, NEW t \in Task, Collect(t)
  PROVE  SelectionInv'
<1> DEFINE c == task[t]
           names == Filtered(Order, {p \in Runtimes : Usable(Def(p))})
           x == IF names = <<>> THEN Idle ELSE Looking(c, FALSE, names)
<1>1. /\ c.at = "lock" /\ task' = [task EXCEPT ![t] = x]
      /\ UNCHANGED <<store, state, counter, strikes, catalog, now, events, turns, streak>>
  BY DEF Collect
<1>2. c \in Waiting
  BY <1>1, KindIs DEF SelectionInv, Tasks
<1>3. c.session \in Session /\ c.model \in Model \cup {Free} /\ c.strategy \in Strategy
  BY <1>2 DEF Waiting
<1>4. names \in Seq(Provider) /\ Once(names)
  BY NamesAre DEF SelectionInv, Held
<1>5. TaskOK(x)
  <2> HIDE DEF c, names
  <2>1. CASE names = <<>>
    BY <2>1 DEF TaskOK
  <2>2. CASE names # <<>>
    <3>1. Choosing(Looking(c, FALSE, names))
      BY <1>3, <1>4, <2>2, LookingIs
    <3> QED BY <2>2, <3>1 DEF TaskOK
  <2> QED BY <2>1, <2>2
<1> HIDE DEF x
<1> QED BY <1>1, <1>5, ReadInv

(* A provider whose health is good goes on to its circuit.                   *)
LEMMA ToCircuit ==
  ASSUME NEW c, Choosing(c), c.at = "health", NEW x, x = [c EXCEPT !.at = "circuit"]
  PROVE  /\ Choosing(x) /\ Kept(c, x) /\ x.at = "circuit" /\ x.n = c.n /\ x.ok = c.ok
         /\ x.lats = c.lats /\ x.defs = c.defs
<1>1. DOMAIN c = Fields /\ Known(c) /\ Placed(c)
  BY DEF Choosing, Known
<1>2. /\ Kept(c, x) /\ x.at = "circuit" /\ x.n = c.n /\ x.ok = c.ok
      /\ x.lats = c.lats /\ x.defs = c.defs
  BY <1>1 DEF Kept, Fields
<1>3. Known(x)
  BY <1>1, <1>2, KnownKept DEF Known
<1>4. Placed(x)
  BY <1>1, <1>2 DEF Placed, Kept
<1> QED BY <1>2, <1>3, <1>4 DEF Choosing

(* select looks at health and circuit of a provider.                         *)
LEMMA CheckInv ==
  ASSUME SelectionInv, NEW t \in Task, CheckHealth(t) \/ CheckCircuit(t)
  PROVE  SelectionInv'
<1> DEFINE c == task[t]
           p == c.names[c.n]
<1>1. /\ c.at \in {"health", "circuit"}
      /\ UNCHANGED <<store, state, counter, strikes, catalog, now, events, turns, streak>>
  BY DEF CheckHealth, CheckCircuit
<1>2. Choosing(c)
  BY <1>1, KindIs DEF SelectionInv, Tasks
<1>3. CASE CheckHealth(t)
  <2> DEFINE x == IF healthy[p] = FALSE THEN Past(c, c.ok) ELSE [c EXCEPT !.at = "circuit"]
  <2>1. c.at = "health" /\ task' = [task EXCEPT ![t] = x]
    BY <1>3 DEF CheckHealth
  <2>2. TaskOK(Past(c, c.ok))
    BY <1>1, <1>2, PastIs
  <2>3. TaskOK([c EXCEPT !.at = "circuit"])
    BY <1>2, <2>1, ToCircuit DEF TaskOK
  <2>4. TaskOK(x)
    BY <2>2, <2>3
  <2> HIDE DEF x, c
  <2> QED BY <1>1, <2>1, <2>4, ReadInv
<1>4. CASE CheckCircuit(t)
  <2> DEFINE ok == IF p \in open THEN c.ok ELSE c.ok \cup {p}
             x == Past(c, ok)
  <2>1. task' = [task EXCEPT ![t] = x]
    BY <1>4 DEF CheckCircuit
  <2>2. ok = c.ok \/ ok = c.ok \cup {c.names[c.n]}
    OBVIOUS
  <2> HIDE DEF ok, c
  <2>3. TaskOK(x)
    BY <1>1, <1>2, <2>2, PastIs
  <2> HIDE DEF x
  <2> QED BY <1>1, <2>1, <2>3, ReadInv
<1> QED BY <1>3, <1>4

Clocked(c, p, ms) ==
  [c EXCEPT !.lats[p] = ms, !.n = c.n + 1,
            !.at = IF c.n = Len(Rts(c)) THEN "order" ELSE "measure"]

(* One latency more.                                                         *)
LEMMA Gauged ==
  ASSUME Held, NEW c, Choosing(c), c.at = "measure", NEW p, p = Rts(c)[c.n],
         NEW x, x = Clocked(c, p, latency[p])
  PROVE  /\ Choosing(x) /\ Kept(c, x) /\ x.n = c.n + 1 /\ x.ok = c.ok /\ x.defs = c.defs
         /\ x.lats = [c.lats EXCEPT ![p] = latency[p]] /\ Rts(x) = Rts(c)
         /\ x.at = IF c.n = Len(Rts(c)) THEN "order" ELSE "measure"
<1>1. DOMAIN c = Fields /\ Known(c) /\ c.n \in 1..Len(Rts(c)) /\ c.lats \in [Provider -> Speed]
  BY DEF Choosing, Known, Placed
<1>2. Rts(c) \in Seq(Provider) /\ Len(Rts(c)) \in Nat
  BY <1>1, RtsIs
<1>3. p \in Provider /\ latency[p] \in Speed
  BY <1>1, <1>2 DEF Held
<1> DEFINE at == IF c.n = Len(Rts(c)) THEN "order" ELSE "measure"
<1>4. at \in {"order", "measure"} /\ (at = "measure" => c.n # Len(Rts(c)))
  OBVIOUS
<1>5. x = [c EXCEPT !.lats = [c.lats EXCEPT ![p] = latency[p]], !.n = c.n + 1, !.at = at]
  BY <1>1 DEF Fields, Clocked
<1> HIDE DEF at
<1>6. /\ Kept(c, x) /\ x.n = c.n + 1 /\ x.ok = c.ok /\ x.defs = c.defs /\ x.at = at
      /\ x.lats = [c.lats EXCEPT ![p] = latency[p]]
  BY <1>1, <1>5 DEF Kept, Fields
<1>7. x.lats \in [Provider -> Speed]
  BY <1>1, <1>3, <1>6
<1>8. Known(x)
  BY <1>1, <1>6, <1>7, KnownKept DEF Known
<1>9. Rts(x) = Rts(c)
  BY <1>6 DEF Rts, Kept
<1>10. Placed(x)
  <2>1. at = "measure" => c.n + 1 \in 1..Len(Rts(c))
    BY <1>1, <1>2, <1>4
  <2> QED BY <1>4, <1>6, <1>9, <2>1 DEF Placed
<1> QED BY <1>6, <1>8, <1>9, <1>10 DEF Choosing, at

(* select reads a latency.                                                   *)
LEMMA MeasureInv ==
  ASSUME SelectionInv, NEW t \in Task, Measure(t)
  PROVE  SelectionInv'
<1> DEFINE c == task[t]
           p == Rts(c)[c.n]
           x == Clocked(c, p, latency[p])
<1>1. /\ c.at = "measure" /\ task' = [task EXCEPT ![t] = x]
      /\ UNCHANGED <<store, state, counter, strikes, catalog, now, events, turns, streak>>
  BY DEF Measure, Clocked
<1>2. Choosing(c)
  BY <1>1, KindIs DEF SelectionInv, Tasks
<1>3. Choosing(x)
  <2> HIDE DEF c
  <2> QED BY <1>1, <1>2, Gauged DEF SelectionInv
<1> HIDE DEF x
<1> QED BY <1>1, <1>3, ReadInv DEF TaskOK

(* What the health map means to the strategies.                              *)
LEMMA HeldSpeeds == ASSUME NEW lats \in [Provider -> Speed] PROVE Speeds(lats)
BY DEF Speeds, Speed

(* A request with its candidates.                                            *)
LEMMA SettledKept ==
  ASSUME Tasks, NEW t \in Task, NEW cands, Settled(t, cands)
  PROVE  Tasks'
<1> DEFINE x == IF cands = <<>> THEN Idle
                ELSE [at |-> "routed", session |-> task[t].session, model |-> task[t].model,
                      strategy |-> task[t].strategy, cands |-> cands]
<1>1. task' = [task EXCEPT ![t] = x]
  BY DEF Settled
<1>2. TaskOK(x)
  BY DEF TaskOK
<1> HIDE DEF x
<1> QED BY <1>1, <1>2, TaskKept

(* select orders the candidates; round robin takes a turn.                   *)
LEMMA OrderedInv ==
  ASSUME SelectionInv, NEW t \in Task, SelectOrdered(t)
  PROVE  SelectionInv'
<1> DEFINE c == task[t]
<1>1. /\ c.at = "order"
      /\ UNCHANGED <<store, state, strikes, catalog, now, events, streak>>
  BY DEF SelectOrdered
<1>2. Held /\ Strikes /\ Tasks /\ Turning
  BY DEF SelectionInv
<1>3. Known(c)
  BY <1>1, <1>2, KindIs DEF Tasks, Choosing
<1>4. Held' /\ Strikes'
  BY <1>1, <1>2 DEF Held, Strikes, state
<1>5. PICK rts \in Scopes(c) :
        IF rts = <<>> THEN Settled(t, <<>>) /\ UNCHANGED <<counter, turns>>
        ELSE \E list \in Ordered(t, rts) :
               /\ \E cands \in Candidates(c, list) : Settled(t, cands)
               /\ IF c.strategy = "round_robin"
                  THEN /\ counter' = (counter + 1) % Period
                       /\ turns' = Led(rts, list[1])
                  ELSE UNCHANGED <<counter, turns>>
  BY DEF SelectOrdered
<1>6. rts \in Seq(Provider) /\ Once(rts) /\ Len(rts) <= Cardinality(Provider)
  BY <1>3, ScopeIs DEF Known
<1>7. \E cands : Settled(t, cands)
  BY <1>5
<1>8. Tasks'
  BY <1>2, <1>7, SettledKept
<1>9. CASE UNCHANGED <<counter, turns>>
  BY <1>2, <1>4, <1>8, <1>9 DEF SelectionInv, Turning
<1>10. CASE ~UNCHANGED <<counter, turns>>
  <2>1. PICK list \in Ordered(t, rts) :
          /\ c.strategy = "round_robin" /\ counter' = (counter + 1) % Period
          /\ turns' = Led(rts, list[1])
    BY <1>5, <1>10
  <2>2. rts # <<>> /\ ~c.pinned
    BY <1>3, <1>5, <1>10, <2>1 DEF Known
  <2>3. list = OrderRoundRobin(rts)
    BY <2>1, <2>2 DEF Ordered, Hybrids
  <2>4. counter \in Nat
    BY <1>2, Assumed DEF Turning
  <2>5. list[1] = rts[(counter % Len(rts)) + 1]
    BY <1>6, <2>2, <2>3, <2>4, TurnIs
  <2>6. /\ counter' = (counter + 1) % Period
        /\ turns' = Led(rts, rts[(counter % Len(rts)) + 1])
    BY <2>1, <2>5
  <2>7. Turning'
    BY <1>2, <1>6, <2>2, <2>6, TurnTaken
  <2> QED BY <1>4, <1>8, <2>7 DEF SelectionInv
<1> QED BY <1>9, <1>10

(* A runtime is a provider.                                                  *)
LEMMA RuntimeIs == ASSUME Held, NEW p \in Runtimes PROVE p \in Provider
BY DefIs DEF Held

(* An attempt ends, or a circuit is tried.                                   *)
LEMMA OutcomeInv ==
  ASSUME SelectionInv, NEW t \in Task, NEW p \in Provider,
         \/ \E ms \in Samples : FinishSuccess(t, p, ms)
         \/ FinishFailure(t, p) \/ Trial(t, p)
  PROVE  SelectionInv'
<1>0. Held /\ Strikes /\ Tasks /\ Turning
  BY DEF SelectionInv
<1>1. ASSUME NEW ms \in Samples, FinishSuccess(t, p, ms) PROVE SelectionInv'
  <2>1. /\ latency' = Averaged(p, ms) /\ healthy' = [healthy EXCEPT ![p] = TRUE]
        /\ task' = [task EXCEPT ![t] = Idle]
        /\ UNCHANGED <<store, open, counter, strikes, catalog, now, turns, streak>>
    BY <1>1 DEF FinishSuccess
  <2>2. latency' \in [Provider -> Speed]
    BY <1>0, <2>1, AverageIs
  <2>3. healthy' \in [Provider -> BOOLEAN \cup {None}]
    BY <1>0, <2>1 DEF Held
  <2>4. DOMAIN pin' = Session /\ \A s \in Session : pin'[s] # None => pin'[s].provider \in Provider
    BY <1>0, <1>1 DEF FinishSuccess, Held
  <2>5. TaskOK(Idle)
    BY DEF TaskOK
  <2>6. Tasks'
    BY <1>0, <2>1, <2>5, TaskKept
  <2>7. Held'
    BY <1>0, <2>1, <2>2, <2>3, <2>4 DEF Held
  <2> QED BY <1>0, <2>1, <2>6, <2>7 DEF SelectionInv, Strikes, Turning
<1>2. CASE FinishFailure(t, p)
  <2>1. /\ healthy' = [healthy EXCEPT ![p] = FALSE]
        /\ open' \in {open, open \cup {p}}
        /\ UNCHANGED <<store, latency, pin, counter, strikes, catalog, task, now, turns, streak>>
    BY <1>2 DEF FinishFailure
  <2>2. Held'
    BY <1>0, <2>1 DEF Held
  <2> QED BY <1>0, <2>1, <2>2 DEF SelectionInv, Strikes, Tasks, Turning
<1>3. CASE Trial(t, p)
  <2>1. /\ open' = open \ {p}
        /\ UNCHANGED <<store, healthy, latency, pin, counter, strikes, catalog, task, now,
                       turns, streak>>
    BY <1>3 DEF Trial
  <2>2. Held'
    BY <1>0, <2>1 DEF Held
  <2> QED BY <1>0, <2>1, <2>2 DEF SelectionInv, Strikes, Tasks, Turning
<1> QED BY <1>1, <1>2, <1>3

(* A strike prolongs the streak by no more than the count.                   *)
LEMMA StrikeInv ==
  ASSUME SelectionInv, NEW t \in Task, NEW i, RecordEmptyStrike(t, i)
  PROVE  SelectionInv'
<1> DEFINE c == task[t].cands[i]
           pair == <<c.provider, c.model>>
<1>0. Held /\ Strikes /\ Tasks /\ Turning
  BY DEF SelectionInv
<1>1. /\ strikes' = [strikes EXCEPT ![pair] = Struck(pair)]
      /\ streak' = [streak EXCEPT ![pair] = IF Fresh(pair) THEN streak[pair] + 1 ELSE 1]
      /\ UNCHANGED <<store, state, counter, catalog, task, now, turns>>
  BY DEF RecordEmptyStrike
<1> HIDE DEF pair
<1>2. now \in Nat /\ now \in 0..now
  BY <1>0 DEF Strikes
<1>3. DOMAIN strikes' = Pairs
  BY <1>0, <1>1 DEF Strikes
<1>4. streak' \in [Pairs -> Nat]
  <2> DEFINE v == IF Fresh(pair) THEN streak[pair] + 1 ELSE 1
  <2>1. streak \in [Pairs -> Nat] /\ (pair \in Pairs => v \in Nat)
    <3>1. streak \in [Pairs -> Nat]
      BY <1>0 DEF Strikes
    <3>2. pair \in Pairs => streak[pair] \in Nat
      BY <3>1
    <3> QED BY <3>1, <3>2
  <2>2. streak' = [streak EXCEPT ![pair] = v]
    BY <1>1
  <2> HIDE DEF v
  <2> QED BY <2>1, <2>2
<1>5. ASSUME NEW x \in Pairs, strikes'[x] # None
      PROVE  strikes'[x].n \in Nat /\ strikes'[x].at \in 0..now /\ streak'[x] <= strikes'[x].n
  <2>1. CASE x = pair
    <3>1. /\ strikes'[x] = Struck(x) /\ streak[x] \in Nat
          /\ streak'[x] = IF Fresh(x) THEN streak[x] + 1 ELSE 1
      BY <1>0, <1>1, <2>1 DEF Strikes
    <3>2. /\ Struck(x).at = now
          /\ Struck(x).n = IF strikes[x] = None THEN 1 ELSE strikes[x].n + 1
      BY DEF Struck
    <3>3. Fresh(x) => strikes[x] # None
      BY DEF Fresh
    <3>4. strikes[x] # None => strikes[x].n \in Nat /\ streak[x] <= strikes[x].n
      BY <1>0 DEF Strikes
    <3> QED BY <1>2, <3>1, <3>2, <3>3, <3>4
  <2>2. CASE x # pair
    <3>1. strikes'[x] = strikes[x] /\ streak'[x] = streak[x]
      BY <1>0, <1>1, <2>2 DEF Strikes
    <3> QED BY <1>0, <1>5, <3>1 DEF Strikes
  <2> QED BY <2>1, <2>2
<1>6. Strikes'
  BY <1>1, <1>2, <1>3, <1>4, <1>5 DEF Strikes
<1> QED BY <1>0, <1>1, <1>6 DEF SelectionInv, Held, Tasks, Turning, state

(* A request ends otherwise.                                                 *)
LEMMA GiveUpInv ==
  ASSUME SelectionInv, NEW t \in Task, GiveUp(t)
  PROVE  SelectionInv'
<1>1. /\ task' = [task EXCEPT ![t] = Idle]
      /\ UNCHANGED <<store, state, counter, strikes, catalog, now, events, turns, streak>>
  BY DEF GiveUp
<1>2. TaskOK(Idle)
  BY DEF TaskOK
<1>3. Tasks'
  BY <1>1, <1>2, TaskKept DEF SelectionInv
<1> QED BY <1>1, <1>3 DEF SelectionInv, Held, Strikes, Turning, state

(* Health and latency are observed.                                          *)
LEMMA ObservedInv ==
  ASSUME SelectionInv, NEW p, NEW good \in BOOLEAN, NEW ms \in Samples \cup {None},
         Observed(p, good, ms), open' \in {open, open \cup {p}}
  PROVE  SelectionInv'
<1>0. Held /\ Strikes /\ Tasks /\ Turning
  BY DEF SelectionInv
<1>1. /\ p \in Runtimes /\ healthy' = [healthy EXCEPT ![p] = good]
      /\ latency' = IF ms = None THEN latency ELSE Averaged(p, ms)
      /\ UNCHANGED <<store, pin, counter, strikes, catalog, task, now, turns, streak>>
  BY DEF Observed, Occurs
<1>2. p \in Provider
  BY <1>0, <1>1, RuntimeIs
<1>3. latency' \in [Provider -> Speed]
  <2>1. CASE ms = None
    BY <1>0, <1>1, <2>1 DEF Held
  <2>2. CASE ms # None
    BY <1>0, <1>1, <1>2, <2>2, AverageIs
  <2> QED BY <2>1, <2>2
<1>4. Held'
  BY <1>0, <1>1, <1>2, <1>3 DEF Held
<1> QED BY <1>0, <1>1, <1>4 DEF SelectionInv, Strikes, Tasks, Turning

(* Probes, and attempts of the streaming path.                               *)
LEMMA ProbesInv ==
  ASSUME SelectionInv, NEW good \in BOOLEAN, NEW ms \in Samples,
         RecordAttempt(good, ms) \/ \E p \in Runtimes : Probe(p, good, ms)
  PROVE  SelectionInv'
<1>1. CASE RecordAttempt(good, ms)
  <2>1. Observed(Upstream, good, ms) /\ open' \in {open, open \cup {Upstream}}
    BY <1>1 DEF RecordAttempt
  <2> QED BY <2>1, ObservedInv
<1>2. ASSUME NEW p \in Runtimes, Probe(p, good, ms) PROVE SelectionInv'
  <2> DEFINE took == IF good THEN ms ELSE None
  <2>1. Observed(p, good, took) /\ open' \in {open, open \cup {p}} /\ took \in Samples \cup {None}
    BY <1>2 DEF Probe
  <2> HIDE DEF took
  <2> QED BY <2>1, ObservedInv
<1> QED BY <1>1, <1>2

(* A definition more to read.                                                *)
LEMMA RereadIs ==
  ASSUME NEW c, NEW new, Known(c)
  PROVE  /\ Kept(c, Reread(c, new)) /\ Reread(c, new).at = c.at /\ Reread(c, new).n = c.n
         /\ Reread(c, new).ok = c.ok /\ Reread(c, new).lats = c.lats
         /\ Reread(c, new).defs =
              [p \in DOMAIN c.defs |-> c.defs[p] \cup
                 {d \in Active(new) : d.name = p /\ p \in Runtimes}]
         /\ Rts(Reread(c, new)) = Rts(c)
<1> DEFINE x == Reread(c, new)
           more == [p \in DOMAIN c.defs |-> c.defs[p] \cup
                      {d \in Active(new) : d.name = p /\ p \in Runtimes}]
<1>1. DOMAIN c = Fields /\ "defs" \in DOMAIN c
  BY DEF Known, Fields
<1>2. x = [c EXCEPT !.defs = more]
  BY <1>1 DEF Reread
<1> HIDE DEF x, more
<1>3. /\ Kept(c, x) /\ x.at = c.at /\ x.n = c.n /\ x.ok = c.ok /\ x.lats = c.lats
      /\ x.defs = more
  BY <1>1, <1>2 DEF Kept, Fields
<1>4. Rts(x) = Rts(c)
  BY <1>3 DEF Rts, Kept
<1> QED BY <1>3, <1>4 DEF x, more

(* It changes nothing of what a request knows.                               *)
LEMMA RereadKept ==
  ASSUME NEW c, NEW new, TaskOK(c)
  PROVE  TaskOK(Reread(c, new)) /\ (InSelect(Reread(c, new)) <=> InSelect(c))
<1>1. CASE Choosing(c)
  <2> DEFINE x == Reread(c, new)
  <2>1. Known(c) /\ Placed(c) /\ InSelect(c)
    BY <1>1, KindIs DEF Choosing
  <2>2. /\ Kept(c, x) /\ x.at = c.at /\ x.n = c.n /\ x.ok = c.ok /\ x.lats = c.lats
        /\ Rts(x) = Rts(c)
    BY <2>1, RereadIs
  <2> HIDE DEF x
  <2>3. Known(x) /\ InSelect(x)
    BY <2>1, <2>2, KnownKept DEF Known
  <2>4. Placed(x)
    BY <2>1, <2>2 DEF Placed, Kept
  <2> QED BY <2>1, <2>3, <2>4 DEF TaskOK, Choosing, x
<1>2. CASE ~Choosing(c)
  <2>1. CASE "defs" \notin DOMAIN c
    BY <2>1 DEF Reread
  <2>2. CASE "defs" \in DOMAIN c
    <3>1. c.at = "routed" /\ "names" \notin DOMAIN c
      BY <1>2, <2>2 DEF TaskOK, Idle, Waiting, Pinning, Finding
    <3> DEFINE more == [p \in DOMAIN c.defs |-> c.defs[p] \cup
                          {d \in Active(new) : d.name = p /\ p \in Runtimes}]
               x == [c EXCEPT !.defs = more]
    <3>2. Reread(c, new) = x
      BY <2>2 DEF Reread
    <3> HIDE DEF more
    <3>3. DOMAIN x = DOMAIN c /\ x.at = c.at
      OBVIOUS
    <3> HIDE DEF x
    <3> QED BY <3>1, <3>2, <3>3 DEF TaskOK, InSelect
  <2> QED BY <2>1, <2>2
<1> QED BY <1>1, <1>2

(* Settings are saved.                                                       *)
LEMMA RebuildInv ==
  ASSUME SelectionInv, NEW new \in Stores, Rebuild(new)
  PROVE  SelectionInv'
<1>0. Held /\ Strikes /\ Tasks /\ Turning
  BY DEF SelectionInv
<1>1. /\ store' = new /\ open' \in SUBSET open
      /\ task' = [t \in Task |-> Reread(task[t], new)]
      /\ UNCHANGED <<healthy, latency, pin, counter, strikes, catalog, now, turns, streak>>
  BY DEF Rebuild
<1>2. Held'
  BY <1>0, <1>1 DEF Held
<1>3. \A t \in Task : TaskOK(Reread(task[t], new))
  BY <1>0, RereadKept DEF Tasks
<1>4. Tasks'
  BY <1>1, <1>3 DEF Tasks
<1> QED BY <1>0, <1>1, <1>2, <1>4 DEF SelectionInv, Strikes, Turning

(* A listing only forgets strikes.                                           *)
LEMMA AggregateInv ==
  ASSUME SelectionInv, NEW ids, AggregateModels(ids)
  PROVE  SelectionInv'
<1>0. Held /\ Strikes /\ Tasks /\ Turning
  BY DEF SelectionInv
<1>1. UNCHANGED <<store, state, counter, task, now, turns, streak>>
  BY DEF AggregateModels
<1>2. DOMAIN strikes' = Pairs /\ \A x \in Pairs : strikes'[x] = None \/ strikes'[x] = strikes[x]
  BY <1>0 DEF AggregateModels, Strikes
<1>3. Strikes'
  BY <1>0, <1>1, <1>2 DEF Strikes
<1> QED BY <1>0, <1>1, <1>3 DEF SelectionInv, Held, Tasks, Turning, state

(* Time passes.                                                              *)
LEMMA ElapseInv ==
  ASSUME SelectionInv, Elapse
  PROVE  SelectionInv'
<1>0. Held /\ Strikes /\ Tasks /\ Turning
  BY DEF SelectionInv
<1>1. /\ now' = now + 1
      /\ pin' = [s \in Session |->
                   IF pin[s] # None /\ pin[s].expires <= now' THEN None ELSE pin[s]]
      /\ UNCHANGED <<store, healthy, latency, open, counter, strikes, task, turns, streak>>
  BY DEF Elapse
<1>2. Held'
  BY <1>0, <1>1 DEF Held
<1>3. Strikes'
  <2>1. now \in Nat /\ now' \in Nat /\ \A n \in 0..now : n \in 0..now'
    BY <1>0, <1>1 DEF Strikes
  <2> QED BY <1>0, <1>1, <2>1 DEF Strikes
<1> QED BY <1>0, <1>1, <1>2, <1>3 DEF SelectionInv, Tasks, Turning

(* Every step.                                                               *)
LEMMA SelectionStep == SelectionInv /\ [SelectionNext]_selection => SelectionInv'
<1> SUFFICES ASSUME SelectionInv, [SelectionNext]_selection PROVE SelectionInv'
  OBVIOUS
<1>1. CASE UNCHANGED selection
  BY <1>1 DEF selection, state, SelectionInv, Held, Strikes, Tasks, Turning
<1>2. CASE \E t \in Task, s \in Session, m \in Model \cup {Free} : Arrive(t, s, m)
  BY <1>2, ArriveInv
<1>3. CASE \E t \in Task : SelectPinned(t) \/ FindPinned(t) \/ Collect(t)
  BY <1>3, PinnedInv, FindPinnedInv, CollectInv
<1>4. CASE \E t \in Task : CheckHealth(t) \/ CheckCircuit(t) \/ Measure(t) \/ SelectOrdered(t)
  BY <1>4, CheckInv, MeasureInv, OrderedInv
<1>5. CASE \E t \in Task : GiveUp(t)
  BY <1>5, GiveUpInv
<1>6. CASE \E t \in Task, p \in Provider : \/ \E ms \in Samples : FinishSuccess(t, p, ms)
                                           \/ FinishFailure(t, p) \/ Trial(t, p)
  BY <1>6, OutcomeInv
<1>7. CASE \E t \in Task : task[t].at = "routed" /\
             \E i \in DOMAIN task[t].cands : RecordEmptyStrike(t, i)
  BY <1>7, StrikeInv
<1>8. CASE \E good \in BOOLEAN, ms \in Samples :
             RecordAttempt(good, ms) \/ \E p \in Runtimes : Probe(p, good, ms)
  BY <1>8, ProbesInv
<1>9. CASE \E new \in Stores : Rebuild(new)
  BY <1>9, RebuildInv
<1>10. CASE \E ids \in {<<>>} \cup {<<m>> : m \in Model} : AggregateModels(ids)
  BY <1>10, AggregateInv
<1>11. CASE Elapse
  BY <1>11, ElapseInv
<1>12. SelectionActs \/ UNCHANGED selection
  BY DEF SelectionNext
<1> QED BY <1>1, <1>2, <1>3, <1>4, <1>5, <1>6, <1>7, <1>8, <1>9, <1>10, <1>11, <1>12, Zenon
        DEF SelectionActs

-----------------------------------------------------------------------------
(* A finite set of numbers has a least and a greatest member.                 *)
LEMMA Extremes ==
  ASSUME NEW S, S \subseteq Nat, IsFiniteSet(S), S # {}
  PROVE  \A x \in S : Min(S) <= x /\ x <= Max(S) /\ Min(S) \in Nat /\ Max(S) \in Nat
<1>0. \A x \in S : x \in Nat
  OBVIOUS
<1>1. \E x \in S : \A y \in S : x <= y
  <2>1. IsWellFoundedOn(OpToRel(<, Nat), Nat)
    BY NatLessThanWellFounded
  <2>2. S \in SUBSET Nat
    OBVIOUS
  <2>3. PICK x \in S : \A k \in S : ~(<<k, x>> \in OpToRel(<, Nat))
    BY <2>1, <2>2, WFMin
  <2>4. \A k \in S : ~(k < x)
    BY <1>0, <2>3 DEF OpToRel
  <2>5. \A y \in S : x <= y
    BY <1>0, <2>4
  <2> QED BY <2>5
<1>2. \E x \in S : \A y \in S : x >= y
  <2> DEFINE n == Cardinality(S)
  <2>1. n \in Nat /\ ExistsBijection(1..n, S)
    BY FS_CardinalityType
  <2> HIDE DEF n
  <2>2. PICK f \in [1..n -> S] : \A y \in S : \E i \in 1..n : f[i] = y
    BY <2>1 DEF ExistsBijection, Bijection, Surjection
  <2>3. \A i \in 1..n : f[i] \in S
    BY <2>2
  <2>4. \A i \in 1..n : f[i] \in Nat
    BY <1>0, <2>3
  <2> DEFINE Tops == {k \in 0..n : k = 0 \/ \E x \in S : \A i \in 1..k : x >= f[i]}
  <2>5. 0 \in Tops
    BY <2>1
  <2>6. ASSUME NEW k \in 1..n, k - 1 \in Tops PROVE k \in Tops
    <3>0. k \in Nat /\ \A i \in 1..k : i \in 1..n /\ (i = k \/ i \in 1..(k - 1))
      BY <2>1
    <3>1. /\ k \in Nat /\ f[k] \in S /\ f[k] \in Nat
          /\ \A i \in 1..k : i = k \/ i \in 1..(k - 1)
      BY <2>3, <2>4, <3>0
    <3>2. CASE k - 1 = 0
      <4>1. \A i \in 1..k : f[k] >= f[i]
        BY <3>1, <3>2
      <4> QED BY <3>1, <4>1
    <3>3. CASE \E x \in S : \A i \in 1..(k - 1) : x >= f[i]
      <4>1. PICK x \in S : \A i \in 1..(k - 1) : x >= f[i]
        BY <3>3
      <4>2. \A i \in 1..k : f[i] \in Nat
        BY <2>4, <3>0
      <4>3. CASE x >= f[k]
        <5>1. \A i \in 1..k : x >= f[i]
          BY <3>1, <4>1, <4>3
        <5> QED BY <5>1
      <4>4. CASE ~(x >= f[k])
        <5>1. \A i \in 1..k : f[k] >= f[i]
          BY <3>1, <4>1, <4>2, <4>4
        <5> QED BY <3>1, <5>1
      <4> QED BY <4>3, <4>4
    <3> QED BY <2>6, <3>2, <3>3
  <2>7. n \in Tops
    <3> HIDE DEF Tops
    <3>1. \A k \in 0..n : k \in Tops
      BY <2>1, <2>5, <2>6, Induct
    <3> QED BY <2>1, <3>1
  <2>8. n # 0
    <3>1. PICK y \in S : TRUE
      OBVIOUS
    <3>2. PICK i \in 1..n : f[i] = y
      BY <2>2
    <3> QED BY <2>1
  <2> QED BY <2>2, <2>7, <2>8
<1>3. Min(S) \in S /\ \A y \in S : Min(S) <= y
  BY <1>1 DEF Min
<1>4. Max(S) \in S /\ \A y \in S : Max(S) >= y
  BY <1>2 DEF Max
<1> QED BY <1>3, <1>4

(* What is held has its type.                                                *)
LEMMA TypeHeld == ASSUME SelectionInv PROVE SelectionTypeOK
<1>1. ASSUME NEW p \in Provider, latency[p] # None
      PROVE  latency[p] \in Min(Samples)..Max(Samples)
  <2>1. PICK a \in Samples, b \in Samples : latency[p] \in Nat /\ a <= latency[p] /\ latency[p] <= b
    BY <1>1 DEF SelectionInv, Held, Speed
  <2>2. /\ Min(Samples) <= a /\ b <= Max(Samples)
        /\ Min(Samples) \in Nat /\ Max(Samples) \in Nat /\ a \in Nat /\ b \in Nat
    BY Assumed, Extremes
  <2> QED BY <2>1, <2>2
<1>2. \A t \in Task : task[t].at \in {"idle", "pin", "runtime", "lock", "health", "circuit",
                                     "measure", "order", "routed"}
  BY DEF SelectionInv, Tasks, TaskOK, Waiting, Pinning, Finding, Choosing, Placed, Idle
<1>3. counter \in 0..(Period - 1)
  BY DEF SelectionInv, Turning
<1>4. \A x \in Pairs : strikes[x] # None => strikes[x].n \in Nat /\ strikes[x].at \in 0..now
  BY DEF SelectionInv, Strikes
<1> QED BY <1>1, <1>2, <1>3, <1>4 DEF SelectionInv, Held, SelectionTypeOK

(* Leaders that stand one behind the other are different.                    *)
LEMMA LeadersDiffer == ASSUME Turning PROVE LeadsInTurn
<1> DEFINE list == turns.list
           leaders == turns.leaders
           n == Len(list)
           k == Len(leaders)
           r == counter % n
<1>1. /\ list \in Seq(Provider) /\ Once(list) /\ leaders \in Seq(Provider)
      /\ n \in Nat /\ k \in Nat /\ k <= n
      /\ \A i \in 1..k : leaders[i] = list[Back(r, n, k - i)]
  BY DEF Turning, InTurn
<1>2. counter \in Nat
  BY Assumed DEF Turning
<1> SUFFICES ASSUME NEW i \in 1..k, NEW j \in 1..k, leaders[i] = leaders[j]
             PROVE  i = j
  BY <1>1 DEF LeadsInTurn, IsInjective
<1>3. n \in Nat \ {0}
  <2> HIDE DEF n, k
  <2> QED BY <1>1
<1>4. r \in 0..(n - 1)
  <2> HIDE DEF n
  <2> QED BY <1>2, <1>3, Remainder
<1>5. /\ Back(r, n, k - i) \in 1..n /\ Back(r, n, k - j) \in 1..n
      /\ (Back(r, n, k - i) = Back(r, n, k - j) => i = j)
  <2> HIDE DEF r, n, k
  <2> QED BY <1>1, <1>3, <1>4 DEF Back
<1>6. list[Back(r, n, k - i)] = list[Back(r, n, k - j)]
  BY <1>1
<1> HIDE DEF list, leaders, r, k
<1>7. Back(r, n, k - i) = Back(r, n, k - j)
  BY <1>1, <1>5, <1>6 DEF Once
<1> QED BY <1>5, <1>7

(* LanesAndTurns: every key material has one lane and so one window, and while *)
(* the candidates stay the same each leads once before any leads again.       *)
THEOREM LanesTheorem == SelectionSpec => []LanesAndTurns
<1>1. SelectionInv => LanesAndTurns
  <2> SUFFICES ASSUME SelectionInv PROVE LanesAndTurns
    OBVIOUS
  <2>1. LanesCoverKeys
    BY LanesCover DEF SelectionInv, Held
  <2>2. LeadsInTurn
    BY LeadersDiffer DEF SelectionInv
  <2> QED BY <2>1, <2>2, TypeHeld DEF LanesAndTurns
<1> QED BY <1>1, SelectionInitInv, SelectionStep, PTL DEF SelectionSpec

-----------------------------------------------------------------------------
(* Only aggregate_models builds a listing at a moment.                       *)
LEMMA ListedBy ==
  ASSUME [SelectionNext]_selection, catalog' # catalog, now' = now, now \in Nat
  PROVE  \E ids \in {<<>>} \cup {<<m>> : m \in Model} : AggregateModels(ids)
<1>1. ~UNCHANGED selection
  BY DEF selection
<1>2. ASSUME NEW t \in Task, NEW s \in Session, NEW m \in Model \cup {Free}, Arrive(t, s, m)
      PROVE  FALSE
  BY <1>2 DEF Arrive
<1>3. ASSUME NEW t \in Task, SelectPinned(t) \/ FindPinned(t) \/ Collect(t) PROVE FALSE
  BY <1>3 DEF SelectPinned, FindPinned, Collect
<1>4. ASSUME NEW t \in Task, CheckHealth(t) \/ CheckCircuit(t) \/ Measure(t) \/ SelectOrdered(t)
      PROVE  FALSE
  BY <1>4 DEF CheckHealth, CheckCircuit, Measure, SelectOrdered
<1>5. ASSUME NEW t \in Task, GiveUp(t) PROVE FALSE
  BY <1>5 DEF GiveUp
<1>6. ASSUME NEW t \in Task, NEW p \in Provider,
             \/ \E ms \in Samples : FinishSuccess(t, p, ms)
             \/ FinishFailure(t, p) \/ Trial(t, p)
      PROVE  FALSE
  BY <1>6 DEF FinishSuccess, FinishFailure, Trial
<1>7. ASSUME NEW t \in Task, NEW i, RecordEmptyStrike(t, i) PROVE FALSE
  BY <1>7 DEF RecordEmptyStrike
<1>8. ASSUME NEW good \in BOOLEAN, NEW ms \in Samples,
             RecordAttempt(good, ms) \/ \E p \in Runtimes : Probe(p, good, ms)
      PROVE  FALSE
  BY <1>8 DEF RecordAttempt, Probe, Observed
<1>9. ASSUME NEW new \in Stores, Rebuild(new) PROVE FALSE
  BY <1>9 DEF Rebuild
<1>10. ~Elapse
  BY DEF Elapse
<1>11. SelectionActs
  BY <1>1 DEF SelectionNext
<1> QED BY <1>2, <1>3, <1>4, <1>5, <1>6, <1>7, <1>8, <1>9, <1>10, <1>11, Zenon
        DEF SelectionActs

(* The upstream's ids alone are a listing.                                   *)
LEMMA Upstreamed ==
  ASSUME NEW ids \in {<<>>} \cup {<<m>> : m \in Model}
  PROVE  [i \in DOMAIN ids |-> Relayed(ids[i])] \in Listings
<1> DEFINE l == [i \in DOMAIN ids |-> Relayed(ids[i])]
<1>1. ids \in Seq(Model) /\ Len(ids) \in {0, 1}
  <2>1. CASE ids = <<>>
    BY <2>1
  <2>2. ASSUME NEW m \in Model, ids = <<m>> PROVE ids \in Seq(Model) /\ Len(ids) \in {0, 1}
    BY <2>2
  <2> QED BY <2>1, <2>2
<1>2. ASSUME NEW i \in 1..Len(ids) PROVE Relayed(ids[i]) \in Entries
  <2>1. ids[i] \in Models
    BY <1>1 DEF Models
  <2> QED BY <2>1 DEF Entries
<1>3. l \in [1..Len(ids) -> Entries]
  BY <1>1, <1>2
<1>4. l \in Seq(Entries) /\ Len(l) = Len(ids)
  BY <1>1, <1>3
<1> HIDE DEF l
<1>5. \A i, j \in 1..Len(l) : i = j
  BY <1>1, <1>4
<1> QED BY <1>4, <1>5 DEF Listings, l

(* A listing as it is built.                                                 *)
LEMMA Built ==
  ASSUME SelectionInv, [SelectionNext]_selection, catalog' # catalog, now' = now
  PROVE  /\ catalog' \in Listings
         /\ \A p \in Runtimes \ {Upstream} : \A m \in ToSet(Offered(p)) : Has(catalog', m)
<1>1. store \in Stores /\ now \in Nat
  BY DEF SelectionInv, Held, Strikes
<1>2. PICK ids \in {<<>>} \cup {<<m>> : m \in Model} : AggregateModels(ids)
  BY <1>1, ListedBy
<1> DEFINE first == [i \in DOMAIN ids |-> Relayed(ids[i])]
           Others == Runtimes \ {Upstream}
<1>3. first \in Listings
  BY Upstreamed
<1>4. PICK others \in SetToSeqs(Others) : catalog' = MergeAll(first, others)
  BY <1>2 DEF AggregateModels
<1> HIDE DEF first, Others
<1>5. IsFiniteSet(Others)
  <2>1. Others \subseteq Provider
    BY <1>1, DefIs DEF Others
  <2> QED BY <2>1, Assumed, FS_Subset
<1>6. others \in Seq(Others) /\ ToSet(others) = Others
  BY <1>5, Arranged
<1>7. others \in Seq(Runtimes)
  <2>1. \A p \in Others : p \in Runtimes
    BY DEF Others
  <2> QED BY <1>6, <2>1
<1>8. /\ Grown(first, MergeAll(first, others))
      /\ \A p \in ToSet(others) : \A m \in ToSet(Offered(p)) : Has(MergeAll(first, others), m)
  BY <1>1, <1>3, <1>7, AllMerged
<1> QED BY <1>4, <1>6, <1>8 DEF Grown, Others

(* Each id is listed once, and with the strikes that have not decayed.       *)
LEMMA ListingIs ==
  ASSUME SelectionInv, [SelectionNext]_selection
  PROVE  StrikesShown /\ ListedOnce
<1> SUFFICES ASSUME catalog' # catalog, now' = now PROVE StrikesShown /\ ListedOnce
  BY DEF StrikesShown, ListedOnce
<1>1. /\ catalog' \in Listings
      /\ \A p \in Runtimes \ {Upstream} : \A m \in ToSet(Offered(p)) : Has(catalog', m)
  BY Built
<1>2. /\ catalog' \in Seq(Entries) /\ DOMAIN catalog' = 1..Len(catalog')
      /\ \A i, j \in 1..Len(catalog') : catalog'[i].id = catalog'[j].id => i = j
  BY <1>1 DEF Listings
<1>3. ListedOnce
  BY <1>1, <1>2 DEF ListedOnce, IsInjective, Has
<1>4. ASSUME NEW i \in DOMAIN catalog'
      PROVE  LET pair == <<catalog'[i].owner, catalog'[i].id>>  shown == catalog'[i].strikes IN
               IF catalog'[i].owner \notin Runtimes THEN shown = None
               ELSE IF Fresh(pair) THEN shown >= streak[pair] ELSE shown = 0
  <2> DEFINE e == catalog'[i]
             pair == <<e.owner, e.id>>
  <2>1. e \in Entries
    BY <1>2
  <2>2. pair \in Pairs /\ e.strikes = IF e.owner \in Runtimes THEN Shown(pair) ELSE None
    <3>1. store \in Stores
      BY DEF SelectionInv, Held
    <3> HIDE DEF e
    <3> QED BY <2>1, <3>1, EntryIs
  <2> HIDE DEF pair
  <2>3. CASE e.owner \notin Runtimes
    BY <2>2, <2>3
  <2>4. CASE e.owner \in Runtimes /\ Fresh(pair)
    <3>1. Shown(pair) = strikes[pair].n /\ strikes[pair] # None
      BY <2>4 DEF Shown, Fresh
    <3>2. strikes[pair].n \in Nat /\ streak[pair] <= strikes[pair].n /\ streak[pair] \in Nat
      BY <2>2, <3>1 DEF SelectionInv, Strikes
    <3>3. e.strikes >= streak[pair]
      BY <2>2, <2>4, <3>1, <3>2
    <3> QED BY <2>4, <3>3 DEF pair
  <2>5. CASE e.owner \in Runtimes /\ ~Fresh(pair)
    BY <2>2, <2>5 DEF Shown, pair
  <2> QED BY <2>3, <2>4, <2>5
<1>5. StrikesShown
  BY <1>4 DEF StrikesShown
<1> QED BY <1>3, <1>5

(* ListingSound: /v1/models lists each id once and every model that a provider *)
(* offers, and no strike that has not decayed is missing from it, although     *)
(* looking at strikes also removes them.                                     *)
THEOREM ListingTheorem == SelectionSpec => ListingSound
<1>1. SelectionInv /\ [SelectionNext]_selection => [StrikesShown /\ ListedOnce]_selection
  BY ListingIs
<1> QED BY <1>1, SelectionInitInv, SelectionStep, PTL DEF SelectionSpec, ListingSound

-----------------------------------------------------------------------------
(* What there is to read of a provider, and what a request that looks at the   *)
(* providers has read of one that nothing has happened to meanwhile: its       *)
(* definition, whether it passes once it is behind, and its latency.          *)
View(p) == [defs |-> {d \in Active(store) : d.name = p}, healthy |-> healthy[p],
            open |-> {p} \cap open, latency |-> latency[p]]
Fine(v) == v.healthy # FALSE /\ v.open = {}
Live(v) == \E d \in v.defs : Usable(d)
Named(c, p, v) ==
  /\ p \in ToSet(c.names) => p \in DOMAIN c.defs /\ c.defs[p] = v.defs /\ Live(v)
  /\ ~c.pinned /\ Live(v) => p \in ToSet(c.names)
Judged(c, p, v) ==
  \A i \in 1..Len(c.names) : c.names[i] = p =>
    /\ c.at \in {"measure", "order"} \/ i < c.n => (p \in c.ok <=> Fine(v))
    /\ c.at = "circuit" /\ i = c.n => v.healthy # FALSE
Timed(c, p, v) ==
  /\ c.at = "measure" =>
       \A i \in 1..Len(Rts(c)) : i < c.n /\ Rts(c)[i] = p => c.lats[p] = v.latency
  /\ c.at = "order" /\ Measuring(c) /\ p \in c.ok => c.lats[p] = v.latency
Read(c, p, v) == Named(c, p, v) /\ Judged(c, p, v) /\ Timed(c, p, v)

Calm ==
  /\ calm \in [Task -> SUBSET Provider]
  /\ \A t \in Task : InSelect(task[t]) => \A p \in calm[t] : Read(task[t], p, View(p))

(* The names and the definitions stay.                                       *)
LEMMA NamedKept ==
  ASSUME NEW c, NEW x, Kept(c, x), x.defs = c.defs, NEW p, NEW v, Named(c, p, v)
  PROVE  Named(x, p, v)
BY DEF Named, Kept

(* What follows a name.                                                      *)
LEMMA PastShape ==
  ASSUME NEW c, Choosing(c), c.at \in {"health", "circuit"}, NEW ok, NEW x, x = Past(c, ok)
  PROVE  \/ /\ c.n < Len(c.names) /\ Kept(c, x) /\ x.at = "health" /\ x.n = c.n + 1
            /\ x.ok = ok /\ x.defs = c.defs
         \/ /\ c.n = Len(c.names) /\ ok # {} /\ Kept(c, x) /\ x.n = 1
            /\ x.at = (IF Measuring(c) THEN "measure" ELSE "order")
            /\ x.ok = ok /\ x.defs = c.defs
         \/ c.n = Len(c.names) /\ ok = {} /\ c.pinned /\ x = Asking(c)
         \/ c.n = Len(c.names) /\ ok = {} /\ ~c.pinned /\ x = Idle
<1>1. DOMAIN c = Fields /\ c.n \in 1..Len(c.names) /\ Len(c.names) \in Nat
  BY DEF Choosing, Known, Placed
<1>2. CASE c.n < Len(c.names)
  <2>1. x = [c EXCEPT !.at = "health", !.n = c.n + 1, !.ok = ok]
    BY <1>2 DEF Past
  <2> QED BY <1>1, <1>2, <2>1 DEF Kept, Fields
<1>3. CASE ~(c.n < Len(c.names)) /\ ok # {}
  <2> DEFINE next == IF Measuring(c) THEN "measure" ELSE "order"
  <2>1. x = [c EXCEPT !.at = next, !.n = 1, !.ok = ok]
    BY <1>3 DEF Past
  <2> HIDE DEF next
  <2>2. Kept(c, x) /\ x.n = 1 /\ x.at = next /\ x.ok = ok /\ x.defs = c.defs
    BY <1>1, <2>1 DEF Kept, Fields
  <2>3. c.n = Len(c.names)
    BY <1>1, <1>3
  <2> QED BY <1>3, <2>2, <2>3 DEF next
<1>4. CASE ~(c.n < Len(c.names)) /\ ok = {} /\ c.pinned
  BY <1>1, <1>4 DEF Past
<1>5. CASE ~(c.n < Len(c.names)) /\ ok = {} /\ ~c.pinned
  BY <1>1, <1>5 DEF Past
<1> QED BY <1>2, <1>3, <1>4, <1>5

(* A name has been judged.                                                   *)
LEMMA PastRead ==
  ASSUME NEW c, Choosing(c), c.at \in {"health", "circuit"},
         NEW ok, ok = c.ok \/ ok = c.ok \cup {c.names[c.n]},
         NEW p, NEW v, Read(c, p, v), c.names[c.n] = p => (p \in ok <=> Fine(v)),
         NEW x, x = Past(c, ok)
  PROVE  /\ InSelect(x) => Read(x, p, v)
         /\ x.at = "idle" => ~c.pinned /\ ~(Live(v) /\ Fine(v))
<1>1. /\ Known(c) /\ c.n \in 1..Len(c.names) /\ c.names \in Seq(Provider) /\ Once(c.names)
      /\ Len(c.names) \in Nat /\ DOMAIN c.names = 1..Len(c.names)
  BY DEF Choosing, Known, Placed
<1>2. Named(c, p, v) /\ Judged(c, p, v)
  BY DEF Read
<1>3. ASSUME NEW i \in 1..Len(c.names), c.names[i] = p, i <= c.n
      PROVE  p \in ok <=> Fine(v)
  <2>1. CASE i = c.n
    BY <1>3, <2>1
  <2>2. CASE i # c.n
    <3>1. i < c.n /\ p # c.names[c.n]
      BY <1>1, <1>3, <2>2 DEF Once
    <3>2. p \in c.ok <=> Fine(v)
      BY <1>2, <1>3, <3>1 DEF Judged
    <3> QED BY <3>1, <3>2
  <2> QED BY <2>1, <2>2
<1>4. CASE c.n < Len(c.names) /\ Kept(c, x) /\ x.at = "health" /\ x.n = c.n + 1
           /\ x.ok = ok /\ x.defs = c.defs
  <2>1. Named(x, p, v)
    BY <1>2, <1>4, NamedKept
  <2>2. \A i \in 1..Len(c.names) : i < x.n => i <= c.n
    BY <1>1, <1>4
  <2>3. Judged(x, p, v)
    BY <1>3, <1>4, <2>2 DEF Judged, Kept
  <2> QED BY <1>4, <2>1, <2>3 DEF Read, Timed
<1>5. CASE c.n = Len(c.names) /\ ok # {} /\ Kept(c, x) /\ x.n = 1
           /\ x.at = (IF Measuring(c) THEN "measure" ELSE "order")
           /\ x.ok = ok /\ x.defs = c.defs
  <2>1. Named(x, p, v)
    BY <1>2, <1>5, NamedKept
  <2>2. x.at \in {"measure", "order"} /\ (x.at = "order" => ~Measuring(x))
    BY <1>5 DEF Measuring, Kept
  <2>3. \A i \in 1..Len(c.names) : i <= c.n
    BY <1>1, <1>5
  <2>4. Judged(x, p, v)
    BY <1>3, <1>5, <2>2, <2>3 DEF Judged, Kept
  <2>5. Timed(x, p, v)
    <3>1. \A i \in 1..Len(Rts(x)) : ~(i < x.n)
      BY <1>5
    <3> QED BY <2>2, <3>1 DEF Timed
  <2> QED BY <2>1, <2>2, <2>4, <2>5 DEF Read
<1>6. CASE c.n = Len(c.names) /\ ok = {} /\ c.pinned /\ x = Asking(c)
  BY <1>6 DEF Asking, InSelect
<1>7. CASE c.n = Len(c.names) /\ ok = {} /\ ~c.pinned /\ x = Idle
  <2>1. ASSUME Live(v), Fine(v) PROVE FALSE
    <3>1. PICK i \in 1..Len(c.names) : c.names[i] = p
      BY <1>1, <1>2, <1>7, <2>1 DEF Named, ToSet
    <3>2. i <= c.n
      BY <1>1, <1>7
    <3>3. p \in ok
      BY <1>3, <2>1, <3>1, <3>2
    <3> QED BY <1>7, <3>3
  <2>2. ~InSelect(x)
    BY <1>7 DEF Idle, InSelect
  <2> QED BY <1>7, <2>1, <2>2
<1> QED BY <1>4, <1>5, <1>6, <1>7, PastShape

(* A name is healthy, and its circuit is next.                               *)
LEMMA CircuitRead ==
  ASSUME NEW c, Choosing(c), c.at = "health", NEW x, x = [c EXCEPT !.at = "circuit"],
         NEW p, NEW v, Read(c, p, v), c.names[c.n] = p => v.healthy # FALSE
  PROVE  Read(x, p, v)
<1>1. Kept(c, x) /\ x.at = "circuit" /\ x.n = c.n /\ x.ok = c.ok /\ x.defs = c.defs
  BY ToCircuit
<1>2. Named(x, p, v)
  BY <1>1, NamedKept DEF Read
<1>3. Judged(x, p, v)
  BY <1>1 DEF Read, Judged, Kept
<1> QED BY <1>1, <1>2, <1>3 DEF Read, Timed

(* A latency has been read.                                                  *)
LEMMA GaugeRead ==
  ASSUME Held, NEW c, Choosing(c), c.at = "measure", NEW q, q = Rts(c)[c.n],
         NEW x, Kept(c, x), x.n = c.n + 1, x.ok = c.ok, x.defs = c.defs, Rts(x) = Rts(c),
         x.lats = [c.lats EXCEPT ![q] = latency[q]],
         x.at = IF c.n = Len(Rts(c)) THEN "order" ELSE "measure",
         NEW p, NEW v, Read(c, p, v), q = p => latency[p] = v.latency
  PROVE  Read(x, p, v)
<1>1. /\ Kept(c, x) /\ x.n = c.n + 1 /\ x.ok = c.ok /\ x.defs = c.defs
      /\ x.lats = [c.lats EXCEPT ![q] = latency[q]] /\ Rts(x) = Rts(c)
      /\ x.at = IF c.n = Len(Rts(c)) THEN "order" ELSE "measure"
  OBVIOUS
<1>2. /\ c.n \in 1..Len(Rts(c)) /\ c.lats \in [Provider -> Speed] /\ Known(c)
      /\ c.ok \subseteq ToSet(c.names)
  BY DEF Choosing, Known, Placed
<1>3. /\ Rts(c) \in Seq(Provider) /\ Len(Rts(c)) \in Nat /\ ToSet(Rts(c)) = c.ok
      /\ DOMAIN Rts(c) = 1..Len(Rts(c))
  BY <1>2, RtsIs
<1>4. q \in Provider
  BY <1>2, <1>3
<1>5. Named(x, p, v)
  BY <1>1, NamedKept DEF Read
<1>6. Judged(x, p, v)
  BY <1>1 DEF Read, Judged, Kept
<1>7. ASSUME NEW i \in 1..Len(Rts(c)), Rts(c)[i] = p, i <= c.n
      PROVE  x.lats[p] = v.latency
  <2>1. p \in Provider
    BY <1>3, <1>7
  <2>2. CASE q = p
    BY <1>1, <1>2, <1>4, <2>2
  <2>3. CASE q # p
    <3>1. i < c.n
      BY <1>2, <1>3, <1>7, <2>3
    <3>2. c.lats[p] = v.latency
      BY <1>7, <3>1 DEF Read, Timed
    <3> QED BY <1>1, <1>2, <1>4, <2>1, <2>3, <3>2
  <2> QED BY <2>2, <2>3
<1>8. CASE c.n = Len(Rts(c))
  <2>1. ASSUME p \in x.ok PROVE x.lats[p] = v.latency
    <3>1. PICK i \in 1..Len(Rts(c)) : Rts(c)[i] = p
      BY <1>1, <1>3, <2>1 DEF ToSet
    <3>2. i <= c.n
      BY <1>3, <1>8
    <3> QED BY <1>7, <3>1, <3>2
  <2>2. Timed(x, p, v)
    BY <1>1, <1>8, <2>1 DEF Timed
  <2> QED BY <1>5, <1>6, <2>2 DEF Read
<1>9. CASE c.n # Len(Rts(c))
  <2>1. \A i \in 1..Len(Rts(c)) : i < x.n => i <= c.n
    BY <1>1, <1>2, <1>3
  <2>2. Timed(x, p, v)
    BY <1>1, <1>7, <1>9, <2>1 DEF Timed
  <2> QED BY <1>5, <1>6, <2>2 DEF Read
<1> QED BY <1>8, <1>9

(* A save that leaves the provider as it is adds no definition of it.         *)
LEMMA RereadRead ==
  ASSUME NEW c, Known(c), NEW new, NEW p, NEW v, Read(c, p, v),
         v.defs = {d \in Active(new) : d.name = p}
  PROVE  Read(Reread(c, new), p, v)
<1> DEFINE x == Reread(c, new)
           more == {d \in Active(new) : d.name = p /\ p \in Runtimes}
<1>1. /\ Kept(c, x) /\ x.at = c.at /\ x.n = c.n /\ x.ok = c.ok /\ x.lats = c.lats
      /\ Rts(x) = Rts(c) /\ DOMAIN x.defs = DOMAIN c.defs
      /\ p \in DOMAIN c.defs => x.defs[p] = c.defs[p] \cup more
  <2>1. /\ Kept(c, x) /\ x.at = c.at /\ x.n = c.n /\ x.ok = c.ok /\ x.lats = c.lats
        /\ Rts(x) = Rts(c)
    BY RereadIs
  <2>2. x.defs = [r \in DOMAIN c.defs |-> c.defs[r] \cup
                    {d \in Active(new) : d.name = r /\ r \in Runtimes}]
    BY RereadIs
  <2> HIDE DEF x
  <2> QED BY <2>1, <2>2
<1>2. more \subseteq v.defs
  OBVIOUS
<1> HIDE DEF x, more
<1>3. Named(x, p, v)
  BY <1>1, <1>2 DEF Read, Named, Kept
<1>4. Judged(x, p, v)
  BY <1>1 DEF Read, Judged, Kept
<1>5. Timed(x, p, v)
  BY <1>1 DEF Read, Timed, Measuring, Kept
<1> QED BY <1>3, <1>4, <1>5 DEF Read, x

(* What there is to read of a provider that nothing happens to stays.         *)
LEMMA ViewKept == ASSUME NEW p, Undisturbed(p) PROVE View(p)' = View(p)
BY DEF Undisturbed, View, Active

(* A provider has one definition.                                            *)
LEMMA ViewIs ==
  ASSUME store \in Stores, NEW p
  PROVE  /\ p \in Runtimes => View(p).defs = {Def(p)}
         /\ Live(View(p)) <=> p \in Runtimes /\ Usable(Def(p))
         /\ Fine(View(p)) <=> healthy[p] # FALSE /\ p \notin open
<1>1. View(p).defs = {d \in Active(store) : d.name = p}
  BY DEF View
<1>2. ASSUME p \in Runtimes PROVE View(p).defs = {Def(p)}
  <2>1. Def(p) \in Active(store) /\ Def(p).name = p
    BY <1>2, DefIs
  <2>2. ASSUME NEW d \in Active(store), NEW e \in Active(store), d.name = e.name PROVE d = e
    <3>1. /\ \A i, j \in 1..Len(store.defs) : store.defs[i].name = store.defs[j].name => i = j
          /\ store.defs \in Seq(ToSet(store.defs))
      BY StoreIs
    <3>2. DOMAIN store.defs = 1..Len(store.defs)
      BY <3>1
    <3>3. PICK i \in 1..Len(store.defs), j \in 1..Len(store.defs) :
            d = store.defs[i] /\ e = store.defs[j]
      BY <3>2 DEF Active, ToSet
    <3> QED BY <2>2, <3>1, <3>3
  <2> QED BY <1>1, <2>1, <2>2
<1>3. p \notin Runtimes => View(p).defs = {}
  BY <1>1 DEF Runtimes
<1>4. Live(View(p)) <=> p \in Runtimes /\ Usable(Def(p))
  BY <1>2, <1>3 DEF Live
<1>5. View(p).healthy = healthy[p] /\ View(p).open = {p} \cap open
  BY DEF View
<1>6. Fine(View(p)) <=> healthy[p] # FALSE /\ p \notin open
  BY <1>5 DEF Fine
<1> QED BY <1>2, <1>4, <1>6

(* The runtimes have just been taken.                                        *)
LEMMA LookRead ==
  ASSUME store \in Stores, NEW c, NEW byPin \in BOOLEAN, NEW names \in Seq(Provider),
         \A q \in ToSet(names) : q \in Runtimes /\ Usable(Def(q)),
         ~byPin => \A q \in Runtimes : Usable(Def(q)) => q \in ToSet(names), NEW p
  PROVE  Read(Looking(c, byPin, names), p, View(p))
<1> DEFINE x == Looking(c, byPin, names)
           v == View(p)
<1>1. /\ x.at = "health" /\ x.pinned = byPin /\ x.names = names /\ x.n = 1
      /\ x.defs = [r \in Runtimes |-> {Def(r)}]
  BY DEF Looking
<1> HIDE DEF x
<1>2. (p \in Runtimes => v.defs = {Def(p)}) /\ (Live(v) <=> p \in Runtimes /\ Usable(Def(p)))
  BY ViewIs
<1> HIDE DEF v
<1>3. p \in Runtimes => p \in DOMAIN x.defs /\ x.defs[p] = {Def(p)}
  BY <1>1
<1>4. Named(x, p, v)
  BY <1>1, <1>2, <1>3 DEF Named
<1>5. \A i \in 1..Len(names) : ~(i < x.n)
  BY <1>1
<1>6. Judged(x, p, v)
  BY <1>1, <1>5 DEF Judged
<1> QED BY <1>1, <1>4, <1>6 DEF Read, Timed, x, v

(* The step of a request.                                                    *)
Only(u) == \E x : task' = [task EXCEPT ![u] = x]

(* Each step is one request's, or a save, or leaves the requests alone.       *)
LEMMA StepIs ==
  ASSUME SelectionInv, SelectionActs
  PROVE  \/ task' = task
         \/ \E new \in Stores : Rebuild(new)
         \/ \E u \in Task : /\ Only(u) /\ ~InSelect(task[u]) /\ ~InSelect(task'[u])
         \/ \E u \in Task : /\ Only(u)
                            /\ \/ FindPinned(u) \/ Collect(u) \/ CheckHealth(u)
                               \/ CheckCircuit(u) \/ Measure(u) \/ SelectOrdered(u)
<1>0. DOMAIN task = Task /\ \A u \in Task : TaskOK(task[u])
  BY DEF SelectionInv, Tasks
<1>1. ~InSelect(Idle)
  BY DEF Idle, InSelect
<1>2. ASSUME NEW u \in Task, NEW s \in Session, NEW m \in Model \cup {Free}, Arrive(u, s, m)
      PROVE  Only(u) /\ ~InSelect(task[u]) /\ ~InSelect(task'[u])
  <2> DEFINE how == IF m = Free THEN "free" ELSE store.strategy
             x == [at |-> IF how = "sticky_affinity" THEN "pin" ELSE "lock",
                   session |-> s, model |-> m, strategy |-> how]
  <2>1. task[u] = Idle /\ task' = [task EXCEPT ![u] = x]
    BY <1>2 DEF Arrive
  <2>2. ~InSelect(x)
    BY DEF InSelect
  <2> HIDE DEF x
  <2> QED BY <1>0, <1>1, <2>1, <2>2 DEF Only
<1>3. ASSUME NEW u \in Task, SelectPinned(u)
      PROVE  Only(u) /\ ~InSelect(task[u]) /\ ~InSelect(task'[u])
  <2> DEFINE c == task[u]
             p == GetSticky(c.session)
             x == IF p = None THEN Asking(c)
                  ELSE [at |-> "runtime", session |-> c.session, model |-> c.model,
                        strategy |-> c.strategy, provider |-> p]
  <2>1. c.at = "pin" /\ task' = [task EXCEPT ![u] = x]
    BY <1>3 DEF SelectPinned
  <2>2. ~InSelect(x)
    BY DEF InSelect, Asking
  <2>3. ~InSelect(c)
    BY <1>0, <2>1, KindIs
  <2> HIDE DEF x
  <2> QED BY <1>0, <2>1, <2>2, <2>3 DEF Only
<1>4. ASSUME NEW u \in Task, task[u].at = "routed", task' = [task EXCEPT ![u] = Idle]
      PROVE  Only(u) /\ ~InSelect(task[u]) /\ ~InSelect(task'[u])
  <2>1. ~InSelect(task[u])
    BY <1>0, <1>4, KindIs
  <2> QED BY <1>0, <1>1, <1>4, <2>1 DEF Only
<1>5. ASSUME NEW u \in Task, GiveUp(u) PROVE Only(u) /\ ~InSelect(task[u]) /\ ~InSelect(task'[u])
  BY <1>4, <1>5 DEF GiveUp
<1>6. ASSUME NEW u \in Task, NEW p \in Provider, NEW ms \in Samples, FinishSuccess(u, p, ms)
      PROVE  Only(u) /\ ~InSelect(task[u]) /\ ~InSelect(task'[u])
  BY <1>4, <1>6 DEF FinishSuccess, Outcome
<1>7. ASSUME NEW u \in Task, NEW p \in Provider, FinishFailure(u, p) \/ Trial(u, p)
      PROVE  task' = task
  BY <1>7 DEF FinishFailure, Trial
<1>8. ASSUME NEW u \in Task, NEW i, RecordEmptyStrike(u, i) PROVE task' = task
  BY <1>8 DEF RecordEmptyStrike
<1>9. ASSUME NEW good \in BOOLEAN, NEW ms \in Samples,
             RecordAttempt(good, ms) \/ \E p \in Runtimes : Probe(p, good, ms)
      PROVE  task' = task
  BY <1>9 DEF RecordAttempt, Probe, Observed
<1>10. ASSUME NEW ids, AggregateModels(ids) PROVE task' = task
  BY <1>10 DEF AggregateModels
<1>11. Elapse => task' = task
  BY DEF Elapse
<1>12. ASSUME NEW u \in Task, \/ FindPinned(u) \/ Collect(u) \/ CheckHealth(u)
                              \/ CheckCircuit(u) \/ Measure(u) \/ SelectOrdered(u)
       PROVE  Only(u)
  <2>1. CASE FindPinned(u)
    BY <2>1, Zenon DEF FindPinned, Only
  <2>2. CASE Collect(u)
    BY <2>2, Zenon DEF Collect, Only
  <2>3. CASE CheckHealth(u)
    BY <2>3, Zenon DEF CheckHealth, Only
  <2>4. CASE CheckCircuit(u)
    BY <2>4, Zenon DEF CheckCircuit, Only
  <2>5. CASE Measure(u)
    BY <2>5, Zenon DEF Measure, Only
  <2>6. CASE SelectOrdered(u)
    <3>1. \E cands : Settled(u, cands)
      BY <2>6 DEF SelectOrdered
    <3> QED BY <3>1, Zenon DEF Settled, Only
  <2> QED BY <1>12, <2>1, <2>2, <2>3, <2>4, <2>5, <2>6
<1> QED BY <1>2, <1>3, <1>5, <1>6, <1>7, <1>8, <1>9, <1>10, <1>11, <1>12, Zenon
        DEF SelectionActs

(* What a step means to one request.                                         *)
LEMMA Moves ==
  ASSUME SelectionInv, SelectionActs, NEW t \in Task
  PROVE  \/ task'[t] = task[t]
         \/ ~InSelect(task[t]) /\ ~InSelect(task'[t])
         \/ \E new \in Stores : Rebuild(new)
         \/ FindPinned(t) \/ Collect(t) \/ CheckHealth(t) \/ CheckCircuit(t) \/ Measure(t)
         \/ SelectOrdered(t)
<1>1. ASSUME NEW u \in Task, Only(u), u # t PROVE task'[t] = task[t]
  <2>1. PICK x : task' = [task EXCEPT ![u] = x]
    BY <1>1 DEF Only
  <2>2. DOMAIN task = Task
    BY DEF SelectionInv, Tasks
  <2> QED BY <1>1, <2>1, <2>2
<1>2. CASE task' = task
  BY <1>2
<1>3. CASE \E new \in Stores : Rebuild(new)
  BY <1>3
<1>4. ASSUME NEW u \in Task, Only(u), ~InSelect(task[u]), ~InSelect(task'[u])
      PROVE  task'[t] = task[t] \/ (~InSelect(task[t]) /\ ~InSelect(task'[t]))
  BY <1>1, <1>4
<1>5. ASSUME NEW u \in Task, Only(u), \/ FindPinned(u) \/ Collect(u) \/ CheckHealth(u)
                                     \/ CheckCircuit(u) \/ Measure(u) \/ SelectOrdered(u)
      PROVE  \/ task'[t] = task[t] \/ FindPinned(t) \/ Collect(t) \/ CheckHealth(t)
             \/ CheckCircuit(t) \/ Measure(t) \/ SelectOrdered(t)
  <2>1. CASE u # t
    BY <1>1, <1>5, <2>1
  <2>2. CASE u = t
    BY <1>5, <2>2
  <2> QED BY <2>1, <2>2
<1> QED BY <1>2, <1>3, <1>4, <1>5, StepIs

(* At the start no request looks at providers.                               *)
LEMMA CalmInit == SelectionInit => Calm
BY DEF SelectionInit, Calm, Idle, InSelect

(* A request that took the runtimes in this step.                            *)
LEMMA TakenRead ==
  ASSUME SelectionInv, NEW t \in Task, FindPinned(t) \/ Collect(t), InSelect(task'[t]), NEW p
  PROVE  Read(task'[t], p, View(p))
<1> DEFINE c == task[t]
<1>0. store \in Stores /\ DOMAIN task = Task /\ TaskOK(c)
  BY DEF SelectionInv, Held, Tasks
<1>1. CASE FindPinned(t)
  <2> DEFINE q == c.provider
             x == IF q \in Runtimes /\ Usable(Def(q)) THEN Looking(c, TRUE, <<q>>) ELSE Asking(c)
  <2>1. c.at = "runtime" /\ task' = [task EXCEPT ![t] = x]
    BY <1>1 DEF FindPinned
  <2>2. task'[t] = x
    <3> HIDE DEF x
    <3> QED BY <1>0, <2>1
  <2>3. ~InSelect(Asking(c))
    BY DEF InSelect, Asking
  <2>4. q \in Runtimes /\ Usable(Def(q)) /\ task'[t] = Looking(c, TRUE, <<q>>)
    BY <2>2, <2>3
  <2>5. q \in Provider
    BY <1>0, <2>4, DefIs
  <2> HIDE DEF q, x, c
  <2>6. <<q>> \in Seq(Provider) /\ ToSet(<<q>>) = {q}
    BY <2>5, Single
  <2>7. Read(Looking(c, TRUE, <<q>>), p, View(p))
    BY <1>0, <2>4, <2>6, LookRead
  <2> QED BY <2>4, <2>7
<1>2. CASE Collect(t)
  <2> DEFINE names == Filtered(Order, {q \in Runtimes : Usable(Def(q))})
             x == IF names = <<>> THEN Idle ELSE Looking(c, FALSE, names)
  <2>1. task' = [task EXCEPT ![t] = x]
    BY <1>2 DEF Collect
  <2>2. task'[t] = x
    <3> HIDE DEF x
    <3> QED BY <1>0, <2>1
  <2>3. ~InSelect(Idle)
    BY DEF InSelect, Idle
  <2>4. task'[t] = Looking(c, FALSE, names)
    BY <2>2, <2>3
  <2>5. /\ names \in Seq(Provider)
        /\ \A q : q \in ToSet(names) <=> q \in Runtimes /\ Usable(Def(q))
    BY <1>0, NamesAre
  <2> HIDE DEF names, x, c
  <2>6. Read(Looking(c, FALSE, names), p, View(p))
    BY <1>0, <2>5, LookRead
  <2> QED BY <2>4, <2>6
<1> QED BY <1>1, <1>2

(* A request goes past a name, or on to its circuit: what it has then read of  *)
(* a calm provider, and what it means if none is left.                        *)
LEMMA CheckRead ==
  ASSUME SelectionInv, NEW t \in Task, CheckHealth(t) \/ CheckCircuit(t),
         NEW p, Read(task[t], p, View(p))
  PROVE  /\ InSelect(task'[t]) => Read(task'[t], p, View(p))
         /\ task'[t].at # "routed"
         /\ task'[t].at = "idle" =>
              ~task[t].pinned /\ ~(Live(View(p)) /\ Fine(View(p))) /\ task'[t] = Idle
<1> DEFINE c == task[t]
           q == c.names[c.n]
           v == View(p)
<1>0. /\ DOMAIN task = Task /\ TaskOK(c) /\ store \in Stores
      /\ v.healthy = healthy[p] /\ v.open = {p} \cap open
  BY DEF SelectionInv, Tasks, Held, View
<1>1. c.at \in {"health", "circuit"}
  BY DEF CheckHealth, CheckCircuit
<1>2. Choosing(c)
  BY <1>0, <1>1, KindIs
<1>3. c.n \in 1..Len(c.names) /\ q \notin c.ok /\ Judged(c, p, v)
  <2>1. c.n \in 1..Len(c.names) /\ \A i \in c.n..Len(c.names) : c.names[i] \notin c.ok
    BY <1>1, <1>2 DEF Choosing, Placed
  <2>2. Len(c.names) \in Nat
    BY <1>2 DEF Choosing, Known
  <2>3. c.n \in c.n..Len(c.names)
    <3> HIDE DEF c
    <3> QED BY <2>1, <2>2
  <2> QED BY <2>1, <2>3 DEF Read
<1>4. ASSUME NEW ok, ok = c.ok \/ ok = c.ok \cup {q}, q = p => (p \in ok <=> Fine(v)),
             task'[t] = Past(c, ok)
      PROVE  /\ InSelect(task'[t]) => Read(task'[t], p, v)
             /\ task'[t].at # "routed"
             /\ task'[t].at = "idle" => ~c.pinned /\ ~(Live(v) /\ Fine(v)) /\ task'[t] = Idle
  <2> DEFINE x == task'[t]
  <2>1. /\ InSelect(x) => Read(x, p, v)
        /\ x.at = "idle" => ~c.pinned /\ ~(Live(v) /\ Fine(v))
    <3> HIDE DEF c, v, x
    <3>1. Read(c, p, v) /\ x = Past(c, ok)
      BY <1>4 DEF c, v, x
    <3>2. /\ ok = c.ok \/ ok = c.ok \cup {c.names[c.n]}
          /\ c.names[c.n] = p => (p \in ok <=> Fine(v))
      BY <1>4
    <3> QED BY <1>1, <1>2, <3>1, <3>2, PastRead
  <2>2. x.at # "routed" /\ (x.at = "idle" => x = Idle)
    <3> HIDE DEF c, x
    <3>1. x = Past(c, ok)
      BY <1>4 DEF c, x
    <3>2. \/ x.at \in {"health", "measure", "order"} \/ x = Asking(c) \/ x = Idle
      BY <1>1, <1>2, <3>1, PastShape
    <3> QED BY <3>2 DEF Asking, Idle
  <2> QED BY <2>1, <2>2
<1>5. CASE CheckHealth(t) /\ healthy[q] = FALSE
  <2>1. task' = [task EXCEPT ![t] = Past(c, c.ok)]
    BY <1>5 DEF CheckHealth
  <2>2. task'[t] = Past(c, c.ok)
    <3> HIDE DEF c
    <3> QED BY <1>0, <2>1
  <2>3. q = p => (p \in c.ok <=> Fine(v))
    BY <1>0, <1>3, <1>5 DEF Fine
  <2> HIDE DEF c, q, v
  <2> QED BY <1>4, <2>2, <2>3 DEF c, v
<1>6. CASE CheckHealth(t) /\ healthy[q] # FALSE
  <2> DEFINE x == [c EXCEPT !.at = "circuit"]
  <2>1. c.at = "health" /\ task' = [task EXCEPT ![t] = x]
    BY <1>6 DEF CheckHealth
  <2>2. task'[t] = x
    <3> HIDE DEF c, x
    <3> QED BY <1>0, <2>1
  <2>3. q = p => v.healthy # FALSE
    BY <1>0, <1>6
  <2>4. x.at = "circuit"
    BY <1>2, <2>1, ToCircuit
  <2>5. Read(x, p, v)
    <3> HIDE DEF c, v
    <3>1. Read(c, p, v) /\ (c.names[c.n] = p => v.healthy # FALSE)
      BY <2>3 DEF c, v
    <3> QED BY <1>2, <2>1, <3>1, CircuitRead
  <2> HIDE DEF x
  <2> QED BY <2>2, <2>4, <2>5
<1>7. CASE CheckCircuit(t)
  <2> DEFINE ok == IF q \in open THEN c.ok ELSE c.ok \cup {q}
  <2>1. c.at = "circuit" /\ task' = [task EXCEPT ![t] = Past(c, ok)]
    BY <1>7 DEF CheckCircuit
  <2>2. task'[t] = Past(c, ok)
    <3> HIDE DEF c, ok
    <3> QED BY <1>0, <2>1
  <2>3. q = p => v.healthy # FALSE
    BY <1>3, <2>1 DEF Judged
  <2>4. q = p => (p \in ok <=> Fine(v))
    BY <1>0, <1>3, <2>3 DEF Fine
  <2>5. ok = c.ok \/ ok = c.ok \cup {q}
    OBVIOUS
  <2> HIDE DEF c, q, v, ok
  <2> QED BY <1>4, <2>2, <2>4, <2>5 DEF c, v
<1> QED BY <1>5, <1>6, <1>7

(* A latency is read.                                                        *)
LEMMA MeasureRead ==
  ASSUME SelectionInv, NEW t \in Task, Measure(t), NEW p, Read(task[t], p, View(p))
  PROVE  Read(task'[t], p, View(p)) /\ task'[t].at \in {"measure", "order"}
<1> DEFINE c == task[t]
           q == Rts(c)[c.n]
           x == Clocked(c, q, latency[q])
<1>0. DOMAIN task = Task /\ TaskOK(c) /\ Held
  BY DEF SelectionInv, Tasks
<1>1. c.at = "measure" /\ task' = [task EXCEPT ![t] = x]
  BY DEF Measure, Clocked
<1>2. Choosing(c)
  BY <1>0, <1>1, KindIs
<1>3. /\ Kept(c, x) /\ x.n = c.n + 1 /\ x.ok = c.ok /\ x.defs = c.defs
      /\ x.lats = [c.lats EXCEPT ![q] = latency[q]] /\ Rts(x) = Rts(c)
      /\ x.at = IF c.n = Len(Rts(c)) THEN "order" ELSE "measure"
  <2> HIDE DEF c
  <2> QED BY <1>0, <1>1, <1>2, Gauged
<1> HIDE DEF x
<1>4. task'[t] = x
  BY <1>0, <1>1
<1>5. View(p).latency = latency[p]
  BY DEF View
<1>6. Read(x, p, View(p))
  <2>1. Read(c, p, View(p))
    OBVIOUS
  <2> HIDE DEF c
  <2> QED BY <1>0, <1>1, <1>2, <1>3, <1>5, <2>1, GaugeRead
<1>7. x.at \in {"measure", "order"}
  BY <1>3
<1> QED BY <1>4, <1>6, <1>7

(* The steps of a request that end in a choice.                              *)
LEMMA OrderSettles ==
  ASSUME SelectionInv, NEW t \in Task, SelectOrdered(t)
  PROVE  task[t].at = "order" /\ ~InSelect(task'[t])
<1>1. PICK cands : Settled(t, cands)
  BY DEF SelectOrdered
<1>2. DOMAIN task = Task
  BY DEF SelectionInv, Tasks
<1> DEFINE x == IF cands = <<>> THEN Idle
                ELSE [at |-> "routed", session |-> task[t].session, model |-> task[t].model,
                      strategy |-> task[t].strategy, cands |-> cands]
<1>3. task' = [task EXCEPT ![t] = x]
  BY <1>1 DEF Settled
<1>4. ~InSelect(x)
  BY DEF InSelect, Idle
<1> HIDE DEF x
<1>5. task[t].at = "order"
  BY DEF SelectOrdered
<1> QED BY <1>2, <1>3, <1>4, <1>5

(* A save, to a request.                                                     *)
LEMMA SaveRead ==
  ASSUME SelectionInv, NEW new \in Stores, Rebuild(new), NEW t \in Task
  PROVE  /\ InSelect(task'[t]) <=> InSelect(task[t])
         /\ InSelect(task[t]) => task'[t].at = task[t].at
         /\ \A p : InSelect(task[t]) /\ Read(task[t], p, View(p)) /\ View(p)' = View(p) =>
              Read(task'[t], p, View(p))
<1> DEFINE c == task[t]
<1>0. TaskOK(c)
  BY DEF SelectionInv, Tasks
<1>1. task'[t] = Reread(c, new) /\ store' = new
  BY DEF Rebuild
<1>2. InSelect(task'[t]) <=> InSelect(c)
  BY <1>0, <1>1, RereadKept
<1>3. ASSUME InSelect(c) PROVE Known(c) /\ task'[t].at = c.at
  <2>1. Known(c)
    BY <1>0, <1>3, KindIs DEF Choosing
  <2>2. Reread(c, new).at = c.at
    <3> HIDE DEF c
    <3> QED BY <2>1, RereadIs
  <2> QED BY <1>1, <2>1, <2>2
<1>4. ASSUME NEW p, InSelect(c), Read(c, p, View(p)), View(p)' = View(p)
      PROVE  Read(task'[t], p, View(p))
  <2> DEFINE v == View(p)
  <2>1. v.defs = {d \in Active(new) : d.name = p}
    <3>1. View(p)'.defs = {d \in Active(store') : d.name = p}
      BY DEF View, Active
    <3> QED BY <1>1, <1>4, <3>1
  <2>2. Read(c, p, v) /\ Known(c)
    BY <1>3, <1>4
  <2> HIDE DEF c, v
  <2>3. Read(Reread(c, new), p, v)
    BY <2>1, <2>2, RereadRead
  <2> QED BY <1>1, <2>3 DEF v
<1> QED BY <1>2, <1>3, <1>4

(* Every step keeps what is read of the calm providers true of them.          *)
LEMMA CalmStep == SelectionInv /\ Calm /\ [SelectionNext]_selection => Calm'
<1> SUFFICES ASSUME SelectionInv, Calm, [SelectionNext]_selection PROVE Calm'
  OBVIOUS
<1>1. CASE UNCHANGED selection
  <2>1. \A p : View(p)' = View(p)
    BY <1>1 DEF selection, state, View, Active
  <2>2. calm' = calm /\ task' = task
    BY <1>1 DEF selection
  <2> QED BY <2>1, <2>2 DEF Calm
<1>2. CASE SelectionNext
  <2>0. SelectionActs
    BY <1>2 DEF SelectionNext
  <2>1. calm' = [t \in Task |-> IF InSelect(task[t]) /\ InSelect(task'[t])
                                THEN {p \in calm[t] : Undisturbed(p)} ELSE Provider]
    BY <1>2 DEF SelectionNext
  <2>2. calm \in [Task -> SUBSET Provider]
    BY DEF Calm
  <2>3. calm' \in [Task -> SUBSET Provider]
    BY <2>1, <2>2
  <2>4. ASSUME NEW t \in Task, InSelect(task'[t]), NEW p \in calm'[t]
        PROVE  Read(task'[t], p, View(p)')
    <3>0. TaskOK(task[t])
      BY DEF SelectionInv, Tasks
    <3>1. CASE InSelect(task[t])
      <4>1. p \in calm[t] /\ Undisturbed(p)
        BY <2>1, <2>4, <3>1
      <4>2. View(p)' = View(p)
        BY <4>1, ViewKept
      <4>3. Read(task[t], p, View(p))
        BY <3>1, <4>1 DEF Calm
      <4>4. task[t].at \in {"health", "circuit", "measure", "order"}
        BY <3>0, <3>1, KindIs
      <4>5. Read(task'[t], p, View(p))
        <5>1. CASE task'[t] = task[t]
          BY <4>3, <5>1
        <5>2. ASSUME NEW new \in Stores, Rebuild(new) PROVE Read(task'[t], p, View(p))
          BY <3>1, <4>2, <4>3, <5>2, SaveRead
        <5>3. CASE FindPinned(t) \/ Collect(t)
          BY <4>4, <5>3 DEF FindPinned, Collect
        <5>4. CASE CheckHealth(t) \/ CheckCircuit(t)
          BY <2>4, <4>3, <5>4, CheckRead
        <5>5. CASE Measure(t)
          BY <4>3, <5>5, MeasureRead
        <5>6. CASE SelectOrdered(t)
          BY <2>4, <5>6, OrderSettles
        <5> QED BY <2>0, <3>1, <5>1, <5>2, <5>3, <5>4, <5>5, <5>6, Moves
      <4> QED BY <4>2, <4>5
    <3>2. CASE ~InSelect(task[t])
      <4>1. ASSUME NEW new \in Stores, Rebuild(new) PROVE FALSE
        BY <2>4, <3>2, <4>1, SaveRead
      <4>2. CASE FindPinned(t) \/ Collect(t)
        <5>1. Read(task'[t], p, View(p))
          BY <2>4, <4>2, TakenRead
        <5>2. View(p)' = View(p)
          BY <4>2 DEF FindPinned, Collect, state, View, Active
        <5> QED BY <5>1, <5>2
      <4>3. CASE CheckHealth(t) \/ CheckCircuit(t) \/ Measure(t) \/ SelectOrdered(t)
        <5>1. task[t].at \in {"health", "circuit", "measure", "order"}
          BY <4>3 DEF CheckHealth, CheckCircuit, Measure, SelectOrdered
        <5> QED BY <3>0, <3>2, <5>1, KindIs
      <4> QED BY <2>0, <2>4, <3>2, <4>1, <4>2, <4>3, Moves
    <3> QED BY <3>1, <3>2
  <2> QED BY <2>3, <2>4 DEF Calm
<1> QED BY <1>1, <1>2

(* Past the last name, with none that passed.                                 *)
LEMMA PastEnds ==
  ASSUME SelectionInv, NEW t \in Task, CheckHealth(t) \/ CheckCircuit(t),
         task'[t].at \in {"routed", "idle"}
  PROVE  task'[t] = Idle
<1> DEFINE c == task[t]
           q == c.names[c.n]
<1>0. DOMAIN task = Task /\ TaskOK(c)
  BY DEF SelectionInv, Tasks
<1>1. c.at \in {"health", "circuit"}
  BY DEF CheckHealth, CheckCircuit
<1>2. Choosing(c)
  BY <1>0, <1>1, KindIs
<1>3. PICK ok : \/ task' = [task EXCEPT ![t] = Past(c, ok)]
                \/ c.at = "health" /\ task' = [task EXCEPT ![t] = [c EXCEPT !.at = "circuit"]]
  <2>1. CASE CheckHealth(t) /\ healthy[q] = FALSE
    BY <2>1 DEF CheckHealth
  <2>2. CASE CheckHealth(t) /\ healthy[q] # FALSE
    BY <2>2 DEF CheckHealth
  <2>3. CASE CheckCircuit(t)
    BY <2>3, Zenon DEF CheckCircuit
  <2> QED BY <2>1, <2>2, <2>3
<1>4. CASE task' = [task EXCEPT ![t] = Past(c, ok)]
  <2> DEFINE x == Past(c, ok)
  <2>1. task'[t] = x
    BY <1>0, <1>4
  <2> HIDE DEF c
  <2>2. x.at \in {"health", "measure", "order"} \/ x = Asking(c) \/ x = Idle
    BY <1>1, <1>2, PastShape
  <2> QED BY <2>1, <2>2 DEF Asking
<1>5. CASE c.at = "health" /\ task' = [task EXCEPT ![t] = [c EXCEPT !.at = "circuit"]]
  <2> DEFINE x == [c EXCEPT !.at = "circuit"]
  <2>1. task'[t] = x
    <3> HIDE DEF x
    <3> QED BY <1>0, <1>5
  <2>2. x.at = "circuit"
    BY <1>2, <1>5, ToCircuit
  <2> QED BY <2>1, <2>2
<1> QED BY <1>3, <1>4, <1>5

(* After a latency there is another, or the order.                            *)
LEMMA MeasureEnds ==
  ASSUME SelectionInv, NEW t \in Task, Measure(t)
  PROVE  task'[t].at \in {"measure", "order"}
<1> DEFINE c == task[t]
           q == Rts(c)[c.n]
           x == Clocked(c, q, latency[q])
<1>0. DOMAIN task = Task /\ TaskOK(c) /\ Held
  BY DEF SelectionInv, Tasks
<1>1. c.at = "measure" /\ task' = [task EXCEPT ![t] = x]
  BY DEF Measure, Clocked
<1>2. Choosing(c)
  BY <1>0, <1>1, KindIs
<1>3. /\ Kept(c, x) /\ x.n = c.n + 1 /\ x.ok = c.ok /\ x.defs = c.defs
      /\ x.lats = [c.lats EXCEPT ![q] = latency[q]] /\ Rts(x) = Rts(c)
      /\ x.at = IF c.n = Len(Rts(c)) THEN "order" ELSE "measure"
  <2> HIDE DEF c
  <2> QED BY <1>0, <1>1, <1>2, Gauged
<1> HIDE DEF x
<1>4. task'[t] = x
  BY <1>0, <1>1
<1> QED BY <1>3, <1>4

(* What a request that is to order the providers knows of a calm one.         *)
LEMMA CalmIs ==
  ASSUME SelectionInv, Calm, NEW t \in Task, InSelect(task[t]), task[t].at = "order",
         NEW p \in calm[t]
  PROVE  /\ p \in task[t].ok => /\ CandidateOk(p) /\ task[t].defs[p] = {Def(p)}
                                /\ Measuring(task[t]) => task[t].lats[p] = latency[p]
         /\ ~task[t].pinned /\ CandidateOk(p) => p \in task[t].ok
<1> DEFINE c == task[t]
           v == View(p)
<1>1. Named(c, p, v) /\ Judged(c, p, v) /\ Timed(c, p, v)
  BY DEF Calm, Read
<1>2. Known(c) /\ store \in Stores
  BY KindIs DEF SelectionInv, Tasks, Held, Choosing
<1>3. v.latency = latency[p]
  BY DEF View
<1>4. /\ p \in Runtimes => v.defs = {Def(p)}
      /\ Live(v) <=> p \in Runtimes /\ Usable(Def(p))
      /\ Fine(v) <=> healthy[p] # FALSE /\ p \notin open
  BY <1>2, ViewIs
<1>5. CandidateOk(p) <=> Live(v) /\ Fine(v)
  BY <1>4 DEF CandidateOk
<1>6. ASSUME p \in ToSet(c.names) PROVE p \in c.ok <=> Fine(v)
  <2>1. c.names \in Seq(Provider) /\ DOMAIN c.names = 1..Len(c.names)
    BY <1>2 DEF Known
  <2>2. PICK i \in 1..Len(c.names) : c.names[i] = p
    BY <1>6, <2>1 DEF ToSet
  <2> QED BY <1>1, <2>2 DEF Judged
<1>7. p \in c.ok => p \in ToSet(c.names)
  BY <1>2 DEF Known
<1> HIDE DEF v
<1>8. p \in c.ok => CandidateOk(p) /\ c.defs[p] = {Def(p)}
  BY <1>1, <1>4, <1>5, <1>6, <1>7 DEF Named
<1>9. p \in c.ok /\ Measuring(c) => c.lats[p] = latency[p]
  BY <1>1, <1>3 DEF Timed
<1>10. ~c.pinned /\ CandidateOk(p) => p \in c.ok
  BY <1>1, <1>5, <1>6 DEF Named
<1> QED BY <1>8, <1>9, <1>10

(* A list of at most one.                                                    *)
LEMMA AtMostOne ==
  ASSUME NEW c, Known(c), c.pinned, NEW list \in Seq(Provider), Once(list),
         \A x \in ToSet(list) : x \in ToSet(c.names)
  PROVE  \A i, j \in 1..Len(list) : i = j
<1>1. c.names \in Seq(Provider) /\ DOMAIN c.names = 1..1 /\ DOMAIN list = 1..Len(list)
  BY DEF Known
<1>2. \A x \in ToSet(c.names) : x = c.names[1]
  BY <1>1 DEF ToSet
<1>3. \A i \in 1..Len(list) : list[i] = c.names[1]
  BY <1>1, <1>2 DEF ToSet
<1> QED BY <1>3 DEF Once

(* What SelectOrdered offers, in terms of the list that a strategy gives.     *)
LEMMA ChosenIs ==
  ASSUME SelectionInv, Calm, NEW t \in Task, NEW c, c = task[t], InSelect(c), c.at = "order",
         NEW rts \in Scopes(c), NEW list,
         (IF rts = <<>> THEN list = <<>> ELSE list \in Ordered(t, rts))
  PROVE  /\ list \in Seq(Provider) /\ Once(list)
         /\ \A p \in calm[t] : p \in ToSet(list) => May(c, p)
         /\ ~c.pinned => \A p \in calm[t] : May(c, p) => p \in ToSet(list)
         /\ \A i, j \in 1..Len(list) :
              /\ i < j /\ list[i] \in calm[t] /\ list[j] \in calm[t]
              /\ c.strategy # "least_latency" \/ ToSet(list) \subseteq calm[t]
              => ~Prefers(c.strategy, list[j], list[i])
<1>0. /\ Known(c) /\ Speeds(latency) /\ counter \in Nat /\ Speeds(c.lats)
      /\ c.names \in Seq(Provider) /\ Once(c.names) /\ c.strategy \in Strategy
      /\ c.pinned \in BOOLEAN /\ (c.pinned => c.strategy = "sticky_affinity")
      /\ c.ok \subseteq ToSet(c.names)
  <2>1. Known(c)
    BY KindIs DEF SelectionInv, Tasks, Choosing
  <2>2. Speeds(latency) /\ Speeds(c.lats)
    BY <2>1, HeldSpeeds DEF Known, SelectionInv, Held
  <2>3. counter \in Nat
    BY Assumed DEF SelectionInv, Turning
  <2> QED BY <2>1, <2>2, <2>3 DEF Known
<1>1. /\ rts \in Seq(Provider) /\ Once(rts)
      /\ \A x \in ToSet(rts) : x \in c.ok /\ x \in ToSet(c.names)
      /\ \A p \in ToSet(c.names) : \A d : p \in c.ok /\ c.defs[p] = {d}
           => (p \in ToSet(rts) <=> Scoped(c, d))
  BY <1>0, ScopeIs
<1>2. \A p \in calm[t] :
        /\ p \in c.ok => /\ CandidateOk(p) /\ c.defs[p] = {Def(p)}
                         /\ Measuring(c) => c.lats[p] = latency[p]
        /\ ~c.pinned /\ CandidateOk(p) => p \in c.ok
  BY CalmIs
<1>3. \A p \in calm[t] : p \in ToSet(rts) <=> p \in c.ok /\ Scoped(c, Def(p))
  BY <1>0, <1>1, <1>2
<1>4. CASE rts = <<>>
  <2>1. list = <<>> /\ ToSet(rts) = {} /\ ToSet(list) = {} /\ Len(list) = 0
    BY <1>4 DEF ToSet
  <2>2. list \in Seq(Provider) /\ Once(list)
    BY <2>1 DEF Once
  <2>3. ASSUME ~c.pinned, NEW p \in calm[t], May(c, p) PROVE FALSE
    BY <1>2, <1>3, <2>1, <2>3 DEF May, Scoped
  <2> QED BY <2>1, <2>2, <2>3
<1>5. CASE rts # <<>>
  <2>1. /\ list \in Seq(Provider) /\ Once(list)
        /\ IF ~c.pinned /\ c.strategy = "free" THEN list \in FreeOnes(c, rts)
           ELSE ToSet(list) = ToSet(rts)
        /\ Measuring(c) => \A i, j \in 1..Len(list) :
             i < j => <<list[j], list[i]>> \notin ByHybrid(c.lats)
        /\ ~c.pinned /\ c.strategy = "least_latency" /\ ToSet(rts) \subseteq calm[t] =>
             \A i, j \in 1..Len(list) : i < j => <<list[j], list[i]>> \notin ByLatency(latency)
    <3>1. list \in Ordered(t, rts)
      BY <1>5
    <3> QED BY <1>0, <1>1, <1>5, <3>1, OrderedIs
  <2>2. /\ \A x \in ToSet(list) : x \in ToSet(rts)
        /\ \A p \in calm[t] : p \in ToSet(list) <=>
             p \in ToSet(rts) /\ (c.strategy = "free" => Def(p).free)
    <3>1. CASE ~c.pinned /\ c.strategy = "free"
      <4>1. /\ \A x \in ToSet(list) : x \in ToSet(rts)
            /\ \A p \in ToSet(rts) : \A d : c.defs[p] = {d} => (p \in ToSet(list) <=> d.free)
        BY <1>1, <2>1, <3>1, FreeIs
      <4>2. \A p \in calm[t] : p \in ToSet(rts) => c.defs[p] = {Def(p)}
        BY <1>1, <1>2
      <4> QED BY <3>1, <4>1, <4>2
    <3>2. CASE ~(~c.pinned /\ c.strategy = "free")
      <4>1. ToSet(list) = ToSet(rts) /\ c.strategy # "free"
        BY <1>0, <2>1, <3>2
      <4> QED BY <4>1
    <3> QED BY <3>1, <3>2
  <2>3. ASSUME NEW p \in calm[t], p \in ToSet(list) PROVE May(c, p)
    <3>1. p \in c.ok /\ Scoped(c, Def(p)) /\ (c.strategy = "free" => Def(p).free)
      BY <1>3, <2>2, <2>3
    <3> QED BY <1>2, <3>1 DEF May, Scoped
  <2>4. ASSUME ~c.pinned, NEW p \in calm[t], May(c, p) PROVE p \in ToSet(list)
    <3>1. p \in c.ok /\ Scoped(c, Def(p)) /\ (c.strategy = "free" => Def(p).free)
      BY <1>2, <2>4 DEF May, Scoped
    <3> QED BY <1>3, <2>2, <3>1
  <2>5. ASSUME NEW i \in 1..Len(list), NEW j \in 1..Len(list), i < j,
               list[i] \in calm[t], list[j] \in calm[t],
               c.strategy # "least_latency" \/ ToSet(list) \subseteq calm[t],
               Prefers(c.strategy, list[j], list[i])
        PROVE  FALSE
    <3> DEFINE p == list[j]
               q == list[i]
    <3>0. p \in Provider /\ q \in Provider /\ p \in ToSet(list) /\ q \in ToSet(list)
      BY <2>1 DEF ToSet
    <3>1. ~c.pinned
      <4> SUFFICES ASSUME c.pinned PROVE FALSE
        OBVIOUS
      <4>1. \A x \in ToSet(list) : x \in ToSet(c.names)
        BY <1>1, <2>2
      <4>2. i = j
        BY <1>0, <2>1, <4>1, AtMostOne
      <4> QED BY <2>5, <4>2
    <3>2. p \in c.ok /\ q \in c.ok /\ p \in calm[t] /\ q \in calm[t]
      BY <1>1, <2>2, <2>5, <3>0
    <3> HIDE DEF p, q
    <3>3. CASE c.strategy \in Hybrids
      <4>1. Measuring(c)
        BY <3>1, <3>3 DEF Measuring
      <4>2. <<p, q>> \notin ByHybrid(c.lats)
        BY <2>1, <2>5, <4>1 DEF p, q
      <4>3. ~Faster(c.lats, p, q) /\ ~Stronger(c.lats, p, q)
        BY <3>0, <4>2, OrdersAre
      <4>4. c.lats[p] = latency[p] /\ c.lats[q] = latency[q]
        BY <1>2, <3>2, <4>1
      <4>5. ~Faster(latency, p, q) /\ ~Stronger(latency, p, q)
        BY <4>3, <4>4 DEF Faster, Stronger
      <4>6. ~Prefers(c.strategy, p, q)
        BY <4>5 DEF Prefers
      <4> QED BY <2>5, <4>6 DEF p, q
    <3>4. CASE c.strategy = "least_latency"
      <4>1. ToSet(rts) \subseteq calm[t]
        BY <2>1, <2>5, <3>4
      <4>2. <<p, q>> \notin ByLatency(latency)
        BY <2>1, <2>5, <3>1, <3>4, <4>1 DEF p, q
      <4>3. ~Faster(latency, p, q)
        BY <3>0, <4>2, OrdersAre
      <4>4. ~Prefers(c.strategy, p, q)
        BY <3>4, <4>3 DEF Prefers, Hybrids
      <4> QED BY <2>5, <4>4 DEF p, q
    <3>5. c.strategy \in Hybrids \/ c.strategy = "least_latency"
      BY <2>5 DEF Prefers
    <3> QED BY <3>3, <3>4, <3>5
  <2> QED BY <2>1, <2>3, <2>4, <2>5
<1> QED BY <1>4, <1>5

(* The providers of the candidates are the list.                             *)
LEMMA Offers ==
  ASSUME SelectionInv, NEW t \in Task, NEW c, c = task[t], NEW list \in Seq(Provider),
         NEW cands \in Candidates(c, list), Settled(t, cands), NEW shown,
         shown = IF task'[t] = Idle THEN <<>>
                 ELSE [i \in DOMAIN task'[t].cands |-> task'[t].cands[i].provider]
  PROVE  shown = list
<1>0. DOMAIN task = Task
  BY DEF SelectionInv, Tasks
<1>1. DOMAIN list = 1..Len(list) /\ list = [i \in 1..Len(list) |-> list[i]]
  OBVIOUS
<1>2. DOMAIN cands = DOMAIN list /\ \A i \in DOMAIN list : cands[i].provider = list[i]
  BY DEF Candidates
<1>3. CASE cands = <<>>
  <2>1. task'[t] = Idle
    BY <1>0, <1>3 DEF Settled
  <2>2. DOMAIN list = {}
    BY <1>2, <1>3
  <2>3. list = <<>>
    BY <1>1, <2>2
  <2> QED BY <2>1, <2>3
<1>4. CASE cands # <<>>
  <2>1. task'[t].at = "routed" /\ task'[t].cands = cands
    BY <1>0, <1>4 DEF Settled
  <2>2. task'[t] # Idle
    BY <2>1 DEF Idle
  <2>3. shown = [i \in DOMAIN list |-> list[i]]
    BY <1>2, <2>1, <2>2
  <2> QED BY <1>1, <2>3
<1> QED BY <1>3, <1>4

(* BestFirst, of one list.                                                   *)
Best(c, list, quiet) ==
  LET calmly == {i \in DOMAIN list : list[i] \in quiet}
  IN  /\ IsInjective(list)
      /\ \A i \in calmly : May(c, list[i])
      /\ ~c.pinned => \A p \in quiet : May(c, p) => p \in ToSet(list)
      /\ c.strategy # "least_latency" \/ calmly = DOMAIN list =>
           \A i, j \in calmly : i < j => ~Prefers(c.strategy, list[j], list[i])

(* Every step that ends a select.                                            *)
LEMMA BestIsFirst ==
  ASSUME SelectionInv, Calm, [SelectionNext]_selection
  PROVE  BestFirst
<1> SUFFICES ASSUME NEW t \in Task, InSelect(task[t]), task'[t].at \in {"routed", "idle"}
    PROVE  Best(task[t], IF task'[t] = Idle THEN <<>>
                         ELSE [i \in DOMAIN task'[t].cands |-> task'[t].cands[i].provider],
                calm[t])
  BY DEF BestFirst, Best
<1>a. PICK c : c = task[t]
  OBVIOUS
<1>b. PICK list : list = IF task'[t] = Idle THEN <<>>
                  ELSE [i \in DOMAIN task'[t].cands |-> task'[t].cands[i].provider]
  OBVIOUS
<1> SUFFICES Best(c, list, calm[t])
  BY <1>a, <1>b
<1> DEFINE calmly == {i \in DOMAIN list : list[i] \in calm[t]}
<1>1. /\ TaskOK(c) /\ c.at \in {"health", "circuit", "measure", "order"} /\ InSelect(c)
      /\ DOMAIN task = Task
  BY <1>a, KindIs DEF SelectionInv, Tasks
<1>2. SelectionActs
  <2>1. task'[t] # task[t]
    BY <1>a, <1>1
  <2> QED BY <2>1 DEF SelectionNext, selection
<1>3. ASSUME NEW new \in Stores, Rebuild(new) PROVE FALSE
  <2>1. task'[t].at = c.at
    BY <1>a, <1>3, SaveRead
  <2> QED BY <1>1, <2>1
<1>4. ~FindPinned(t) /\ ~Collect(t)
  BY <1>a, <1>1 DEF FindPinned, Collect
<1>5. CASE CheckHealth(t) \/ CheckCircuit(t)
  <2>1. \A p \in calm[t] :
          /\ task'[t].at # "routed"
          /\ task'[t].at = "idle" =>
               ~c.pinned /\ ~(Live(View(p)) /\ Fine(View(p))) /\ task'[t] = Idle
    <3> SUFFICES ASSUME NEW p \in calm[t]
                 PROVE  /\ task'[t].at # "routed"
                        /\ task'[t].at = "idle" =>
                             ~c.pinned /\ ~(Live(View(p)) /\ Fine(View(p))) /\ task'[t] = Idle
      OBVIOUS
    <3>1. Read(task[t], p, View(p))
      BY DEF Calm
    <3> QED BY <1>a, <1>5, <3>1, CheckRead
  <2>2. CASE calm[t] = {}
    <3>1. \A i \in DOMAIN list : list[i] \notin calm[t]
      BY <2>2
    <3>2. calmly = {}
      BY <3>1
    <3>3. IsInjective(list)
      <4>1. task'[t] = Idle
        BY <1>5, PastEnds
      <4> QED BY <1>b, <4>1 DEF IsInjective
    <3> HIDE DEF calmly
    <3> QED BY <2>2, <3>2, <3>3 DEF calmly, Best
  <2>3. CASE calm[t] # {}
    <3>1. task'[t] = Idle /\ \A p \in calm[t] : ~(Live(View(p)) /\ Fine(View(p)))
      BY <2>1, <2>3
    <3>2. list = <<>> /\ DOMAIN list = {}
      BY <1>b, <3>1
    <3>3. \A p \in calm[t] : ~CandidateOk(p)
      BY <3>1, ViewIs DEF CandidateOk, SelectionInv, Held
    <3> QED BY <3>2, <3>3 DEF May, IsInjective, Best
  <2> QED BY <2>2, <2>3
<1>6. ~Measure(t)
  <2> SUFFICES ASSUME Measure(t) PROVE FALSE
    OBVIOUS
  <2>1. task'[t].at \in {"measure", "order"}
    BY MeasureEnds
  <2> QED BY <2>1
<1>7. CASE SelectOrdered(t)
  <2>1. c.at = "order"
    BY <1>a, <1>7 DEF SelectOrdered
  <2>2. PICK rts \in Scopes(c) :
          IF rts = <<>> THEN Settled(t, <<>>)
          ELSE \E l \in Ordered(t, rts) : \E cands \in Candidates(c, l) : Settled(t, cands)
    BY <1>a, <1>7 DEF SelectOrdered
  <2>3. IF rts = <<>> THEN list = <<>> ELSE list \in Ordered(t, rts)
    <3>1. CASE rts = <<>>
      <4>1. task'[t] = Idle
        BY <1>1, <2>2, <3>1 DEF Settled
      <4> QED BY <1>b, <3>1, <4>1
    <3>2. CASE rts # <<>>
      <4>1. PICK l \in Ordered(t, rts) : \E cands \in Candidates(c, l) : Settled(t, cands)
        BY <2>2, <3>2
      <4>2. PICK cands \in Candidates(c, l) : Settled(t, cands)
        BY <4>1
      <4>3. l \in Seq(Provider)
        BY <1>a, <1>1, <2>1, <3>2, ChosenIs
      <4>4. list = l
        BY <1>a, <1>b, <4>2, <4>3, Offers
      <4> QED BY <3>2, <4>4
    <3> QED BY <3>1, <3>2
  <2>4. /\ list \in Seq(Provider) /\ Once(list)
        /\ \A p \in calm[t] : p \in ToSet(list) => May(c, p)
        /\ ~c.pinned => \A p \in calm[t] : May(c, p) => p \in ToSet(list)
        /\ \A i, j \in 1..Len(list) :
             /\ i < j /\ list[i] \in calm[t] /\ list[j] \in calm[t]
             /\ c.strategy # "least_latency" \/ ToSet(list) \subseteq calm[t]
             => ~Prefers(c.strategy, list[j], list[i])
    BY <1>a, <1>1, <2>1, <2>3, ChosenIs
  <2>5. DOMAIN list = 1..Len(list) /\ IsInjective(list)
    BY <2>4 DEF Once, IsInjective
  <2>6. \A i \in calmly : May(c, list[i])
    BY <2>4 DEF ToSet
  <2>7. calmly = DOMAIN list => ToSet(list) \subseteq calm[t]
    BY DEF ToSet
  <2>8. ASSUME c.strategy # "least_latency" \/ calmly = DOMAIN list,
               NEW i \in calmly, NEW j \in calmly, i < j
        PROVE  ~Prefers(c.strategy, list[j], list[i])
    <3>1. i \in 1..Len(list) /\ j \in 1..Len(list) /\ list[i] \in calm[t] /\ list[j] \in calm[t]
      BY <2>5
    <3> HIDE DEF calmly
    <3> QED BY <2>4, <2>7, <2>8, <3>1
  <2> HIDE DEF calmly
  <2> QED BY <2>4, <2>5, <2>6, <2>8 DEF calmly, Best
<1>8. CheckHealth(t) \/ CheckCircuit(t) \/ SelectOrdered(t)
  <2>1. task'[t] # task[t]
    BY <1>a, <1>1
  <2> QED BY <1>2, <1>3, <1>4, <1>6, <2>1, Moves
<1> QED BY <1>5, <1>7, <1>8

(* OffersSound: outcomes, probes, saves and other requests come between the    *)
(* reads of select, yet every provider that nothing happens to meanwhile is    *)
(* offered exactly if it may serve, once, and none of them before one that the *)
(* strategy prefers.                                                         *)
THEOREM OffersTheorem == SelectionSpec => OffersSound
<1>1. SelectionInv /\ Calm /\ [SelectionNext]_selection => [BestFirst]_selection
  BY BestIsFirst
<1> QED BY <1>1, SelectionInitInv, SelectionStep, CalmInit, CalmStep, PTL
        DEF SelectionSpec, OffersSound

(* ChoicesSound: what select offers a request and what /v1/models offers a     *)
(* client are both right.                                                    *)
THEOREM ChoicesTheorem == SelectionSpec => ChoicesSound
<1>1. [BestFirst]_selection /\ [StrikesShown /\ ListedOnce]_selection
        => [BestFirst /\ StrikesShown /\ ListedOnce]_selection
  OBVIOUS
<1> QED BY <1>1, OffersTheorem, ListingTheorem, PTL DEF ChoicesSound, OffersSound, ListingSound

-----------------------------------------------------------------------------
(* The governor.                                                            *)
USE ConstantsAssumption DEF Never

(* No stamp lies in the future, and an engaged cap has been exhausted once.   *)
(* The second of the exhaustion a process or the row remembers is off by one  *)
(* for each restart at most, that of the row by one more.                     *)
Stamps ==
  /\ clock >= Second
  /\ heard # Never => Second <= heard /\ heard <= clock
  /\ lastAdjusted <= clock
  /\ lastExhausted # Never => /\ heard # Never
                              /\ Second <= lastExhausted /\ lastExhausted <= clock
                              /\ lastExhausted \div Second <= heard \div Second + restarts
  /\ limit > 0 => lastExhausted # Never
  /\ saved.adjusted <= Unix
  /\ saved.limit > 0 => /\ heard # Never
                        /\ saved.exhausted >= 1 /\ saved.exhausted <= Unix
                        /\ saved.exhausted <= heard \div Second + restarts + 1

(* The process that heard the last exhaustion is in its gap or past it; a gap *)
(* taken over, or stored, ends in the second in which it ended.               *)
Gap ==
  /\ awake => heard # Never /\ blockedUntil = heard + ExhaustBackoff
  /\ blockedUntil # Never => /\ heard # Never
                             /\ Second * (blockedUntil \div Second) <= heard + ExhaustBackoff
  /\ saved.blocked > 0 => /\ heard # Never
                          /\ Second * saved.blocked <= heard + ExhaustBackoff

IInv == /\ TypeOK /\ PermitsCounted /\ OverCommitBounded
        /\ Stamps /\ Gap

-----------------------------------------------------------------------------
(* Whole seconds.                                                           *)
LEMMA Whole ==
  ASSUME NEW n \in Nat
  PROVE  /\ n \div Second \in Nat /\ Second * (n \div Second) \in Nat
         /\ Second * (n \div Second) <= n /\ n < Second * (n \div Second) + Second
<1> DEFINE q == n \div Second
<1>1. q \in Nat /\ Second * q <= n /\ n < Second * q + Second
  OBVIOUS
<1> HIDE DEF q
<1>2. Second * q \in Nat
  BY <1>1
<1> QED BY <1>1, <1>2 DEF q

(* Multiples of a second are ordered as their numbers.                       *)
LEMMA Multiples ==
  ASSUME NEW a \in Int, NEW b \in Int
  PROVE  /\ Second * a \in Int /\ Second * b \in Int
         /\ Second * (a + b) = Second * a + Second * b
         /\ Second * (a - b) = Second * a - Second * b
         /\ a <= b => Second * a <= Second * b
         /\ Second * a < Second * b + Second => a <= b
<1>1. Second \in Int /\ Second >= 1
  OBVIOUS
<1>2. Second * a \in Int /\ Second * b \in Int
  BY <1>1
<1>3. /\ Second * (a + b) = Second * a + Second * b
      /\ Second * (a - b) = Second * a - Second * b
  BY <1>1
<1>4. ASSUME a <= b PROVE Second * a <= Second * b
  <2>1. b - a >= 0 /\ Second * (b - a) >= 0
    BY <1>1, <1>4
  <2>2. Second * (b - a) = Second * b - Second * a
    BY <1>1
  <2> QED BY <1>2, <2>1, <2>2
<1>5. ASSUME Second * a < Second * b + Second PROVE a <= b
  <2> SUFFICES ASSUME a >= b + 1 PROVE FALSE
    OBVIOUS
  <2>1. Second * (a - b - 1) >= 0
    BY <1>1
  <2>2. Second * (a - b - 1) = Second * a - Second * b - Second
    BY <1>1
  <2> QED BY <1>1, <1>2, <1>5, <2>1, <2>2
<1> QED BY <1>2, <1>3, <1>4, <1>5

(* The second an instant is in.                                             *)
LEMMA SecondIs ==
  ASSUME NEW n \in Nat, NEW q \in Nat, Second * q <= n, n < Second * q + Second
  PROVE  n \div Second = q
<1> DEFINE p == n \div Second
<1>1. p \in Nat /\ Second * p \in Nat /\ Second * p <= n /\ n < Second * p + Second
  BY Whole
<1> HIDE DEF p
<1>2. Second * q \in Int /\ Second \in Int
  BY Multiples
<1>3. Second * p < Second * q + Second /\ Second * q < Second * p + Second
  BY <1>1, <1>2
<1>4. p <= q /\ q <= p
  BY <1>1, <1>3, Multiples
<1> QED BY <1>1, <1>4 DEF p

(* A stamp is stored as its second or the next.                              *)
LEMMA AgoIs ==
  ASSUME clock \in Nat, NEW t \in Nat, t <= clock
  PROVE  /\ Ago(t) \in Nat /\ Ago(t) <= Unix
         /\ t \div Second <= Ago(t) /\ Ago(t) <= t \div Second + 1
<1> DEFINE U == clock \div Second
           D == (clock - t) \div Second
           T == t \div Second
           SU == Second * U
           SD == Second * D
           ST == Second * T
<1>1. clock - t \in Nat
  OBVIOUS
<1>2. /\ U \in Nat /\ SU \in Nat /\ SU <= clock /\ clock < SU + Second
      /\ D \in Nat /\ SD \in Nat /\ SD <= clock - t /\ clock - t < SD + Second
      /\ T \in Nat /\ ST \in Nat /\ ST <= t /\ t < ST + Second
  BY <1>1, Whole
<1>3. Ago(t) = U - D /\ Unix = U
  BY DEF Ago, Unix
<1> HIDE DEF U, D, T
<1>4. /\ Second * (U - D) = SU - SD /\ Second * (T + 1) = ST + Second
      /\ Second * T = ST
  BY <1>2, Multiples
<1> HIDE DEF SU, SD, ST
<1>5. ST < (SU - SD) + Second /\ SU - SD < (ST + Second) + Second
  BY <1>2
<1>6. U - D \in Int /\ T + 1 \in Int /\ T \in Int
  BY <1>2
<1>7. T <= U - D
  BY <1>4, <1>5, <1>6, Multiples
<1>8. U - D <= T + 1
  BY <1>4, <1>5, <1>6, Multiples
<1>9. U - D \in Nat /\ U - D <= U
  BY <1>2, <1>7
<1> QED BY <1>3, <1>7, <1>8, <1>9 DEF T

(* The end of a gap is stored as no later a second than it is in.            *)
LEMMA UntilIs ==
  ASSUME clock \in Nat, NEW t \in Nat \cup {Never}
  PROVE  /\ Until(t) \in Nat
         /\ Until(t) > 0 => t \in Nat /\ Until(t) <= t \div Second
<1>1. CASE ~(t > clock)
  BY <1>1 DEF Until
<1>2. CASE t > clock
  <2> DEFINE U == clock \div Second
             D == (t - clock) \div Second
             T == t \div Second
             SU == Second * U
             SD == Second * D
             ST == Second * T
  <2>1. t - clock \in Nat /\ t \in Nat
    BY <1>2
  <2>2. /\ U \in Nat /\ SU \in Nat /\ SU <= clock
        /\ D \in Nat /\ SD \in Nat /\ SD <= t - clock
        /\ T \in Nat /\ ST \in Nat /\ t < ST + Second
    BY <2>1, Whole
  <2>3. Until(t) = U + D
    BY <1>2 DEF Until, Unix
  <2> HIDE DEF U, D, T
  <2>4. Second * (U + D) = SU + SD
    BY <2>2, Multiples
  <2> HIDE DEF SU, SD
  <2>5. Second * (U + D) < Second * T + Second
    BY <2>1, <2>2, <2>4
  <2>6. U + D <= T
    BY <2>2, <2>5, Multiples
  <2> QED BY <2>1, <2>2, <2>3, <2>6 DEF T
<1> QED BY <1>1, <1>2

(* A restored instant is in the second it was stored as.                     *)
LEMMA AtIs ==
  ASSUME clock \in Nat, NEW u \in Nat, u <= Unix, u # 0
  PROVE  /\ At(u) \in Nat /\ Second <= At(u) /\ At(u) <= clock /\ At(u) \div Second = u
<1> DEFINE U == clock \div Second
           SU == Second * U
           Su == Second * u
<1>1. U \in Nat /\ SU \in Nat /\ SU <= clock /\ clock < SU + Second
  BY Whole
<1>2. Unix = U
  BY DEF Unix
<1> HIDE DEF U
<1>3. /\ Second * (U - u) = SU - Su /\ Su \in Int /\ Su <= SU
      /\ Second <= Su
  <2>1. Second * 1 <= Second * u
    BY Multiples
  <2> QED BY <1>1, <1>2, <2>1, Multiples
<1>4. At(u) = clock - (SU - Su)
  BY <1>2, <1>3 DEF At
<1> HIDE DEF SU, Su
<1>5. At(u) \in Nat /\ Second <= At(u) /\ At(u) <= clock /\ Su <= At(u) /\ At(u) < Su + Second
  BY <1>1, <1>3, <1>4
<1>6. At(u) \div Second = u
  BY <1>5, SecondIs DEF Su
<1> QED BY <1>5, <1>6

(* So is the end of a restored gap.                                         *)
LEMMA GapIs ==
  ASSUME clock \in Nat, saved.blocked \in Nat, RestoredGap # Never
  PROVE  /\ RestoredGap \in Nat /\ saved.blocked > 0
         /\ RestoredGap \div Second = saved.blocked
         /\ clock < Second * saved.blocked
<1> DEFINE U == clock \div Second
           SU == Second * U
           SB == Second * saved.blocked
<1>1. U \in Nat /\ SU \in Nat /\ SU <= clock /\ clock < SU + Second
  BY Whole
<1>2. Unix = U
  BY DEF Unix
<1> HIDE DEF U
<1>3. saved.blocked > U /\ RestoredGap = clock + Second * (saved.blocked - U)
  BY <1>2 DEF RestoredGap
<1>4. /\ Second * (saved.blocked - U) = SB - SU /\ SB \in Int
      /\ Second * (U + 1) <= SB /\ Second * (U + 1) = SU + Second
  <2>1. U + 1 <= saved.blocked /\ Second * 1 = Second
    BY <1>1, <1>3
  <2> QED BY <1>1, <2>1, Multiples
<1> HIDE DEF SU, SB
<1>5. /\ RestoredGap \in Nat /\ SB <= RestoredGap /\ RestoredGap < SB + Second
      /\ clock < SB
  BY <1>1, <1>3, <1>4
<1>6. RestoredGap \div Second = saved.blocked
  BY <1>5, SecondIs DEF SB
<1> QED BY <1>1, <1>3, <1>5, <1>6 DEF SB

-----------------------------------------------------------------------------
(* A look adapts the cap within its type.                                  *)
LEMMA AdaptType ==
  ASSUME TypeOK, NEW forced \in Pins \cup {NoPin}, Adapt(forced)
  PROVE  limit' \in Nat /\ lastAdjusted' \in Nat \cup {Never}
<1>1. limit' \in Nat
  BY DEF Adapt, Adapted, TypeOK
<1>2. lastAdjusted' \in Nat \cup {Never}
  BY DEF Adapt, TypeOK
<1> QED BY <1>1, <1>2

\* Governor::release saturates at zero.
LEMMA ReleasedType == ASSUME TypeOK PROVE Released \in Nat
BY DEF Released, TypeOK

(* Every step keeps the types.                                             *)
LEMMA NextType == TypeOK /\ Stamps /\ [Next]_vars => TypeOK'
<1> SUFFICES ASSUME TypeOK, Stamps, [Next]_vars PROVE TypeOK'
  OBVIOUS
<1> USE DEF PCs
<1>1. ASSUME NEW r \in Request, NEW d \in Deadlines, Enter(r, d) PROVE TypeOK'
  BY <1>1 DEF Enter, TypeOK, model
<1>2. ASSUME NEW r \in Request, Admit(r) PROVE TypeOK'
  <2>1. pinned[r] \in Pins \cup {NoPin}
    BY DEF TypeOK
  <2>2. limit' \in Nat /\ lastAdjusted' \in Nat \cup {Never}
    BY <1>2, <2>1, AdaptType DEF Admit
  <2> QED BY <1>2, <2>2 DEF Admit, TypeOK
<1>3. ASSUME NEW r \in Request, Refuse(r) PROVE TypeOK'
  <2>1. pinned[r] \in Pins \cup {NoPin}
    BY DEF TypeOK
  <2>2. limit' \in Nat /\ lastAdjusted' \in Nat \cup {Never}
    BY <1>3, <2>1, AdaptType DEF Refuse
  <2>3. pc' \in [Request -> PCs] /\ wakeAt' \in [Request -> Nat]
    BY <1>3 DEF Refuse, TypeOK
  <2> QED BY <1>3, <2>2, <2>3 DEF Refuse, TypeOK
<1>4. ASSUME NEW r \in Request, Wake(r) PROVE TypeOK'
  BY <1>4 DEF Wake, TypeOK, model
<1>5. ASSUME NEW r \in Request, Finish(r) \/ DropExhausted(r) PROVE TypeOK'
  BY <1>5, ReleasedType DEF Finish, DropExhausted, TypeOK
<1>6. ASSUME NEW r \in Request, Exhausted(r) PROVE TypeOK'
  <2>1. limit' \in Nat /\ lastAdjusted' \in Nat \cup {Never}
    BY <1>6 DEF Exhausted, Halved, TypeOK
  <2>2. blockedUntil' \in Nat /\ lastExhausted' \in Nat
    BY <1>6 DEF Exhausted, TypeOK
  <2>3. heard' \in Nat /\ awake' \in BOOLEAN
    BY <1>6 DEF Exhausted, TypeOK
  <2>4. pc' \in [Request -> PCs]
    BY <1>6 DEF Exhausted, TypeOK
  <2> QED BY <1>6, <2>1, <2>2, <2>3, <2>4 DEF Exhausted, TypeOK
<1>7. ASSUME NEW p \in Pins \cup {NoPin}, SetOverride(p) PROVE TypeOK'
  BY <1>7 DEF SetOverride, TypeOK, model, caller
<1>8. CASE Persist
  <2>1. ASSUME NEW t \in Nat \cup {Never}, t <= clock PROVE Ago(t) \in Nat
    <3>1. CASE t = Never
      BY <3>1 DEF Ago
    <3>2. CASE t # Never
      BY <2>1, <3>2, AgoIs DEF TypeOK
    <3> QED BY <3>1, <3>2
  <2>2. Ago(lastExhausted) \in Nat /\ Ago(lastAdjusted) \in Nat /\ Until(blockedUntil) \in Nat
    <3>1. /\ clock \in Nat /\ blockedUntil \in Nat \cup {Never}
          /\ lastExhausted \in Nat \cup {Never} /\ lastAdjusted \in Nat \cup {Never}
      BY DEF TypeOK
    <3>2. lastExhausted <= clock /\ lastAdjusted <= clock
      BY <3>1 DEF Stamps
    <3> QED BY <2>1, <3>1, <3>2, UntilIs
  <2> QED BY <1>8, <2>2 DEF Persist, TypeOK, model, caller
<1>9. CASE Restart
  <2>1. ASSUME NEW u \in Nat, u <= Unix PROVE At(u) \in Nat \cup {Never}
    <3>1. CASE u = 0
      BY <3>1 DEF At
    <3>2. CASE u # 0
      BY <2>1, <3>2, AtIs DEF TypeOK
    <3> QED BY <3>1, <3>2
  <2>2. lastExhausted' \in Nat \cup {Never} /\ lastAdjusted' \in Nat \cup {Never}
    <3>1. saved.limit \in Nat /\ saved.exhausted \in Nat /\ saved.adjusted \in Nat
      BY DEF TypeOK
    <3>2. saved.adjusted <= Unix /\ (saved.limit > 0 => saved.exhausted <= Unix)
      BY DEF Stamps
    <3>3. /\ At(saved.adjusted) \in Nat \cup {Never}
          /\ saved.limit > 0 => At(saved.exhausted) \in Nat \cup {Never}
      BY <2>1, <3>1, <3>2
    <3> QED BY <1>9, <3>1, <3>3 DEF Restart
  <2>3. blockedUntil' \in Nat \cup {Never}
    BY <1>9, GapIs DEF Restart, TypeOK
  <2>4. pc' \in [Request -> PCs] /\ saved.limit \in Nat
    BY <1>9 DEF Restart, TypeOK
  <2>5. restarts' = restarts + 1 /\ inflight' = 0 /\ limit' = saved.limit
    BY <1>9 DEF Restart
  <2>6. limit' \in Nat /\ inflight' \in Nat /\ restarts' \in Nat
    BY <2>4, <2>5 DEF TypeOK
  <2>7. awake' \in BOOLEAN
    BY <1>9 DEF Restart
  <2>8. UNCHANGED <<clock, override, pinChanges, deadline, pinned, wakeAt, saved, heard>>
    BY <1>9 DEF Restart
  <2> QED BY <2>2, <2>3, <2>4, <2>6, <2>7, <2>8 DEF TypeOK
<1>10. CASE Tick \/ UNCHANGED vars
  BY <1>10 DEF Tick, vars, TypeOK, model, caller
<1> QED BY <1>1, <1>2, <1>3, <1>4, <1>5, <1>6, <1>7, <1>8, <1>9, <1>10 DEF Next

-----------------------------------------------------------------------------
(* Permits.                                                                *)

\* Finitely many permits are held at a time.
LEMMA HoldingFinite ==
  /\ IsFiniteSet(Holding) /\ IsFiniteSet(UnderCap)
  /\ Cardinality(Holding) \in Nat /\ Cardinality(UnderCap) \in Nat
  /\ Cardinality(UnderCap) <= Cardinality(Holding)
<1>1. IsFiniteSet(Holding)
  BY FS_Subset DEF Holding
<1>2. UnderCap \subseteq Holding
  BY DEF UnderCap
<1> QED BY <1>1, <1>2, FS_Subset, FS_CardinalityType

(* An admission adds its own permit and nothing else.                      *)
LEMMA AdmitHolding ==
  ASSUME TypeOK, NEW r \in Request, pc[r] = "poll", pc' = [pc EXCEPT ![r] = "held"],
         pinned' = pinned
  PROVE  /\ Cardinality(Holding') = Cardinality(Holding) + 1
         /\ Cardinality(UnderCap') <= Cardinality(Holding')
         /\ pinned[r] # NoPin => UnderCap' = UnderCap
<1>1. Holding' = Holding \cup {r} /\ r \notin Holding
  BY DEF Holding, TypeOK
<1>2. Cardinality(Holding') = Cardinality(Holding) + 1 /\ IsFiniteSet(Holding')
  BY <1>1, HoldingFinite, FS_AddElement
<1>3. UnderCap' \subseteq Holding'
  BY DEF UnderCap
<1>4. Cardinality(UnderCap') <= Cardinality(Holding')
  BY <1>2, <1>3, FS_Subset
<1>5. pinned[r] # NoPin => UnderCap' = UnderCap
  BY <1>1 DEF UnderCap
<1> QED BY <1>2, <1>4, <1>5

(* Dropping a permit removes it and nothing else.                          *)
LEMMA DropHolding ==
  ASSUME TypeOK, NEW r \in Request, pc[r] \in {"held", "exhausted"},
         pc' = [pc EXCEPT ![r] = "done"], pinned' = pinned
  PROVE  /\ Cardinality(Holding') = Cardinality(Holding) - 1
         /\ Cardinality(Holding) > 0
         /\ Cardinality(UnderCap') <= Cardinality(UnderCap)
<1>1. Holding' = Holding \ {r} /\ r \in Holding
  BY DEF Holding, TypeOK
<1>2. Cardinality(Holding') = Cardinality(Holding) - 1 /\ IsFiniteSet(Holding')
  BY <1>1, HoldingFinite, FS_RemoveElement
<1>3. UnderCap' \subseteq UnderCap
  BY <1>1 DEF UnderCap
<1>4. Cardinality(UnderCap') <= Cardinality(UnderCap)
  BY <1>3, HoldingFinite, FS_Subset
<1>5. Cardinality(Holding') \in Nat
  BY <1>2, FS_CardinalityType
<1> QED BY <1>2, <1>4, <1>5, HoldingFinite

(* The rest keeps the permits as they are.                                 *)
LEMMA SameHolding ==
  ASSUME TypeOK, TypeOK', pinned' = pinned,
         \A q \in Request : pc'[q] \in {"held", "exhausted"}
                              <=> pc[q] \in {"held", "exhausted"}
  PROVE  Holding' = Holding /\ UnderCap' = UnderCap
BY DEF Holding, UnderCap

-----------------------------------------------------------------------------
(* A look at the cap keeps the stamps and the gap.                         *)
LEMMA AdaptKeeps ==
  ASSUME IInv, NEW forced \in Pins \cup {NoPin}, Adapt(forced),
         UNCHANGED <<clock, blockedUntil, lastExhausted, saved, restarts, heard, awake>>
  PROVE  /\ Stamps' /\ Gap'
         /\ limit' = limit \/ limit' = limit + 1 \/ limit' = 0
         /\ limit = 0 => limit' = 0
<1>1. /\ limit' = limit \/ limit' = limit + 1 \/ limit' = 0
      /\ limit = 0 => limit' = 0
  BY DEF Adapt, Adapted, Dissolves, Grows, IInv, TypeOK
<1>2. Stamps'
  <2>1. lastAdjusted' <= clock
    BY DEF Adapt, IInv, Stamps, TypeOK
  <2> QED BY <1>1, <2>1 DEF IInv, Stamps, TypeOK, Unix
<1>3. Gap'
  BY DEF IInv, Gap
<1> QED BY <1>1, <1>2, <1>3

\* Governor::admit: one more permit, within the cap it was admitted under.
LEMMA AdmitStep ==
  ASSUME IInv, TypeOK', NEW r \in Request, Admit(r)
  PROVE  IInv'
<1>0. TypeOK /\ pinned[r] \in Pins \cup {NoPin}
  BY DEF IInv, TypeOK
<1>1. Stamps' /\ Gap'
  BY <1>0, AdaptKeeps DEF Admit
<1>2. /\ Cardinality(Holding') = Cardinality(Holding) + 1
      /\ Cardinality(UnderCap') <= Cardinality(Holding')
      /\ pinned[r] # NoPin => UnderCap' = UnderCap
  BY <1>0, AdmitHolding DEF Admit
<1>3. PermitsCounted'
  BY <1>2 DEF Admit, IInv, PermitsCounted
<1>4. OverCommitBounded'
  <2>1. CASE pinned[r] = NoPin
    <3>1. limit' > 0 => inflight < limit'
      BY <2>1 DEF Admit, Admissible, Cap, Adapt
    <3>2. limit' > 0 => Cardinality(Holding') <= limit'
      BY <3>1, <1>2, HoldingFinite DEF IInv, PermitsCounted, TypeOK
    <3>3. Cardinality(Holding') \in Nat /\ limit' \in Nat /\ Cardinality(UnderCap') \in Int
      <4>1. IsFiniteSet(Holding') /\ UnderCap' \subseteq Holding'
        <5>1. IsFiniteSet(Holding')
          BY FS_Subset DEF Holding
        <5> QED BY <5>1 DEF UnderCap
      <4> QED BY <4>1, FS_Subset, FS_CardinalityType DEF TypeOK
    <3> QED BY <3>2, <3>3, <1>2 DEF OverCommitBounded
  <2>2. CASE pinned[r] # NoPin
    <3>1. limit' = limit
      BY <2>2 DEF Admit, Adapt, Adapted, Dissolves, Grows
    <3> QED BY <2>2, <3>1, <1>2 DEF OverCommitBounded, IInv
  <2> QED BY <2>1, <2>2
<1> QED BY <1>1, <1>3, <1>4 DEF IInv

\* A refused look changes at most the cap, upwards or away.
LEMMA RefuseStep ==
  ASSUME IInv, TypeOK', NEW r \in Request, Refuse(r)
  PROVE  IInv'
<1>0. TypeOK /\ pinned[r] \in Pins \cup {NoPin}
  BY DEF IInv, TypeOK
<1>1. /\ Stamps' /\ Gap'
      /\ limit' = limit \/ limit' = limit + 1 \/ limit' = 0
      /\ limit = 0 => limit' = 0
  BY <1>0, AdaptKeeps DEF Refuse
<1>2. Holding' = Holding /\ UnderCap' = UnderCap
  <2>1. \A q \in Request : pc'[q] \in {"held", "exhausted"}
                             <=> pc[q] \in {"held", "exhausted"}
    BY <1>0 DEF Refuse, TypeOK
  <2> QED BY <1>0, <2>1, SameHolding DEF Refuse
<1>3. PermitsCounted' /\ OverCommitBounded'
  BY <1>0, <1>1, <1>2, HoldingFinite
     DEF Refuse, IInv, PermitsCounted, OverCommitBounded, TypeOK
<1> QED BY <1>1, <1>3 DEF IInv

\* ModelPermit::drop takes one permit off both counts.
LEMMA ReleaseStep ==
  ASSUME IInv, TypeOK', NEW r \in Request, Finish(r) \/ DropExhausted(r)
  PROVE  IInv'
<1>0. TypeOK
  BY DEF IInv
<1>1. /\ Cardinality(Holding') = Cardinality(Holding) - 1
      /\ Cardinality(Holding) > 0
      /\ Cardinality(UnderCap') <= Cardinality(UnderCap)
  BY <1>0, DropHolding DEF Finish, DropExhausted
<1>2. PermitsCounted'
  BY <1>1, HoldingFinite DEF Finish, DropExhausted, Released, IInv, PermitsCounted
<1>3. UNCHANGED <<clock, limit, blockedUntil, lastExhausted, lastAdjusted, saved,
                  restarts, heard, awake>>
  BY DEF Finish, DropExhausted
<1>4. Cardinality(UnderCap') \in Nat /\ limit \in Nat
  <2>1. IsFiniteSet(UnderCap')
    <3>1. IsFiniteSet(Holding')
      BY FS_Subset DEF Holding
    <3>2. UnderCap' \subseteq Holding'
      BY DEF UnderCap
    <3> QED BY <3>1, <3>2, FS_Subset
  <2> QED BY <2>1, <1>0, FS_CardinalityType DEF TypeOK
<1>5. OverCommitBounded'
  BY <1>1, <1>3, <1>4, HoldingFinite DEF IInv, OverCommitBounded
<1>6. Stamps' /\ Gap'
  BY <1>3 DEF IInv, Stamps, Gap, Unix
<1> QED BY <1>2, <1>5, <1>6 DEF IInv

\* note_exhausted halves the count it observes, its caller's permit included.
LEMMA ExhaustedStep ==
  ASSUME IInv, TypeOK', NEW r \in Request, Exhausted(r)
  PROVE  IInv'
<1>0. TypeOK
  BY DEF IInv
<1>1. Holding' = Holding /\ UnderCap' = UnderCap
  <2>1. \A q \in Request : pc'[q] \in {"held", "exhausted"}
                             <=> pc[q] \in {"held", "exhausted"}
    BY <1>0 DEF Exhausted, TypeOK
  <2> QED BY <1>0, <2>1, SameHolding DEF Exhausted
<1>2. PermitsCounted'
  BY <1>1 DEF Exhausted, IInv, PermitsCounted
<1>3. OverCommitBounded'
  <2>1. CASE override = NoPin
    <3>1. limit' = Halved /\ inflight <= 2 * Halved + 1
      BY <2>1, <1>0 DEF Exhausted, Halved, TypeOK
    <3>2. Cardinality(UnderCap) <= inflight
      BY HoldingFinite DEF IInv, PermitsCounted
    <3>3. inflight \in Nat /\ Halved \in Nat
      BY <1>0 DEF TypeOK, Halved
    <3> QED BY <3>1, <3>2, <3>3, <1>1, HoldingFinite DEF OverCommitBounded
  <2>2. CASE override # NoPin
    BY <2>2, <1>1 DEF Exhausted, IInv, OverCommitBounded
  <2> QED BY <2>1, <2>2
<1>4. /\ clock \in Nat /\ clock >= Second /\ restarts \in Nat
      /\ clock' = clock /\ saved' = saved /\ restarts' = restarts
      /\ heard' = clock /\ lastExhausted' = clock /\ awake' = TRUE
      /\ blockedUntil' = clock + ExhaustBackoff
      /\ lastAdjusted' <= clock /\ heard <= clock /\ heard \in Nat \cup {Never}
  BY <1>0 DEF Exhausted, IInv, Stamps, TypeOK
<1>5. clock \div Second \in Nat /\ (heard # Never => heard \div Second <= clock \div Second)
  <2>1. clock \div Second \in Nat
    BY <1>4, Whole
  <2>2. ASSUME heard # Never PROVE heard \div Second <= clock \div Second
    <3> DEFINE a == heard \div Second
               b == clock \div Second
    <3>1. /\ a \in Nat /\ Second * a \in Nat /\ Second * a <= heard
          /\ b \in Nat /\ Second * b \in Nat /\ clock < Second * b + Second
      BY <1>4, <2>2, Whole
    <3> HIDE DEF a, b
    <3>2. Second * a < Second * b + Second
      BY <1>4, <2>2, <3>1
    <3>3. a <= b
      BY <3>1, <3>2, Multiples
    <3> QED BY <3>3 DEF a, b
  <2> QED BY <2>1, <2>2
<1>6. Stamps'
  <2>1. saved.limit > 0 => saved.exhausted <= clock \div Second + restarts + 1
    <3>1. saved.exhausted \in Nat /\ (heard # Never => heard \div Second \in Nat)
      BY <1>0, Whole DEF TypeOK
    <3> QED BY <1>4, <1>5, <3>1 DEF IInv, Stamps
  <2>2. saved.adjusted <= Unix /\ (saved.limit > 0 => saved.exhausted >= 1 /\ saved.exhausted <= Unix)
    BY DEF IInv, Stamps
  <2> QED BY <1>4, <1>5, <2>1, <2>2 DEF Stamps, Unix
<1>7. Gap'
  <2>1. Second * ((clock + ExhaustBackoff) \div Second) <= clock + ExhaustBackoff
    BY <1>4, Whole
  <2>2. saved.blocked > 0 => Second * saved.blocked <= clock + ExhaustBackoff
    <3>1. saved.blocked \in Nat
      BY <1>0 DEF TypeOK
    <3>2. Second * saved.blocked \in Int
      BY <3>1, Multiples
    <3> HIDE DEF IInv
    <3>3. saved.blocked > 0 => heard # Never /\ Second * saved.blocked <= heard + ExhaustBackoff
      BY DEF IInv, Gap
    <3> QED BY <1>4, <3>2, <3>3
  <2> QED BY <1>4, <2>1, <2>2 DEF Gap
<1> QED BY <1>2, <1>3, <1>6, <1>7 DEF IInv

\* A restart drops every permit and restores what was saved.
LEMMA RestartStep ==
  ASSUME IInv, TypeOK', Restart
  PROVE  IInv'
<1>0. TypeOK
  BY DEF IInv
<1>1. Holding' = {}
  BY <1>0 DEF Restart, Holding, TypeOK
<1>2. UnderCap' = {}
  BY <1>1 DEF UnderCap
<1>3. PermitsCounted' /\ OverCommitBounded'
  BY <1>1, <1>2, FS_EmptySet DEF Restart, PermitsCounted, OverCommitBounded, TypeOK
<1>4. /\ clock' = clock /\ saved' = saved /\ restarts' = restarts + 1
      /\ heard' = heard /\ awake' = FALSE /\ limit' = saved.limit
      /\ restarts \in Nat /\ clock \in Nat /\ heard \in Nat \cup {Never}
      /\ saved.limit \in Nat /\ saved.exhausted \in Nat /\ saved.adjusted \in Nat
      /\ saved.blocked \in Nat
  BY <1>0 DEF Restart, TypeOK
<1>5. Stamps'
  <2>1. lastAdjusted' <= clock
    <3>1. saved.adjusted # 0 => At(saved.adjusted) \in Nat /\ At(saved.adjusted) <= clock
      BY <1>4, AtIs DEF IInv, Stamps
    <3>2. lastAdjusted' = Never \/ lastAdjusted' = At(saved.adjusted)
      BY DEF Restart
    <3> QED BY <1>4, <3>1, <3>2 DEF At
  <2>2. ASSUME lastExhausted' # Never
        PROVE  /\ heard # Never /\ Second <= lastExhausted' /\ lastExhausted' <= clock
               /\ lastExhausted' \div Second <= heard \div Second + (restarts + 1)
    <3>1. saved.limit > 0 /\ lastExhausted' = At(saved.exhausted)
      BY <1>4, <2>2 DEF Restart
    <3>2. /\ heard # Never /\ saved.exhausted >= 1 /\ saved.exhausted <= Unix
          /\ saved.exhausted <= heard \div Second + restarts + 1
      BY <3>1 DEF IInv, Stamps
    <3>3. /\ At(saved.exhausted) \in Nat /\ Second <= At(saved.exhausted)
          /\ At(saved.exhausted) <= clock
          /\ At(saved.exhausted) \div Second = saved.exhausted
      BY <1>4, <3>2, AtIs
    <3>4. heard \div Second \in Nat
      BY <1>4, <3>2, Whole
    <3> QED BY <1>4, <3>1, <3>2, <3>3, <3>4
  <2>3. saved.limit > 0 => lastExhausted' # Never
    <3>1. saved.limit > 0 => saved.exhausted >= 1 /\ saved.exhausted <= Unix
      BY DEF IInv, Stamps
    <3>2. saved.limit > 0 => At(saved.exhausted) \in Nat
      BY <1>4, <3>1, AtIs
    <3> QED BY <1>4, <3>2 DEF Restart
  <2>4. saved.limit > 0 => saved.exhausted <= heard \div Second + (restarts + 1) + 1
    <3>1. heard # Never => heard \div Second \in Nat
      BY <1>4, Whole
    <3> QED BY <1>4, <3>1 DEF IInv, Stamps
  <2>5. /\ clock >= Second /\ (heard # Never => Second <= heard /\ heard <= clock)
        /\ saved.adjusted <= Unix
        /\ saved.limit > 0 => heard # Never /\ saved.exhausted >= 1 /\ saved.exhausted <= Unix
    BY DEF IInv, Stamps
  <2> QED BY <1>4, <2>1, <2>2, <2>3, <2>4, <2>5 DEF Stamps, Unix
<1>6. Gap'
  <2>1. ASSUME blockedUntil' # Never
        PROVE  heard # Never /\ Second * (blockedUntil' \div Second) <= heard + ExhaustBackoff
    <3>1. blockedUntil' = RestoredGap
      BY <1>4, <2>1 DEF Restart
    <3>2. saved.blocked > 0 /\ RestoredGap \div Second = saved.blocked
      BY <1>4, <2>1, <3>1, GapIs
    <3> QED BY <3>1, <3>2 DEF IInv, Gap
  <2>2. saved.blocked > 0 => heard # Never /\ Second * saved.blocked <= heard + ExhaustBackoff
    BY DEF IInv, Gap
  <2> QED BY <1>4, <2>1, <2>2 DEF Gap
<1> QED BY <1>3, <1>5, <1>6 DEF IInv

(* The steps that only move a caller, the override, the snapshot or time.  *)
LEMMA OtherStep ==
  ASSUME IInv, TypeOK',
         \/ \E r \in Request : Wake(r) \/ \E d \in Deadlines : Enter(r, d)
         \/ \E p \in Pins \cup {NoPin} : SetOverride(p)
         \/ Persist \/ Tick \/ UNCHANGED vars
  PROVE  IInv'
<1>0. TypeOK
  BY DEF IInv
<1>1. UNCHANGED <<limit, inflight, blockedUntil, lastExhausted, lastAdjusted, restarts,
                  heard, awake>>
  BY DEF Wake, Enter, SetOverride, Persist, Tick, vars, model
<1>2. \A q \in Request :
        /\ pc'[q] \in {"held", "exhausted"} <=> pc[q] \in {"held", "exhausted"}
        /\ pc'[q] \in {"held", "exhausted"} => pinned'[q] = pinned[q]
  <2>1. ASSUME NEW r \in Request, NEW d \in Deadlines, Enter(r, d)
        PROVE  \A q \in Request :
          /\ pc'[q] \in {"held", "exhausted"} <=> pc[q] \in {"held", "exhausted"}
          /\ pc'[q] \in {"held", "exhausted"} => pinned'[q] = pinned[q]
    BY <1>0, <2>1 DEF Enter, TypeOK
  <2>2. ASSUME NEW r \in Request, Wake(r)
        PROVE  \A q \in Request :
          /\ pc'[q] \in {"held", "exhausted"} <=> pc[q] \in {"held", "exhausted"}
          /\ pc'[q] \in {"held", "exhausted"} => pinned'[q] = pinned[q]
    BY <1>0, <2>2 DEF Wake, TypeOK
  <2>3. CASE UNCHANGED <<pc, pinned>>
    BY <2>3
  <2> QED BY <2>1, <2>2, <2>3 DEF SetOverride, Persist, Tick, vars, caller
<1>3. Holding' = Holding /\ UnderCap' = UnderCap
  BY <1>2 DEF Holding, UnderCap
<1>4. PermitsCounted' /\ OverCommitBounded'
  BY <1>1, <1>3 DEF IInv, PermitsCounted, OverCommitBounded
<1>5. CASE saved' = saved /\ (clock' = clock \/ clock' = clock + 1)
  <2>1. Unix <= Unix' /\ Unix \in Nat /\ Unix' \in Nat
    <3> DEFINE a == clock \div Second
               b == clock' \div Second
    <3>1. clock \in Nat /\ clock' \in Nat /\ clock <= clock'
      BY <1>0, <1>5 DEF TypeOK
    <3>2. /\ a \in Nat /\ Second * a \in Nat /\ Second * a <= clock
          /\ b \in Nat /\ Second * b \in Nat /\ clock' < Second * b + Second
      BY <3>1, Whole
    <3> HIDE DEF a, b
    <3>3. Second * a < Second * b + Second
      BY <3>1, <3>2
    <3>4. a <= b
      BY <3>2, <3>3, Multiples
    <3> QED BY <3>2, <3>4 DEF a, b, Unix
  <2>2. Stamps'
    <3> DEFINE H == heard \div Second
               X == lastExhausted \div Second
    <3>1. /\ clock \in Nat /\ clock' \in Nat /\ clock <= clock' /\ Second \in Nat
          /\ heard \in Int /\ lastExhausted \in Int /\ lastAdjusted \in Int
          /\ saved.exhausted \in Nat /\ saved.adjusted \in Nat
      BY <1>0, <1>5 DEF TypeOK
    <3>2. /\ heard' = heard /\ lastExhausted' = lastExhausted /\ limit' = limit
          /\ restarts' = restarts /\ lastAdjusted' = lastAdjusted
      BY <1>1
    <3>3. /\ clock >= Second
          /\ heard # Never => Second <= heard /\ heard <= clock
          /\ lastAdjusted <= clock
          /\ lastExhausted # Never => /\ heard # Never
                                      /\ Second <= lastExhausted /\ lastExhausted <= clock
                                      /\ X <= H + restarts
          /\ limit > 0 => lastExhausted # Never
          /\ saved.adjusted <= Unix
          /\ saved.limit > 0 => /\ heard # Never
                                /\ saved.exhausted >= 1 /\ saved.exhausted <= Unix
                                /\ saved.exhausted <= H + restarts + 1
      BY DEF IInv, Stamps
    <3> HIDE DEF H, X
    <3>4. /\ clock' >= Second
          /\ heard # Never => Second <= heard /\ heard <= clock'
          /\ lastAdjusted <= clock'
          /\ lastExhausted # Never => /\ heard # Never
                                      /\ Second <= lastExhausted /\ lastExhausted <= clock'
                                      /\ X <= H + restarts
          /\ limit > 0 => lastExhausted # Never
          /\ saved.adjusted <= Unix'
          /\ saved.limit > 0 => /\ heard # Never
                                /\ saved.exhausted >= 1 /\ saved.exhausted <= Unix'
                                /\ saved.exhausted <= H + restarts + 1
      BY <2>1, <3>1, <3>3
    <3> QED BY <1>5, <3>2, <3>4 DEF Stamps, H, X
  <2>3. Gap'
    BY <1>1, <1>5 DEF IInv, Gap
  <2> QED BY <1>4, <2>2, <2>3 DEF IInv
<1>6. CASE Persist
  <2>1. /\ saved'.limit = limit /\ saved'.exhausted = Ago(lastExhausted) /\ clock' = clock
        /\ saved'.adjusted = Ago(lastAdjusted) /\ saved'.blocked = Until(blockedUntil)
        /\ limit > 0
    BY <1>6 DEF Persist
  <2>2. /\ clock \in Nat /\ restarts \in Nat /\ lastExhausted \in Nat /\ heard \in Nat
        /\ lastExhausted <= clock /\ Second <= lastExhausted /\ heard # Never
        /\ lastExhausted \div Second <= heard \div Second + restarts
        /\ lastAdjusted \in Nat \cup {Never} /\ lastAdjusted <= clock
        /\ blockedUntil \in Nat \cup {Never}
    BY <1>0, <2>1 DEF IInv, Stamps, TypeOK
  <2>3. /\ Ago(lastExhausted) \in Nat /\ Ago(lastExhausted) <= Unix
        /\ lastExhausted \div Second <= Ago(lastExhausted)
        /\ Ago(lastExhausted) <= lastExhausted \div Second + 1
    BY <2>2, AgoIs
  <2>4. lastExhausted \div Second >= 1 /\ lastExhausted \div Second \in Nat /\ heard \div Second \in Nat
    <3> DEFINE q == lastExhausted \div Second
    <3>1. q \in Nat /\ lastExhausted < Second * q + Second /\ heard \div Second \in Nat
      BY <2>2, Whole
    <3> HIDE DEF q
    <3>2. Second * 1 < Second * q + Second
      BY <2>2, <3>1, Multiples
    <3>3. 1 <= q
      BY <3>1, <3>2, Multiples
    <3> QED BY <3>1, <3>3 DEF q
  <2>5. Ago(lastAdjusted) <= Unix
    <3>1. CASE lastAdjusted = Never
      <4>1. Ago(lastAdjusted) = 0 /\ Unix \in Nat
        BY <2>2, <3>1, Whole DEF Ago, Unix
      <4> QED BY <4>1
    <3>2. CASE lastAdjusted # Never
      BY <2>2, <3>2, AgoIs
    <3> QED BY <3>1, <3>2
  <2>6. Stamps'
    <3>1. /\ Ago(lastExhausted) >= 1
          /\ Ago(lastExhausted) <= heard \div Second + restarts + 1
      BY <2>2, <2>3, <2>4
    <3>2. Unix' = Unix
      BY <2>1 DEF Unix
    <3> QED BY <1>1, <2>1, <2>2, <2>3, <2>5, <3>1, <3>2 DEF IInv, Stamps
  <2>7. ASSUME Until(blockedUntil) > 0
        PROVE  Second * Until(blockedUntil) <= heard + ExhaustBackoff
    <3> DEFINE u == Until(blockedUntil)
               q == blockedUntil \div Second
    <3>1. u \in Nat /\ blockedUntil \in Nat /\ u <= q
      BY <2>2, <2>7, UntilIs
    <3>2. q \in Nat /\ Second * q <= heard + ExhaustBackoff
      BY <3>1, Whole DEF IInv, Gap
    <3> HIDE DEF u, q
    <3>3. Second * u <= Second * q /\ Second * u \in Int /\ Second * q \in Int
      BY <3>1, <3>2, Multiples
    <3>4. Second * u <= heard + ExhaustBackoff
      BY <2>2, <3>2, <3>3
    <3> QED BY <3>4 DEF u
  <2>8. Gap'
    BY <1>1, <2>1, <2>2, <2>7 DEF IInv, Gap
  <2> QED BY <1>4, <2>6, <2>8 DEF IInv
<1> QED BY <1>5, <1>6 DEF Wake, Enter, SetOverride, Tick, vars

\* An unseen model satisfies the invariant.
LEMMA InitInv == Init => IInv
<1> SUFFICES ASSUME Init PROVE IInv
  OBVIOUS
<1>1. TypeOK
  BY DEF Init, TypeOK, PCs, Blank
<1>2. Holding = {}
  BY DEF Init, Holding
<1>3. UnderCap = {}
  BY <1>2 DEF UnderCap
<1>4. PermitsCounted /\ OverCommitBounded
  BY <1>2, <1>3, FS_EmptySet DEF Init, PermitsCounted, OverCommitBounded
<1>5. Stamps /\ Gap
  <2>1. Unix \in Nat
    BY <1>1, Whole DEF TypeOK, Unix
  <2> QED BY <2>1 DEF Init, Stamps, Gap, Blank
<1> QED BY <1>1, <1>4, <1>5 DEF IInv

\* The invariant is inductive: one case per action.
LEMMA NextInv == IInv /\ [Next]_vars => IInv'
<1> SUFFICES ASSUME IInv, [Next]_vars PROVE IInv'
  OBVIOUS
<1>1. TypeOK'
  BY NextType DEF IInv
<1> QED BY <1>1, AdmitStep, RefuseStep, ReleaseStep, ExhaustedStep, RestartStep,
           OtherStep DEF Next

\* Hence it holds always.
LEMMA Invariance == Spec => []IInv
<1> QED BY InitInv, NextInv, PTL DEF Spec

-----------------------------------------------------------------------------
(* The theorems.                                                           *)

(* The count the cap is compared with is the number of permits held.       *)
THEOREM PermitsTheorem == Spec => [](TypeOK /\ PermitsCounted)
<1>1. IInv => TypeOK /\ PermitsCounted
  BY DEF IInv
<1> QED BY <1>1, Invariance, PTL

(* However exhaustions and admissions interleave, at most 2 * limit + 1 of *)
(* the permits admitted under the cap are held.                            *)
THEOREM OverCommitTheorem == Spec => []OverCommitBounded
<1>1. IInv => OverCommitBounded
  BY DEF IInv
<1> QED BY <1>1, Invariance, PTL

(* A model clean for the dissolve period is ungoverned, across any number of *)
(* restarts from its stale row, but for a second each.                       *)
THEOREM DissolvedTheorem == Spec => []StaysDissolved
<1>1. IInv => StaysDissolved
  <2> SUFFICES ASSUME IInv, heard = Never \/ clock >= heard + DissolveAfter + Second * (restarts + 1)
               PROVE  Adapted(NoPin) = 0
    BY DEF StaysDissolved
  <2>0. /\ limit \in Nat /\ clock \in Nat /\ restarts \in Nat /\ heard \in Nat \cup {Never}
        /\ lastExhausted \in Nat \cup {Never}
    BY DEF IInv, TypeOK
  <2>1. CASE limit = 0
    BY <2>1 DEF Adapted, Dissolves, Grows
  <2>2. CASE limit > 0
    <3> DEFINE H == heard \div Second
               X == lastExhausted \div Second
    <3>1. heard \in Nat /\ lastExhausted \in Nat /\ lastExhausted # Never /\ X <= H + restarts
      BY <2>0, <2>2 DEF IInv, Stamps
    <3>2. /\ H \in Nat /\ Second * H \in Nat /\ Second * H <= heard
          /\ X \in Nat /\ lastExhausted < Second * X + Second
      BY <3>1, Whole
    <3> HIDE DEF H, X
    <3>3. /\ Second * X <= Second * (H + restarts) /\ Second * X \in Int
          /\ Second * (H + restarts) = Second * H + Second * restarts
          /\ Second * (restarts + 1) = Second * restarts + Second
          /\ Second * restarts \in Int
      <4>1. Second * (restarts + 1) = Second * restarts + Second * 1
        BY <2>0, Multiples
      <4> QED BY <2>0, <3>1, <3>2, <4>1, Multiples
    <3>4. clock - lastExhausted >= DissolveAfter
      BY <2>0, <3>1, <3>2, <3>3
    <3>5. Dissolves(NoPin)
      BY <2>2, <3>1, <3>4 DEF Dissolves
    <3> QED BY <3>5 DEF Adapted
  <2> QED BY <2>0, <2>1, <2>2
<1> QED BY <1>1, Invariance, PTL

(* A burst of exhaustion reports never loosens the cap.                    *)
THEOREM PacingTheorem == Spec => CapRisesPaced
<1>1. ASSUME IInv, [Next]_vars
      PROVE  [limit > 0 /\ limit' > limit /\ restarts' = restarts
                /\ UnderCap = Holding
                => limit' = limit + 1 /\ clock >= lastAdjusted + GrowInterval]_vars
  <2> SUFFICES ASSUME Next, limit > 0, limit' > limit, restarts' = restarts,
                      UnderCap = Holding
               PROVE  limit' = limit + 1 /\ clock >= lastAdjusted + GrowInterval
    BY <1>1
  <2>0. TypeOK
    BY <1>1 DEF IInv
  <2>1. ASSUME NEW r \in Request, Admit(r) \/ Refuse(r)
        PROVE  limit' = limit + 1 /\ clock >= lastAdjusted + GrowInterval
    <3>1. Grows(pinned[r]) /\ limit' = limit + 1
      BY <2>0, <2>1 DEF Admit, Refuse, Adapt, Adapted, TypeOK
    <3>2. lastAdjusted \in Nat /\ clock - lastAdjusted >= GrowInterval
      BY <2>0, <3>1 DEF Grows, TypeOK
    <3> QED BY <2>0, <3>1, <3>2 DEF TypeOK
  <2>2. ASSUME NEW r \in Request, Exhausted(r) PROVE FALSE
    <3>1. inflight <= 2 * limit + 1
      BY <1>1 DEF IInv, PermitsCounted, OverCommitBounded
    <3>2. limit' = Halved
      BY <2>0, <2>2 DEF Exhausted, TypeOK
    <3>3. inflight \in Nat /\ limit \in Nat
      BY <2>0 DEF TypeOK
    <3> QED BY <3>1, <3>2, <3>3 DEF Halved
  <2>3. CASE UNCHANGED limit
    BY <2>0, <2>3 DEF TypeOK
  <2>4. CASE Restart
    BY <2>0, <2>4 DEF Restart, TypeOK
  <2> QED BY <2>1, <2>2, <2>3, <2>4
          DEF Next, Wake, Finish, DropExhausted, Enter, SetOverride, Persist,
              Tick, model
<1> QED BY <1>1, Invariance, PTL DEF Spec, CapRisesPaced

(* The process that saw an exhaustion keeps its gap; the others take over a   *)
(* gap that still runs, and end it within a second of its end.               *)
THEOREM DrainTheorem == Spec => DrainHonoured
<1>1. ASSUME IInv, IInv', [Next]_vars
      PROVE  [GapKept /\ GapNotResurrected]_vars
  <2> SUFFICES ASSUME Next PROVE GapKept /\ GapNotResurrected
    BY <1>1
  <2>0. TypeOK /\ TypeOK'
    BY <1>1 DEF IInv
  <2>1. GapKept
    <3> SUFFICES ASSUME inflight' > inflight, awake PROVE clock >= heard + ExhaustBackoff
      BY DEF GapKept
    <3>1. ASSUME NEW r \in Request, Admit(r) PROVE clock >= heard + ExhaustBackoff
      BY <1>1, <2>0, <3>1 DEF Admit, Admissible, IInv, Gap, TypeOK
    <3>2. CASE UNCHANGED inflight
      BY <2>0, <3>2 DEF TypeOK
    <3>3. CASE inflight' = Released \/ inflight' = 0
      BY <2>0, <3>3 DEF Released, TypeOK
    <3> QED BY <3>1, <3>2, <3>3
            DEF Next, Refuse, Exhausted, Wake, Finish, DropExhausted, Enter,
                SetOverride, Persist, Restart, Tick, model
  <2>2. ASSUME restarts' > restarts, blockedUntil' # Never
        PROVE  clock < heard + ExhaustBackoff
    <3>1. CASE Restart
      <4>1. blockedUntil' = RestoredGap /\ clock \in Nat /\ saved.blocked \in Nat
        BY <2>0, <2>2, <3>1 DEF Restart, TypeOK
      <4>2. saved.blocked > 0 /\ clock < Second * saved.blocked
        BY <2>2, <4>1, GapIs
      <4>3. /\ heard # Never /\ Second * saved.blocked <= heard + ExhaustBackoff
            /\ Second * saved.blocked \in Int /\ heard \in Nat
        BY <1>1, <2>0, <4>1, <4>2, Multiples DEF IInv, Gap, TypeOK
      <4> QED BY <4>1, <4>2, <4>3
    <3>2. CASE UNCHANGED restarts
      BY <2>0, <2>2, <3>2 DEF TypeOK
    <3> QED BY <3>1, <3>2
            DEF Next, Admit, Refuse, Exhausted, Wake, Finish, DropExhausted, Enter,
                SetOverride, Persist, Tick
  <2>3. blockedUntil' < heard' + ExhaustBackoff + Second
    <3> DEFINE b == blockedUntil'
               h == heard'
               q == b \div Second
    <3>1. b \in Nat \cup {Never} /\ h \in Nat \cup {Never}
      BY <2>0 DEF TypeOK
    <3>2. b # Never => h # Never /\ Second * q <= h + ExhaustBackoff
      BY <1>1 DEF IInv, Gap
    <3>3. b # Never => Second * q \in Nat /\ b < Second * q + Second
      BY <3>1, Whole
    <3> HIDE DEF b, h, q
    <3>4. b < h + ExhaustBackoff + Second
      BY <3>1, <3>2, <3>3
    <3> QED BY <3>4 DEF b, h
  <2> QED BY <2>1, <2>2, <2>3 DEF GapNotResurrected
<1> QED BY <1>1, Invariance, PTL DEF Spec, DrainHonoured
=============================================================================
