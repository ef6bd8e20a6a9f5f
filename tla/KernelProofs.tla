----------------------------- MODULE KernelProofs -----------------------------
(***************************************************************************)
(* The critical path kernel computes the longest chains of every network   *)
(* that can be scheduled, whatever its size, hours and lags, and every     *)
(* graph that a submission accepts is one. The scheduler places every node *)
(* of such a graph at once the earliest that its dependencies and the      *)
(* pools allow, within the pools, and its driving chain explains every     *)
(* start on it. Recursive functions are unfolded by a lemma that one       *)
(* satisfying the equation exists; what they compute is shown by induction *)
(* on the numbers (Upward, Upwards).                                       *)
(***************************************************************************)
EXTENDS Leveling, FiniteSetTheorems, SequenceTheorems, TLAPS

-----------------------------------------------------------------------------
(* Induction, and the largest and smallest of a finite set of numbers *)

(* Induction on sets of numbers. *)
LEMMA LeastNatural ==
  ASSUME NEW S, S \subseteq Nat, S # {}
  PROVE  \E m \in S : \A k \in S : m <= k
<1> DEFINE R == OpToRel(<, Nat)
<1>1. IsWellFoundedOn(R, Nat)
  BY NatLessThanWellFounded
<1>2. \E x \in S : \A y \in S : ~ (<<y, x>> \in R)
  <2> HIDE DEF R
  <2> QED BY <1>1, WFMin
<1>3. PICK x \in S : \A y \in S : ~ (<<y, x>> \in R)
  BY <1>2
<1>4. ASSUME NEW k \in S PROVE x <= k
  <2>1. <<k, x>> \notin {ss \in Nat \X Nat : ss[1] < ss[2]}
    BY <1>3 DEF OpToRel
  <2> QED BY <2>1
<1> QED BY <1>4

(* Induction on the numbers. *)
LEMMA Upward ==
  ASSUME NEW S, 0 \in S, \A n \in Nat : n \in S => n + 1 \in S
  PROVE  Nat \subseteq S
<1> DEFINE B == {n \in Nat : n \notin S}
<1> SUFFICES ASSUME B # {} PROVE FALSE
  OBVIOUS
<1>1. PICK m \in B : \A k \in B : m <= k
  <2>1. B \subseteq Nat
    OBVIOUS
  <2> HIDE DEF B
  <2> QED BY <2>1, LeastNatural
<1>2. m # 0 /\ m - 1 \in Nat /\ m - 1 \notin B
  BY <1>1
<1> QED BY <1>2

(* Strong induction over a ranked set. *)
LEMMA Upwards ==
  ASSUME NEW M, NEW rank \in [M -> Nat], NEW S,
         \A x \in M : (\A y \in M : rank[y] < rank[x] => y \in S) => x \in S
  PROVE  M \subseteq S
<1> DEFINE B == {rank[x] : x \in M \ S}
<1> SUFFICES ASSUME M \ S # {} PROVE FALSE
  OBVIOUS
<1>1. PICK m \in B : \A k \in B : m <= k
  <2>1. B \subseteq Nat /\ B # {}
    OBVIOUS
  <2> HIDE DEF B
  <2> QED BY <2>1, LeastNatural
<1>2. PICK x \in M \ S : m = rank[x]
  BY <1>1
<1>3. \A y \in M : rank[y] < rank[x] => y \in S
  <2> SUFFICES ASSUME NEW y \in M, rank[y] < rank[x], y \notin S PROVE FALSE
    OBVIOUS
  <2>1. rank[y] \in B
    OBVIOUS
  <2>2. rank[x] <= rank[y]
    BY <1>1, <1>2, <2>1
  <2> QED BY <2>2
<1> QED BY <1>2, <1>3

(* The image of a finite set is finite. *)
LEMMA FiniteImage ==
  ASSUME NEW S, IsFiniteSet(S), NEW f
  PROVE  IsFiniteSet({f[x] : x \in S})
<1> DEFINE T == {f[x] : x \in S}
           h == [x \in S |-> f[x]]
<1>1. h \in Surjection(S, T)
  BY DEF Surjection
<1> QED BY <1>1, FS_Surjection

(* A finite set of numbers has a largest and a smallest. *)
LEMMA FiniteHasMax ==
  ASSUME NEW S, IsFiniteSet(S), S \subseteq Int, S # {}
  PROVE  \E m \in S : \A k \in S : m >= k
<1> DEFINE P(n) == \A f \in [1 .. n -> Int] : \E m \in 1 .. n : \A k \in 1 .. n : f[m] >= f[k]
           G == {n \in Nat : n = 0 \/ P(n)}
<1>1. 0 \in G
  OBVIOUS
<1>2. ASSUME NEW n \in Nat, n \in G PROVE n + 1 \in G
  <2> SUFFICES ASSUME NEW f \in [1 .. n + 1 -> Int]
               PROVE \E m \in 1 .. n + 1 : \A k \in 1 .. n + 1 : f[m] >= f[k]
    <3>1. n + 1 \in Nat
      OBVIOUS
    <3> QED BY <3>1
  <2>1. CASE n = 0
    <3>1. f[1] \in Int /\ \A k \in 1 .. n + 1 : k = 1
      BY <2>1
    <3>2. \A k \in 1 .. n + 1 : f[1] >= f[k]
      BY <3>1
    <3> QED BY <2>1, <3>2
  <2>2. CASE n # 0
    <3> DEFINE h == [i \in 1 .. n |-> f[i]]
    <3>1. h \in [1 .. n -> Int]
      OBVIOUS
    <3>2. PICK m \in 1 .. n : \A k \in 1 .. n : h[m] >= h[k]
      BY <1>2, <2>2, <3>1
    <3>3. \A k \in 1 .. n : f[m] >= f[k]
      BY <3>2
    <3>4. \A k \in 1 .. n + 1 : k \in 1 .. n \/ k = n + 1
      OBVIOUS
    <3>5. f[m] \in Int /\ f[n + 1] \in Int /\ \A k \in 1 .. n : f[k] \in Int
      OBVIOUS
    <3> HIDE DEF h
    <3>6. CASE f[m] >= f[n + 1]
      <4>1. \A k \in 1 .. n + 1 : f[m] >= f[k]
        BY <3>3, <3>4, <3>6
      <4> QED BY <4>1
    <3>7. CASE f[n + 1] > f[m]
      <4>1. \A k \in 1 .. n + 1 : f[n + 1] >= f[k]
        BY <3>3, <3>4, <3>5, <3>7
      <4> QED BY <4>1
    <3> QED BY <3>5, <3>6, <3>7
  <2> QED BY <2>1, <2>2
<1>3. PICK n \in Nat : ExistsBijection(1 .. n, S)
  BY FS_NatBijection
<1>4. PICK f \in [1 .. n -> S] : \A y \in S : \E i \in 1 .. n : f[i] = y
  BY <1>3, Zenon DEF ExistsBijection, Bijection, Surjection
<1>5. n # 0
  <2> SUFFICES ASSUME n = 0 PROVE FALSE
    OBVIOUS
  <2>1. PICK y \in S : TRUE
    OBVIOUS
  <2>2. PICK i \in 1 .. n : f[i] = y
    BY <1>4
  <2> QED BY <2>2
<1>6. P(n)
  <2> HIDE DEF P
  <2>1. G = {k \in Nat : k = 0 \/ P(k)}
    OBVIOUS
  <2> HIDE DEF G
  <2>2. n \in G
    BY <1>1, <1>2, Upward
  <2> QED BY <1>5, <2>1, <2>2
<1>7. f \in [1 .. n -> Int]
  BY <1>4
<1>8. PICK m \in 1 .. n : \A k \in 1 .. n : f[m] >= f[k]
  BY <1>6, <1>7
<1>9. f[m] \in S /\ \A y \in S : f[m] >= y
  BY <1>4, <1>8
<1> QED BY <1>9

(* Max is the largest element. *)
LEMMA MaxIs ==
  ASSUME NEW S, IsFiniteSet(S), S \subseteq Int, S # {}
  PROVE  Max(S) \in S /\ \A k \in S : Max(S) >= k
  BY FiniteHasMax DEF Max

(* Min is the smallest. *)
LEMMA MinIs ==
  ASSUME NEW S, IsFiniteSet(S), S \subseteq Int, S # {}
  PROVE  Min(S) \in S /\ \A k \in S : Min(S) <= k
<1> DEFINE neg == [x \in S |-> 0 - x]
           N == {0 - x : x \in S}
<1>1. IsFiniteSet(N) /\ N \subseteq Int /\ N # {}
  <2>1. IsFiniteSet({neg[x] : x \in S})
    <3> HIDE DEF neg
    <3> QED BY FiniteImage
  <2>2. N = {neg[x] : x \in S}
    OBVIOUS
  <2>3. N \subseteq Int
    OBVIOUS
  <2>4. N # {}
    <3>1. PICK x \in S : TRUE
      OBVIOUS
    <3>2. 0 - x \in N
      OBVIOUS
    <3> QED BY <3>2
  <2> QED BY <2>1, <2>2, <2>3, <2>4
<1> HIDE DEF N
<1>2. PICK m \in N : \A k \in N : m >= k
  BY <1>1, FiniteHasMax
<1>3. PICK x \in S : m = 0 - x
  BY DEF N
<1>4. \A k \in S : x <= k
  <2> SUFFICES ASSUME NEW k \in S PROVE x <= k
    OBVIOUS
  <2>1. 0 - k \in N
    BY DEF N
  <2> QED BY <1>2, <1>3, <2>1
<1> QED BY <1>4 DEF Min

(* Nothing else is the largest. *)
LEMMA MaxUnique ==
  ASSUME NEW S, S \subseteq Int, NEW m \in S, \A k \in S : m >= k
  PROVE  Max(S) = m
<1>1. Max(S) \in S /\ \A k \in S : Max(S) >= k
  BY DEF Max
<1>2. Max(S) >= m /\ m >= Max(S) /\ Max(S) \in Int /\ m \in Int
  BY <1>1
<1> QED BY <1>2

(* Nothing else is the smallest. *)
LEMMA MinUnique ==
  ASSUME NEW S, S \subseteq Int, NEW m \in S, \A k \in S : m <= k
  PROVE  Min(S) = m
<1>1. Min(S) \in S /\ \A k \in S : Min(S) <= k
  BY DEF Min
<1>2. Min(S) <= m /\ m <= Min(S) /\ Min(S) \in Int /\ m \in Int
  BY <1>1
<1> QED BY <1>2

(* What the latest of some hours is. *)
LEMMA LatestIs ==
  ASSUME NEW S, IsFiniteSet(S), S \subseteq Nat
  PROVE  /\ Latest(S) \in Nat
         /\ \A k \in S : k <= Latest(S)
         /\ Latest(S) \in S \cup {0}
         /\ S # {} => Latest(S) \in S
<1>1. CASE S = {}
  BY <1>1 DEF Latest
<1>2. CASE S # {}
  <2>1. S \subseteq Int
    OBVIOUS
  <2>2. Max(S) \in S /\ \A k \in S : Max(S) >= k
    BY <1>2, <2>1, MaxIs
  <2>3. Latest(S) = Max(S)
    BY <1>2 DEF Latest
  <2>4. Latest(S) \in S /\ \A k \in S : Latest(S) >= k /\ k \in Nat
    BY <2>2, <2>3
  <2>5. \A k \in S : k <= Latest(S)
    BY <2>4
  <2> QED BY <2>4, <2>5
<1> QED BY <1>1, <1>2

(* A bound that is reached is the latest. *)
LEMMA LatestUnique ==
  ASSUME NEW S, S \subseteq Nat, NEW m \in Nat, \A k \in S : k <= m, m \in S \/ m = 0
  PROVE  Latest(S) = m
<1>1. CASE S = {}
  BY <1>1 DEF Latest
<1>2. CASE S # {}
  <2>1. m \in S
    <3>1. CASE m = 0
      <4>1. PICK k \in S : TRUE
        BY <1>2
      <4>2. k = 0
        BY <3>1, <4>1
      <4> QED BY <3>1, <4>2
    <3> QED BY <3>1
  <2>2. S \subseteq Int /\ \A k \in S : m >= k
    OBVIOUS
  <2>3. Max(S) = m
    BY <2>1, <2>2, MaxUnique
  <2> QED BY <1>2, <2>3 DEF Latest
<1> QED BY <1>1, <1>2

-----------------------------------------------------------------------------
(* Sequences: what Kept returns *)

(* The recursive function of Kept exists, so that it can be unfolded. *)
LEMMA KeptUnfolds ==
  ASSUME NEW s, NEW S, Len(s) \in Nat
  PROVE  \E kept :
            /\ kept = [n \in 0 .. Len(s) |->
                         IF n = 0 THEN <<>>
                         ELSE IF s[n] \in S THEN Append(kept[n - 1], s[n]) ELSE kept[n - 1]]
            /\ Kept(s, S) = kept[Len(s)]
<1> DEFINE Step(n, v) == IF s[n] \in S THEN Append(v, s[n]) ELSE v
           Is(f, k) == f = [n \in 0 .. k |-> IF n = 0 THEN <<>> ELSE Step(n, f[n - 1])]
           G == {k \in Nat : \E f : Is(f, k)}
<1>1. 0 \in G
  <2>1. Is([n \in 0 .. 0 |-> <<>>], 0)
    <3> HIDE DEF Step
    <3> QED OBVIOUS
  <2> QED BY <2>1
<1>2. ASSUME NEW k \in Nat, k \in G PROVE k + 1 \in G
  <2> HIDE DEF Step
  <2>1. PICK f : Is(f, k)
    BY <1>2
  <2> DEFINE h == [n \in 0 .. k + 1 |-> IF n = k + 1 THEN Step(n, f[k]) ELSE f[n]]
  <2>2. Is(h, k + 1)
    BY <2>1
  <2> HIDE DEF h, Is
  <2> QED BY <2>2
<1>3. PICK f : Is(f, Len(s))
  <2> HIDE DEF Is
  <2>1. Len(s) \in G
    <3> HIDE DEF G
    <3> QED BY <1>1, <1>2, Upward
  <2> QED BY <2>1
<1> DEFINE kept[n \in 0 .. Len(s)] ==
             IF n = 0 THEN <<>>
             ELSE IF s[n] \in S THEN Append(kept[n - 1], s[n]) ELSE kept[n - 1]
<1>4. kept = [n \in 0 .. Len(s) |->
                IF n = 0 THEN <<>>
                ELSE IF s[n] \in S THEN Append(kept[n - 1], s[n]) ELSE kept[n - 1]]
  BY <1>3, Zenon
<1>5. Kept(s, S) = kept[Len(s)]
  BY Zenon DEF Kept
<1> HIDE DEF kept
<1> QED BY <1>4, <1>5

-----------------------------------------------------------------------------
(* Sequences as sets. *)

(* The elements after an append. *)
LEMMA AppendSet ==
  ASSUME NEW X, NEW s \in Seq(X), NEW e \in X
  PROVE  /\ ToSet(Append(s, e)) = ToSet(s) \cup {e}
         /\ IsInjective(s) /\ e \notin ToSet(s) => IsInjective(Append(s, e))
<1> DEFINE r == Append(s, e)
<1>1. /\ r \in Seq(X) /\ Len(r) = Len(s) + 1 /\ Len(s) \in Nat
      /\ \A i \in 1 .. Len(s) : r[i] = s[i]
      /\ r[Len(s) + 1] = e
  BY AppendProperties, LenProperties
<1>2. DOMAIN r = 1 .. Len(s) + 1 /\ DOMAIN s = 1 .. Len(s)
  BY <1>1, LenProperties
<1> HIDE DEF r
<1>3. ToSet(r) = ToSet(s) \cup {e}
  <2>1. ASSUME NEW y \in ToSet(r) PROVE y \in ToSet(s) \cup {e}
    BY <1>1, <1>2 DEF ToSet
  <2>2. ASSUME NEW y \in ToSet(s) PROVE y \in ToSet(r)
    BY <1>1, <1>2 DEF ToSet
  <2>3. e \in ToSet(r)
    BY <1>1, <1>2 DEF ToSet
  <2> QED BY <2>1, <2>2, <2>3
<1>4. ASSUME IsInjective(s), e \notin ToSet(s) PROVE IsInjective(r)
  <2>1. \A i \in 1 .. Len(s) : s[i] # e
    BY <1>2, <1>4 DEF ToSet
  <2>2. \A i \in 1 .. Len(s) + 1 : i \in 1 .. Len(s) \/ i = Len(s) + 1
    BY <1>1
  <2>3. \A i, j \in 1 .. Len(s) : s[i] = s[j] => i = j
    BY <1>2, <1>4 DEF IsInjective
  <2>4. \A i, j \in 1 .. Len(s) + 1 : r[i] = r[j] => i = j
    BY <1>1, <2>1, <2>2, <2>3
  <2> QED BY <1>2, <2>4 DEF IsInjective
<1> QED BY <1>3, <1>4 DEF r

(* The elements of a concatenation. *)
LEMMA ConcatSet ==
  ASSUME NEW X, NEW s \in Seq(X), NEW r \in Seq(X)
  PROVE  /\ ToSet(s \o r) = ToSet(s) \cup ToSet(r)
         /\ IsInjective(s) /\ IsInjective(r) /\ ToSet(s) \cap ToSet(r) = {} => IsInjective(s \o r)
<1> DEFINE c == s \o r
<1>1. /\ c \in Seq(X) /\ Len(c) = Len(s) + Len(r) /\ Len(s) \in Nat /\ Len(r) \in Nat
      /\ \A i \in 1 .. Len(s) + Len(r) : c[i] = IF i <= Len(s) THEN s[i] ELSE r[i - Len(s)]
  BY ConcatProperties, LenProperties
<1>2. DOMAIN c = 1 .. Len(s) + Len(r) /\ DOMAIN s = 1 .. Len(s) /\ DOMAIN r = 1 .. Len(r)
  BY <1>1, LenProperties
<1> HIDE DEF c
<1>3. ToSet(c) = ToSet(s) \cup ToSet(r)
  <2>1. ASSUME NEW y \in ToSet(c) PROVE y \in ToSet(s) \cup ToSet(r)
    <3>1. PICK i \in 1 .. Len(s) + Len(r) : c[i] = y
      BY <1>2 DEF ToSet
    <3>2. CASE i <= Len(s)
      <4>1. i \in 1 .. Len(s) /\ s[i] = y
        BY <1>1, <3>1, <3>2
      <4> QED BY <1>2, <4>1 DEF ToSet
    <3>3. CASE i > Len(s)
      <4>1. i - Len(s) \in 1 .. Len(r) /\ y = r[i - Len(s)]
        BY <1>1, <3>1, <3>3
      <4> QED BY <1>2, <4>1 DEF ToSet
    <3> QED BY <1>1, <3>2, <3>3
  <2>2. ASSUME NEW y \in ToSet(s) PROVE y \in ToSet(c)
    <3>1. PICK i \in 1 .. Len(s) : s[i] = y
      BY <1>2 DEF ToSet
    <3>2. i \in 1 .. Len(s) + Len(r) /\ c[i] = y
      BY <1>1, <3>1
    <3> QED BY <1>2, <3>2 DEF ToSet
  <2>3. ASSUME NEW y \in ToSet(r) PROVE y \in ToSet(c)
    <3>1. PICK i \in 1 .. Len(r) : r[i] = y
      BY <1>2 DEF ToSet
    <3>2. i + Len(s) \in 1 .. Len(s) + Len(r) /\ c[i + Len(s)] = y
      <4>1. i + Len(s) \in 1 .. Len(s) + Len(r) /\ ~ (i + Len(s) <= Len(s))
        BY <1>1
      <4>2. c[i + Len(s)] = r[(i + Len(s)) - Len(s)] /\ (i + Len(s)) - Len(s) = i
        BY <1>1, <4>1
      <4> QED BY <3>1, <4>1, <4>2
    <3> QED BY <1>2, <3>2 DEF ToSet
  <2> QED BY <2>1, <2>2, <2>3
<1>4. ASSUME IsInjective(s), IsInjective(r), ToSet(s) \cap ToSet(r) = {} PROVE IsInjective(c)
  <2>1. \A i, j \in 1 .. Len(s) : s[i] = s[j] => i = j
    BY <1>2, <1>4 DEF IsInjective
  <2>2. \A i, j \in 1 .. Len(r) : r[i] = r[j] => i = j
    BY <1>2, <1>4 DEF IsInjective
  <2>3. \A i \in 1 .. Len(s), j \in 1 .. Len(r) : s[i] # r[j]
    BY <1>2, <1>4 DEF ToSet
  <2>4. ASSUME NEW i \in 1 .. Len(s) + Len(r), NEW j \in 1 .. Len(s) + Len(r), c[i] = c[j]
        PROVE  i = j
    <3>1. CASE i <= Len(s) /\ j <= Len(s)
      BY <1>1, <2>1, <2>4, <3>1
    <3>2. CASE i > Len(s) /\ j > Len(s)
      <4>1. i - Len(s) \in 1 .. Len(r) /\ j - Len(s) \in 1 .. Len(r)
        BY <1>1, <3>2
      <4>2. r[i - Len(s)] = r[j - Len(s)]
        BY <1>1, <2>4, <3>2
      <4>3. i - Len(s) = j - Len(s)
        BY <2>2, <4>1, <4>2
      <4> QED BY <1>1, <4>3
    <3>3. CASE i <= Len(s) /\ j > Len(s)
      <4>1. j - Len(s) \in 1 .. Len(r) /\ s[i] = r[j - Len(s)] /\ i \in 1 .. Len(s)
        BY <1>1, <2>4, <3>3
      <4> QED BY <2>3, <4>1
    <3>4. CASE i > Len(s) /\ j <= Len(s)
      <4>1. i - Len(s) \in 1 .. Len(r) /\ s[j] = r[i - Len(s)] /\ j \in 1 .. Len(s)
        BY <1>1, <2>4, <3>4
      <4> QED BY <2>3, <4>1
    <3> QED BY <1>1, <3>1, <3>2, <3>3, <3>4
  <2> QED BY <1>2, <2>4 DEF IsInjective
<1> QED BY <1>3, <1>4 DEF c

(* The elements of the head and of the tail. *)
LEMMA HeadSet ==
  ASSUME NEW X, NEW s \in Seq(X), s # <<>>
  PROVE  /\ Head(s) \in X /\ Tail(s) \in Seq(X) /\ Len(s) = Len(Tail(s)) + 1
         /\ s = <<Head(s)>> \o Tail(s)
         /\ ToSet(s) = {Head(s)} \cup ToSet(Tail(s))
         /\ IsInjective(s) => IsInjective(Tail(s)) /\ Head(s) \notin ToSet(Tail(s))
<1>1. /\ Head(s) \in X /\ Tail(s) \in Seq(X) /\ Len(Tail(s)) = Len(s) - 1
      /\ \A i \in 1 .. Len(Tail(s)) : Tail(s)[i] = s[i + 1]
  BY HeadTailProperties
<1>2. Len(s) \in Nat \ {0} /\ DOMAIN s = 1 .. Len(s) /\ Head(s) = s[1]
  BY EmptySeq, LenProperties
<1>3. DOMAIN Tail(s) = 1 .. Len(s) - 1
  BY <1>1, LenProperties
<1> DEFINE r == Tail(s)
<1> HIDE DEF r
<1>4. ToSet(s) = {s[1]} \cup ToSet(r)
  <2>1. ASSUME NEW y \in ToSet(s) PROVE y \in {s[1]} \cup ToSet(r)
    <3>1. PICK i \in 1 .. Len(s) : s[i] = y
      BY <1>2 DEF ToSet
    <3>2. CASE i = 1
      BY <3>1, <3>2
    <3>3. CASE i # 1
      <4>1. i - 1 \in 1 .. Len(s) - 1 /\ r[i - 1] = s[i]
        BY <1>1, <1>2, <3>3 DEF r
      <4> QED BY <1>3, <3>1, <4>1 DEF ToSet, r
    <3> QED BY <3>2, <3>3
  <2>2. ASSUME NEW y \in ToSet(r) PROVE y \in ToSet(s)
    <3>1. PICK i \in 1 .. Len(s) - 1 : r[i] = y
      BY <1>3 DEF ToSet, r
    <3>2. i + 1 \in 1 .. Len(s) /\ s[i + 1] = y
      BY <1>1, <1>2, <3>1 DEF r
    <3> QED BY <1>2, <3>2 DEF ToSet
  <2>3. s[1] \in ToSet(s)
    BY <1>2 DEF ToSet
  <2> QED BY <2>1, <2>2, <2>3
<1>5. ASSUME IsInjective(s) PROVE IsInjective(r) /\ s[1] \notin ToSet(r)
  <2>1. \A i, j \in 1 .. Len(s) : s[i] = s[j] => i = j
    BY <1>2, <1>5 DEF IsInjective
  <2>2. \A i \in 1 .. Len(s) - 1 : i + 1 \in 1 .. Len(s) /\ r[i] = s[i + 1]
    BY <1>1, <1>2 DEF r
  <2>3. \A i, j \in 1 .. Len(s) - 1 : r[i] = r[j] => i = j
    <3> SUFFICES ASSUME NEW i \in 1 .. Len(s) - 1, NEW j \in 1 .. Len(s) - 1, r[i] = r[j]
                 PROVE  i = j
      OBVIOUS
    <3>1. i + 1 = j + 1
      BY <2>1, <2>2
    <3> QED BY <1>2, <3>1
  <2>4. \A i \in 1 .. Len(s) - 1 : r[i] # s[1]
    <3> SUFFICES ASSUME NEW i \in 1 .. Len(s) - 1, r[i] = s[1] PROVE FALSE
      OBVIOUS
    <3>1. i + 1 = 1
      BY <1>2, <2>1, <2>2
    <3> QED BY <1>2, <3>1
  <2> QED BY <1>3, <2>3, <2>4 DEF IsInjective, ToSet, r
<1>6. s = <<Head(s)>> \o Tail(s)
  BY <1>1, <1>2
<1> QED BY <1>1, <1>2, <1>4, <1>5, <1>6 DEF r

(* Kept returns the elements of s that are in S, none twice unless it was. *)
LEMMA KeptIs ==
  ASSUME NEW X, NEW s \in Seq(X), NEW S
  PROVE  /\ Kept(s, S) \in Seq(X)
         /\ ToSet(Kept(s, S)) = ToSet(s) \cap S
         /\ IsInjective(s) => IsInjective(Kept(s, S))
<1>1. Len(s) \in Nat /\ DOMAIN s = 1 .. Len(s) /\ \A i \in 1 .. Len(s) : s[i] \in X
  BY LenProperties
<1>2. PICK kept : /\ kept = [n \in 0 .. Len(s) |->
                         IF n = 0 THEN <<>>
                         ELSE IF s[n] \in S THEN Append(kept[n - 1], s[n]) ELSE kept[n - 1]]
                  /\ Kept(s, S) = kept[Len(s)]
  BY <1>1, KeptUnfolds
<1> DEFINE Good(k) == /\ kept[k] \in Seq(X)
                      /\ ToSet(kept[k]) = {s[i] : i \in 1 .. k} \cap S
                      /\ IsInjective(s) => IsInjective(kept[k])
           G == {k \in Nat : k <= Len(s) => Good(k)}
<1>3. 0 \in G
  <2>1. kept[0] = <<>>
    BY <1>1, <1>2
  <2>2. Good(0)
    BY <2>1 DEF ToSet, IsInjective
  <2> QED BY <2>2
<1>4. ASSUME NEW k \in Nat, k \in G PROVE k + 1 \in G
  <2> SUFFICES ASSUME k + 1 <= Len(s) PROVE Good(k + 1)
    OBVIOUS
  <2>1. Good(k) /\ k + 1 \in 1 .. Len(s) /\ s[k + 1] \in X
    BY <1>1, <1>4
  <2>2. kept[k + 1] = IF s[k + 1] \in S THEN Append(kept[k], s[k + 1]) ELSE kept[k]
    <3>1. k + 1 \in 0 .. Len(s) /\ k + 1 # 0 /\ (k + 1) - 1 = k
      BY <2>1
    <3> QED BY <1>2, <3>1
  <2>3. {s[i] : i \in 1 .. k + 1} = {s[i] : i \in 1 .. k} \cup {s[k + 1]}
    <3>1. \A i \in 1 .. k + 1 : i \in 1 .. k \/ i = k + 1
      OBVIOUS
    <3>2. \A i \in 1 .. k : i \in 1 .. k + 1
      OBVIOUS
    <3> QED BY <3>1, <3>2
  <2>4. CASE s[k + 1] \notin S
    BY <2>1, <2>2, <2>3, <2>4
  <2>5. CASE s[k + 1] \in S
    <3>1. kept[k + 1] \in Seq(X) /\ ToSet(kept[k + 1]) = ToSet(kept[k]) \cup {s[k + 1]}
      BY <2>1, <2>2, <2>5, AppendSet, AppendProperties
    <3>2. ASSUME IsInjective(s) PROVE IsInjective(kept[k + 1])
      <4>1. s[k + 1] \notin ToSet(kept[k])
        <5>1. \A i \in 1 .. k : i \in 1 .. Len(s) /\ i # k + 1
          BY <1>1, <2>1
        <5>2. \A i \in 1 .. k : s[i] # s[k + 1]
          BY <1>1, <2>1, <3>2, <5>1 DEF IsInjective
        <5> QED BY <2>1, <5>2
      <4> QED BY <2>1, <2>2, <2>5, <3>2, <4>1, AppendSet
    <3> QED BY <2>1, <2>3, <2>5, <3>1, <3>2
  <2> QED BY <2>4, <2>5
<1>5. Good(Len(s))
  <2> HIDE DEF Good
  <2>1. G = {k \in Nat : k <= Len(s) => Good(k)}
    OBVIOUS
  <2> HIDE DEF G
  <2>2. Len(s) \in G
    BY <1>1, <1>3, <1>4, Upward
  <2> QED BY <1>1, <2>1, <2>2
<1>6. {s[i] : i \in 1 .. Len(s)} = ToSet(s)
  BY <1>1 DEF ToSet
<1> QED BY <1>2, <1>5, <1>6

-----------------------------------------------------------------------------
(* The longest chains before each task *)

(* A network that can be scheduled: rank grows along its dependencies. *)
Sound(t, rank) ==
    /\ t.ids \in Seq(Int) /\ IsInjective(t.ids)
    /\ t.deps \in [Members(t) -> SUBSET Members(t)]
    /\ t.len \in [Members(t) -> Nat]
    /\ \A x \in Members(t) : \A p \in t.deps[x] : t.lag[x][p] \in Nat
    /\ rank \in [Members(t) -> Nat]
    /\ \A x \in Members(t) : \A p \in t.deps[x] : rank[p] < rank[x]

(* A sequence without repetition has as many elements as places. *)
LEMMA DistinctCount ==
  ASSUME NEW X, NEW s \in Seq(X), IsInjective(s)
  PROVE  IsFiniteSet(ToSet(s)) /\ Cardinality(ToSet(s)) = Len(s)
<1>1. Len(s) \in Nat /\ DOMAIN s = 1 .. Len(s) /\ s \in [1 .. Len(s) -> X]
  BY LenProperties
<1>2. s \in Bijection(1 .. Len(s), ToSet(s))
  <2>1. s \in [1 .. Len(s) -> ToSet(s)]
    BY <1>1 DEF ToSet
  <2>2. s \in Surjection(1 .. Len(s), ToSet(s))
    BY <1>1, <2>1 DEF Surjection, ToSet
  <2>3. s \in Injection(1 .. Len(s), ToSet(s))
    BY <1>1, <2>1 DEF Injection, IsInjective
  <2> QED BY <2>2, <2>3 DEF Bijection
<1>3. ExistsBijection(1 .. Len(s), ToSet(s))
  BY <1>2 DEF ExistsBijection
<1> QED BY <1>1, <1>3, FS_NatBijection, FS_CountingElements

(* The elements of a sequence are finitely many. *)
LEMMA FiniteSeqSet ==
  ASSUME NEW X, NEW s \in Seq(X)
  PROVE  IsFiniteSet(ToSet(s)) /\ ToSet(s) \subseteq X
<1>1. Len(s) \in Nat /\ DOMAIN s = 1 .. Len(s) /\ s \in [1 .. Len(s) -> X]
  BY LenProperties
<1>2. IsFiniteSet(1 .. Len(s))
  BY <1>1, FS_Interval
<1> QED BY <1>1, <1>2, FiniteImage DEF ToSet

(* The tasks, and those on either side of one, are finitely many. *)
LEMMA SoundMembers ==
  ASSUME NEW t, NEW rank, Sound(t, rank)
  PROVE  /\ IsFiniteSet(Members(t)) /\ Cardinality(Members(t)) = Len(t.ids)
         /\ Len(t.ids) \in Nat /\ Members(t) \subseteq Int
         /\ \A x \in Members(t) : IsFiniteSet(t.deps[x]) /\ t.deps[x] \subseteq Members(t)
         /\ \A x \in Members(t) : IsFiniteSet(Followers(t, x)) /\ Followers(t, x) \subseteq Members(t)
<1>1. t.ids \in Seq(Int) /\ IsInjective(t.ids)
  BY DEF Sound
<1>2. IsFiniteSet(Members(t)) /\ Cardinality(Members(t)) = Len(t.ids) /\ Members(t) \subseteq Int
  BY <1>1, DistinctCount, FiniteSeqSet DEF Members
<1>3. Len(t.ids) \in Nat
  BY <1>1, LenProperties
<1>4. \A x \in Members(t) : t.deps[x] \subseteq Members(t)
  BY DEF Sound
<1>5. \A x \in Members(t) : Followers(t, x) \subseteq Members(t)
  BY DEF Followers
<1> QED BY <1>2, <1>3, <1>4, <1>5, FS_Subset

(* The ranks have a bound. *)
LEMMA RanksBounded ==
  ASSUME NEW t, NEW rank, Sound(t, rank)
  PROVE  \E K \in Nat : \A x \in Members(t) : rank[x] < K
<1> DEFINE R == {rank[x] : x \in Members(t)}
<1>1. IsFiniteSet(R)
  BY SoundMembers, FiniteImage
<1>2. R \subseteq Int /\ \A x \in Members(t) : rank[x] \in R /\ rank[x] \in Nat
  BY DEF Sound
<1> HIDE DEF R
<1>3. CASE R = {}
  BY <1>2, <1>3
<1>4. CASE R # {}
  <2>1. PICK m \in R : \A k \in R : m >= k
    BY <1>1, <1>2, <1>4, FiniteHasMax
  <2>2. m \in Nat
    BY <1>2, <2>1 DEF R
  <2>3. \A x \in Members(t) : m >= rank[x] /\ rank[x] \in Nat
    BY <1>2, <2>1
  <2>4. m + 1 \in Nat /\ \A x \in Members(t) : rank[x] < m + 1
    BY <2>2, <2>3
  <2> QED BY <2>4
<1> QED BY <1>3, <1>4

(* The hours before x through each of its dependencies. *)
Through(t, f, x) == {f[p] + t.len[p] + t.lag[x][p] : p \in t.deps[x]}

(* A task has finitely many chains to compare before it. *)
LEMMA ThroughFinite ==
  ASSUME NEW t, NEW rank, Sound(t, rank), NEW f, NEW x \in Members(t),
         \A p \in t.deps[x] : f[p] \in Nat
  PROVE  IsFiniteSet(Through(t, f, x)) /\ Through(t, f, x) \subseteq Nat
<1> DEFINE h == [p \in t.deps[x] |-> f[p] + t.len[p] + t.lag[x][p]]
<1>1. Through(t, f, x) = {h[p] : p \in t.deps[x]}
  BY DEF Through
<1>2. IsFiniteSet({h[p] : p \in t.deps[x]})
  <2> HIDE DEF h
  <2> QED BY SoundMembers, FiniteImage
<1>3. \A p \in t.deps[x] : f[p] + t.len[p] + t.lag[x][p] \in Nat
  BY DEF Sound
<1> QED BY <1>1, <1>2, <1>3 DEF Through

(* The longest chains are what their equation says. *)
LEMMA BeforeIs ==
  ASSUME NEW t, NEW rank, Sound(t, rank)
  PROVE  /\ LongestBefore(t) \in [Members(t) -> Nat]
         /\ \A x \in Members(t) :
               LongestBefore(t)[x] = Latest(Through(t, LongestBefore(t), x))
<1> DEFINE M == Members(t)
           Holds(f, k) == /\ f \in [M -> Nat]
                          /\ \A x \in M : rank[x] < k => f[x] = Latest(Through(t, f, x))
           G == {k \in Nat : \E f : Holds(f, k)}
<1>1. 0 \in G
  <2>1. Holds([x \in M |-> 0], 0)
    BY DEF Sound
  <2> QED BY <2>1
<1>2. ASSUME NEW k \in Nat, k \in G PROVE k + 1 \in G
  <2>1. PICK f : Holds(f, k)
    BY <1>2
  <2> DEFINE h == [x \in M |-> IF rank[x] < k THEN f[x] ELSE Latest(Through(t, f, x))]
  <2>2. \A x \in M : Latest(Through(t, f, x)) \in Nat
    <3> SUFFICES ASSUME NEW x \in M PROVE Latest(Through(t, f, x)) \in Nat
      OBVIOUS
    <3>1. \A p \in t.deps[x] : f[p] \in Nat
      BY <2>1 DEF Sound
    <3> QED BY <3>1, ThroughFinite, LatestIs
  <2>3. h \in [M -> Nat]
    BY <2>1, <2>2
  <2>4. ASSUME NEW x \in M, rank[x] < k + 1
        PROVE  h[x] = Latest(Through(t, h, x))
    <3>1. \A p \in t.deps[x] : p \in M /\ rank[p] < k
      <4> SUFFICES ASSUME NEW p \in t.deps[x] PROVE p \in M /\ rank[p] < k
        OBVIOUS
      <4>1. p \in M /\ rank[p] < rank[x] /\ rank[p] \in Nat /\ rank[x] \in Nat
        BY DEF Sound
      <4> QED BY <2>4, <4>1
    <3>2. \A p \in t.deps[x] : h[p] = f[p]
      BY <3>1
    <3>3. Through(t, h, x) = Through(t, f, x)
      <4> HIDE DEF h
      <4> QED BY <3>2 DEF Through
    <3>4. rank[x] < k => f[x] = Latest(Through(t, f, x))
      BY <2>1
    <3> QED BY <3>3, <3>4
  <2>5. Holds(h, k + 1)
    <3> HIDE DEF h
    <3> QED BY <2>3, <2>4
  <2> HIDE DEF h, Holds
  <2> QED BY <2>5
<1>3. PICK K \in Nat : \A x \in M : rank[x] < K
  BY RanksBounded
<1>4. PICK f : Holds(f, K)
  <2> HIDE DEF Holds
  <2>1. K \in G
    <3> HIDE DEF G
    <3> QED BY <1>1, <1>2, Upward
  <2> QED BY <2>1
<1> DEFINE before[x \in Members(t)] ==
             Latest({before[p] + t.len[p] + t.lag[x][p] : p \in t.deps[x]})
<1>5. f = [x \in Members(t) |-> Latest({f[p] + t.len[p] + t.lag[x][p] : p \in t.deps[x]})]
  BY <1>3, <1>4 DEF Through
<1>6. before = [x \in Members(t) |->
                  Latest({before[p] + t.len[p] + t.lag[x][p] : p \in t.deps[x]})]
  BY <1>5, Zenon
<1>7. LongestBefore(t) = before
  BY Zenon DEF LongestBefore
<1> HIDE DEF before
<1>8. \A x \in M : before[x] = Latest(Through(t, before, x))
  BY <1>6, Zenon DEF Through
<1>9. \A x \in M : before[x] \in Nat
  <2> DEFINE W == {z \in M : before[z] \in Nat}
  <2>1. ASSUME NEW x \in M, \A y \in M : rank[y] < rank[x] => y \in W
        PROVE  x \in W
    <3>1. \A p \in t.deps[x] : before[p] \in Nat
      BY <2>1 DEF Sound
    <3>2. Latest(Through(t, before, x)) \in Nat
      BY <3>1, ThroughFinite, LatestIs
    <3> QED BY <1>8, <3>2
  <2>2. rank \in [M -> Nat]
    BY DEF Sound
  <2>3. M \subseteq W
    <3> HIDE DEF M, W
    <3> QED BY <2>1, <2>2, Upwards
  <2> QED BY <2>3
<1>10. before \in [M -> Nat]
  BY <1>6, <1>9
<1> QED BY <1>7, <1>8, <1>10

-----------------------------------------------------------------------------
(* The longest chains from each task on *)

(* The hours from x on through each of its followers. *)
Beyond(t, f, x) == {t.lag[y][x] + f[y] : y \in Followers(t, x)}

(* A follower has a higher rank. *)
LEMMA FollowersAre ==
  ASSUME NEW t, NEW rank, Sound(t, rank), NEW x \in Members(t), NEW y \in Followers(t, x)
  PROVE  /\ y \in Members(t) /\ x \in t.deps[y] /\ t.lag[y][x] \in Nat
         /\ rank[x] < rank[y] /\ rank[x] \in Nat /\ rank[y] \in Nat
  BY DEF Followers, Sound

(* A task has finitely many chains to compare after it. *)
LEMMA BeyondFinite ==
  ASSUME NEW t, NEW rank, Sound(t, rank), NEW f, NEW x \in Members(t),
         \A y \in Followers(t, x) : f[y] \in Nat
  PROVE  IsFiniteSet(Beyond(t, f, x)) /\ Beyond(t, f, x) \subseteq Nat
<1> DEFINE h == [y \in Followers(t, x) |-> t.lag[y][x] + f[y]]
<1>1. Beyond(t, f, x) = {h[y] : y \in Followers(t, x)}
  BY DEF Beyond
<1>2. IsFiniteSet({h[y] : y \in Followers(t, x)})
  <2> HIDE DEF h
  <2> QED BY SoundMembers, FiniteImage
<1>3. \A y \in Followers(t, x) : t.lag[y][x] + f[y] \in Nat
  BY FollowersAre
<1> QED BY <1>1, <1>2, <1>3 DEF Beyond

(* Ranks counted down from a bound. *)
LEMMA RanksDown ==
  ASSUME NEW t, NEW rank, Sound(t, rank)
  PROVE  \E K \in Nat : \E down \in [Members(t) -> Nat] :
            /\ \A x \in Members(t) : down[x] <= K
            /\ \A x \in Members(t) : \A y \in Followers(t, x) : down[y] < down[x]
<1>1. PICK K \in Nat : \A x \in Members(t) : rank[x] < K
  BY RanksBounded
<1>2. \A x \in Members(t) : rank[x] \in Nat
  BY DEF Sound
<1> DEFINE down == [x \in Members(t) |-> K - rank[x]]
<1>3. \A x \in Members(t) : down[x] \in Nat /\ down[x] <= K /\ down[x] = K - rank[x]
  BY <1>1, <1>2
<1>4. \A x \in Members(t) : \A y \in Followers(t, x) : down[y] < down[x]
  BY <1>2, <1>3, FollowersAre
<1>5. down \in [Members(t) -> Nat]
  BY <1>3
<1> HIDE DEF down
<1> QED BY <1>3, <1>4, <1>5

(* The longest chain from a task on is its length and the longest one beyond it. *)
LEMMA FromIs ==
  ASSUME NEW t, NEW rank, Sound(t, rank)
  PROVE  /\ LongestFrom(t) \in [Members(t) -> Nat]
         /\ \A x \in Members(t) :
               LongestFrom(t)[x] = t.len[x] + Latest(Beyond(t, LongestFrom(t), x))
<1>0. PICK K \in Nat, down \in [Members(t) -> Nat] :
            /\ \A x \in Members(t) : down[x] <= K
            /\ \A x \in Members(t) : \A y \in Followers(t, x) : down[y] < down[x]
  BY RanksDown
<1> DEFINE M == Members(t)
           Holds(f, k) == /\ f \in [M -> Nat]
                          /\ \A x \in M : down[x] < k => f[x] = t.len[x] + Latest(Beyond(t, f, x))
           G == {k \in Nat : \E f : Holds(f, k)}
<1>1. 0 \in G
  <2>1. Holds([x \in M |-> 0], 0)
    OBVIOUS
  <2> QED BY <2>1
<1>2. ASSUME NEW k \in Nat, k \in G PROVE k + 1 \in G
  <2>1. PICK f : Holds(f, k)
    BY <1>2
  <2> DEFINE h == [x \in M |-> IF down[x] < k THEN f[x] ELSE t.len[x] + Latest(Beyond(t, f, x))]
  <2>2. \A x \in M : t.len[x] + Latest(Beyond(t, f, x)) \in Nat
    <3> SUFFICES ASSUME NEW x \in M PROVE t.len[x] + Latest(Beyond(t, f, x)) \in Nat
      OBVIOUS
    <3>1. \A y \in Followers(t, x) : f[y] \in Nat
      BY <2>1 DEF Followers
    <3>2. Latest(Beyond(t, f, x)) \in Nat
      BY <3>1, BeyondFinite, LatestIs
    <3> QED BY <3>2 DEF Sound
  <2>3. h \in [M -> Nat]
    BY <2>1, <2>2
  <2>4. ASSUME NEW x \in M, down[x] < k + 1
        PROVE  h[x] = t.len[x] + Latest(Beyond(t, h, x))
    <3>1. \A y \in Followers(t, x) : y \in M /\ down[y] < k
      <4> SUFFICES ASSUME NEW y \in Followers(t, x) PROVE y \in M /\ down[y] < k
        OBVIOUS
      <4>1. y \in M /\ down[y] < down[x] /\ down[y] \in Nat /\ down[x] \in Nat
        BY <1>0 DEF Followers
      <4> QED BY <2>4, <4>1
    <3>2. \A y \in Followers(t, x) : h[y] = f[y]
      BY <3>1
    <3>3. Beyond(t, h, x) = Beyond(t, f, x)
      <4> HIDE DEF h
      <4> QED BY <3>2 DEF Beyond
    <3>4. down[x] < k => f[x] = t.len[x] + Latest(Beyond(t, f, x))
      BY <2>1
    <3> QED BY <3>3, <3>4
  <2>5. Holds(h, k + 1)
    <3> HIDE DEF h
    <3> QED BY <2>3, <2>4
  <2> HIDE DEF h, Holds
  <2> QED BY <2>5
<1>4. PICK f : Holds(f, K + 1)
  <2> HIDE DEF Holds
  <2>1. K + 1 \in G
    <3> HIDE DEF G
    <3> QED BY <1>1, <1>2, Upward
  <2> QED BY <2>1
<1> DEFINE from[x \in Members(t)] ==
             t.len[x] + Latest({t.lag[y][x] + from[y] : y \in Followers(t, x)})
<1>5. f = [x \in Members(t) |-> t.len[x] + Latest({t.lag[y][x] + f[y] : y \in Followers(t, x)})]
  <2>1. \A x \in M : down[x] < K + 1
    BY <1>0
  <2> QED BY <1>4, <2>1 DEF Beyond
<1>6. from = [x \in Members(t) |->
                t.len[x] + Latest({t.lag[y][x] + from[y] : y \in Followers(t, x)})]
  BY <1>5, Zenon
<1>7. LongestFrom(t) = from
  BY Zenon DEF LongestFrom
<1> HIDE DEF from
<1>8. \A x \in M : from[x] = t.len[x] + Latest(Beyond(t, from, x))
  BY <1>6, Zenon DEF Beyond
<1>9. \A x \in M : from[x] \in Nat
  <2> DEFINE W == {z \in M : from[z] \in Nat}
  <2>1. ASSUME NEW x \in M, \A y \in M : down[y] < down[x] => y \in W
        PROVE  x \in W
    <3>1. \A y \in Followers(t, x) : from[y] \in Nat
      BY <1>0, <2>1 DEF Followers
    <3>2. Latest(Beyond(t, from, x)) \in Nat
      BY <3>1, BeyondFinite, LatestIs
    <3>3. t.len[x] \in Nat
      BY DEF Sound
    <3> QED BY <1>8, <3>2, <3>3
  <2>2. down \in [M -> Nat]
    BY <1>0
  <2>3. M \subseteq W
    <3> HIDE DEF M, W
    <3> QED BY <2>1, <2>2, Upwards
  <2> QED BY <2>3
<1>10. from \in [M -> Nat]
  BY <1>6, <1>9
<1> QED BY <1>7, <1>8, <1>10

-----------------------------------------------------------------------------
(* An edge bounds the longest chains on both of its sides, and some edge is tight. *)

(* A chain up to p is a chain up to whatever waits for p. *)
LEMMA BeforeEdge ==
  ASSUME NEW t, NEW rank, Sound(t, rank), NEW x \in Members(t), NEW p \in t.deps[x]
  PROVE  /\ LongestBefore(t)[p] + t.len[p] + t.lag[x][p] <= LongestBefore(t)[x]
         /\ p \in Members(t) /\ x \in Followers(t, p)
<1> DEFINE B == LongestBefore(t)
<1>1. p \in Members(t) /\ x \in Followers(t, p)
  BY DEF Sound, Followers
<1>2. \A q \in t.deps[x] : B[q] \in Nat
  BY BeforeIs DEF Sound
<1>3. B[p] + t.len[p] + t.lag[x][p] \in Through(t, B, x)
  BY DEF Through
<1> HIDE DEF B
<1>4. B[p] + t.len[p] + t.lag[x][p] <= Latest(Through(t, B, x))
  BY <1>2, <1>3, ThroughFinite, LatestIs
<1> QED BY <1>1, <1>4, BeforeIs DEF B

(* And one of the prerequisites attains the longest. *)
LEMMA BeforeTight ==
  ASSUME NEW t, NEW rank, Sound(t, rank), NEW x \in Members(t)
  PROVE  /\ t.deps[x] = {} => LongestBefore(t)[x] = 0
         /\ t.deps[x] # {} =>
              \E p \in t.deps[x] :
                 LongestBefore(t)[x] = LongestBefore(t)[p] + t.len[p] + t.lag[x][p]
<1> DEFINE B == LongestBefore(t)
<1>2. \A q \in t.deps[x] : B[q] \in Nat
  BY BeforeIs DEF Sound
<1> HIDE DEF B
<1>3. B[x] = Latest(Through(t, B, x))
  BY BeforeIs DEF B
<1>4. ASSUME t.deps[x] = {} PROVE B[x] = 0
  <2>1. Through(t, B, x) = {}
    BY <1>4 DEF Through
  <2> QED BY <1>3, <2>1 DEF Latest
<1>5. ASSUME t.deps[x] # {}
      PROVE  \E p \in t.deps[x] : B[x] = B[p] + t.len[p] + t.lag[x][p]
  <2>1. Through(t, B, x) # {}
    BY <1>5 DEF Through
  <2>2. Latest(Through(t, B, x)) \in Through(t, B, x)
    BY <1>2, <2>1, ThroughFinite, LatestIs
  <2> QED BY <1>3, <2>2 DEF Through
<1> QED BY <1>4, <1>5 DEF B

(* A chain from a follower on is a chain from x on. *)
LEMMA FromEdge ==
  ASSUME NEW t, NEW rank, Sound(t, rank), NEW x \in Members(t), NEW y \in Followers(t, x)
  PROVE  t.len[x] + t.lag[y][x] + LongestFrom(t)[y] <= LongestFrom(t)[x]
<1> DEFINE F == LongestFrom(t)
<1>2. \A z \in Followers(t, x) : F[z] \in Nat
  BY FromIs DEF Followers
<1>3. t.lag[y][x] + F[y] \in Beyond(t, F, x)
  BY DEF Beyond
<1> HIDE DEF F
<1>4. t.lag[y][x] + F[y] <= Latest(Beyond(t, F, x)) /\ Latest(Beyond(t, F, x)) \in Nat
  BY <1>2, <1>3, BeyondFinite, LatestIs
<1>5. F[x] = t.len[x] + Latest(Beyond(t, F, x)) /\ t.len[x] \in Nat
  BY FromIs DEF F, Sound
<1>6. t.lag[y][x] \in Nat /\ F[y] \in Nat
  BY <1>2, FollowersAre
<1> QED BY <1>4, <1>5, <1>6 DEF F

(* And one of the followers attains the longest. *)
LEMMA FromTight ==
  ASSUME NEW t, NEW rank, Sound(t, rank), NEW x \in Members(t)
  PROVE  /\ LongestFrom(t)[x] >= t.len[x]
         /\ Followers(t, x) = {} => LongestFrom(t)[x] = t.len[x]
         /\ Followers(t, x) # {} =>
              \E y \in Followers(t, x) :
                 LongestFrom(t)[x] = t.len[x] + t.lag[y][x] + LongestFrom(t)[y]
<1> DEFINE F == LongestFrom(t)
<1>1. t.len[x] \in Nat
  BY DEF Sound
<1>2. \A z \in Followers(t, x) : F[z] \in Nat
  BY FromIs DEF Followers
<1> HIDE DEF F
<1>3. F[x] = t.len[x] + Latest(Beyond(t, F, x)) /\ Latest(Beyond(t, F, x)) \in Nat
  BY <1>2, FromIs, BeyondFinite, LatestIs DEF F
<1>4. ASSUME Followers(t, x) = {} PROVE F[x] = t.len[x]
  <2>1. Beyond(t, F, x) = {}
    BY <1>4 DEF Beyond
  <2> QED BY <1>1, <1>3, <2>1 DEF Latest
<1>5. ASSUME Followers(t, x) # {}
      PROVE  \E y \in Followers(t, x) : F[x] = t.len[x] + t.lag[y][x] + F[y]
  <2>1. Beyond(t, F, x) # {}
    BY <1>5 DEF Beyond
  <2>2. Latest(Beyond(t, F, x)) \in Beyond(t, F, x)
    BY <1>2, <2>1, BeyondFinite, LatestIs
  <2>3. PICK y \in Followers(t, x) : Latest(Beyond(t, F, x)) = t.lag[y][x] + F[y]
    BY <2>2 DEF Beyond
  <2>4. t.lag[y][x] \in Nat /\ F[y] \in Nat
    BY <1>2, FollowersAre
  <2> QED BY <1>1, <1>3, <2>3, <2>4
<1> QED BY <1>1, <1>3, <1>4, <1>5 DEF F

(* One task ends the network, and one begins it. *)
Bounded(t) ==
    /\ {START, FINISH} \subseteq Members(t) /\ t.len[FINISH] = 0 /\ t.len[START] = 0
    /\ \A x \in Members(t) : (Followers(t, x) = {} <=> x = FINISH) /\ (t.deps[x] = {} <=> x = START)

(* What is before a task and from it on fits into the project. *)
LEMMA ChainsFit ==
  ASSUME NEW t, NEW rank, Sound(t, rank), Bounded(t), NEW x0 \in Members(t)
  PROVE  LongestBefore(t)[x0] + LongestFrom(t)[x0] <= LongestBefore(t)[FINISH]
<1> DEFINE B == LongestBefore(t)
           F == LongestFrom(t)
           W == {z \in Members(t) : B[z] + F[z] <= B[FINISH]}
<1>0. PICK K \in Nat, down \in [Members(t) -> Nat] :
            \A x \in Members(t) : \A y \in Followers(t, x) : down[y] < down[x]
  BY RanksDown
<1>1. B \in [Members(t) -> Nat] /\ F \in [Members(t) -> Nat]
  BY BeforeIs, FromIs
<1>2. ASSUME NEW x \in Members(t), \A y \in Members(t) : down[y] < down[x] => y \in W
      PROVE  x \in W
  <2>1. CASE Followers(t, x) = {}
    <3>1. F[x] = 0 /\ x = FINISH
      BY <2>1, FromTight DEF Bounded
    <3> QED BY <1>1, <3>1
  <2>2. CASE Followers(t, x) # {}
    <3>1. PICK y \in Followers(t, x) : F[x] = t.len[x] + t.lag[y][x] + F[y]
      BY <2>2, FromTight
    <3>2. y \in W /\ x \in t.deps[y] /\ y \in Members(t)
      BY <1>0, <1>2, FollowersAre
    <3>3. B[x] + t.len[x] + t.lag[y][x] <= B[y]
      BY <3>2, BeforeEdge
    <3>4. t.len[x] \in Nat /\ t.lag[y][x] \in Nat /\ FINISH \in Members(t)
      BY <3>2 DEF Sound, Bounded
    <3> HIDE DEF B, F
    <3>5. {B[x], F[x], B[y], F[y], B[FINISH]} \subseteq Nat
      BY <1>1, <3>2, <3>4
    <3> QED BY <3>1, <3>2, <3>3, <3>4, <3>5
  <2> QED BY <2>1, <2>2
<1>3. Members(t) \subseteq W
  <2> HIDE DEF W
  <2> QED BY <1>2, Upwards
<1> QED BY <1>3

-----------------------------------------------------------------------------
(* The forward pass *)

(* Where the forward pass begins, and a turn of its loop. *)
Roots(t) == {x \in Members(t) : t.deps[x] = {}}

ForwardStart(t) ==
    [es    |-> [x \in Members(t) |-> 0],
     ef    |-> [x \in Members(t) |-> IF x \in Roots(t) THEN t.len[x] ELSE 0],
     left  |-> [x \in Members(t) |-> Cardinality(t.deps[x])],
     queue |-> Kept(t.ids, Roots(t)),
     order |-> <<>>]

ForwardTurn(t, s) == IF s.queue = <<>> THEN s ELSE Pop(t, s)

(* The forward pass takes one step after the other. *)
LEMMA ForwardPassUnfolds ==
  ASSUME NEW t, Len(t.ids) \in Nat
  PROVE  \E after :
            /\ after = [n \in 0 .. Len(t.ids) |->
                          IF n = 0 THEN ForwardStart(t) ELSE ForwardTurn(t, after[n - 1])]
            /\ ForwardPass(t) = after[Len(t.ids)]
<1> DEFINE Is(f, k) == f = [n \in 0 .. k |->
                              IF n = 0 THEN ForwardStart(t) ELSE ForwardTurn(t, f[n - 1])]
           G == {k \in Nat : \E f : Is(f, k)}
<1>1. 0 \in G
  <2>1. Is([n \in 0 .. 0 |-> ForwardStart(t)], 0)
    OBVIOUS
  <2> QED BY <2>1
<1>2. ASSUME NEW k \in Nat, k \in G PROVE k + 1 \in G
  <2>1. PICK f : Is(f, k)
    BY <1>2
  <2> DEFINE h == [n \in 0 .. k + 1 |-> IF n = k + 1 THEN ForwardTurn(t, f[k]) ELSE f[n]]
  <2>2. Is(h, k + 1)
    BY <2>1
  <2> HIDE DEF h, Is
  <2> QED BY <2>2
<1>3. PICK f : Is(f, Len(t.ids))
  <2> HIDE DEF Is
  <2>1. Len(t.ids) \in G
    <3> HIDE DEF G
    <3> QED BY <1>1, <1>2, Upward
  <2> QED BY <2>1
<1> DEFINE after[n \in 0 .. Len(t.ids)] ==
             IF n = 0
             THEN [es    |-> [x \in Members(t) |-> 0],
                   ef    |-> [x \in Members(t) |-> IF x \in {y \in Members(t) : t.deps[y] = {}}
                                                   THEN t.len[x] ELSE 0],
                   left  |-> [x \in Members(t) |-> Cardinality(t.deps[x])],
                   queue |-> Kept(t.ids, {y \in Members(t) : t.deps[y] = {}}),
                   order |-> <<>>]
             ELSE IF after[n - 1].queue = <<>> THEN after[n - 1] ELSE Pop(t, after[n - 1])
<1>4. after = [n \in 0 .. Len(t.ids) |->
                 IF n = 0 THEN ForwardStart(t) ELSE ForwardTurn(t, after[n - 1])]
  BY <1>3, Zenon DEF ForwardStart, ForwardTurn, Roots
<1>5. ForwardPass(t) = after[Len(t.ids)]
  BY Zenon DEF ForwardPass
<1> HIDE DEF after
<1> QED BY <1>4, <1>5

-----------------------------------------------------------------------------
(* One more candidate for the latest. *)
LEMMA LatestWith ==
  ASSUME NEW S, IsFiniteSet(S), S \subseteq Nat, NEW v \in Nat
  PROVE  Latest(S \cup {v}) = IF v > Latest(S) THEN v ELSE Latest(S)
<1>1. /\ Latest(S) \in Nat /\ \A k \in S : k <= Latest(S)
      /\ Latest(S) \in S \cup {0}
  BY LatestIs
<1>2. CASE v > Latest(S)
  <2>1. \A k \in S \cup {v} : k <= v
    BY <1>1, <1>2
  <2>2. S \cup {v} \subseteq Nat /\ v \in S \cup {v}
    OBVIOUS
  <2> QED BY <1>2, <2>1, <2>2, LatestUnique
<1>3. CASE ~ (v > Latest(S))
  <2>1. \A k \in S \cup {v} : k <= Latest(S)
    BY <1>1, <1>3
  <2>2. S \cup {v} \subseteq Nat
    OBVIOUS
  <2>3. Latest(S) \in S \cup {v} \/ Latest(S) = 0
    BY <1>1
  <2> QED BY <1>1, <1>3, <2>1, <2>2, <2>3, LatestUnique
<1> QED BY <1>2, <1>3

(* What the popped dependencies of x say of its start. *)
Known(t, O, x) == {LongestBefore(t)[p] + t.len[p] + t.lag[x][p] : p \in t.deps[x] \cap O}

Topological(t, order) ==
    \A i \in DOMAIN order : \A p \in t.deps[order[i]] : \E j \in 1 .. i - 1 : order[j] = p

(* The forward pass keeps this. *)
Forward(t, s) ==
    /\ s.order \in Seq(Members(t)) /\ s.queue \in Seq(Members(t))
    /\ IsInjective(s.order) /\ IsInjective(s.queue) /\ ToSet(s.order) \cap ToSet(s.queue) = {}
    /\ \A x \in Members(t) : x \in ToSet(s.order) \cup ToSet(s.queue)
                               <=> t.deps[x] \subseteq ToSet(s.order)
    /\ s.left = [x \in Members(t) |-> Cardinality(t.deps[x] \ ToSet(s.order))]
    /\ s.es = [x \in Members(t) |-> Latest(Known(t, ToSet(s.order), x))]
    /\ s.ef \in [Members(t) -> Nat]
    /\ \A x \in ToSet(s.order) \cup ToSet(s.queue) : s.ef[x] = s.es[x] + t.len[x]
    /\ Topological(t, s.order)

(* When every prerequisite is out, what is known is all there is. *)
LEMMA KnownIs ==
  ASSUME NEW t, NEW rank, Sound(t, rank), NEW O, NEW x \in Members(t)
  PROVE  /\ IsFiniteSet(Known(t, O, x)) /\ Known(t, O, x) \subseteq Nat
         /\ t.deps[x] \subseteq O => Latest(Known(t, O, x)) = LongestBefore(t)[x]
<1> DEFINE B == LongestBefore(t)
<1>1. \A p \in t.deps[x] : B[p] \in Nat
  BY BeforeIs DEF Sound
<1>2. IsFiniteSet(Through(t, B, x)) /\ Through(t, B, x) \subseteq Nat
      /\ B[x] = Latest(Through(t, B, x))
  <2> HIDE DEF B
  <2>1. B[x] = Latest(Through(t, B, x))
    BY BeforeIs DEF B
  <2> QED BY <1>1, <2>1, ThroughFinite
<1>3. Known(t, O, x) \subseteq Through(t, B, x)
  BY DEF Known, Through
<1>4. IsFiniteSet(Known(t, O, x)) /\ Known(t, O, x) \subseteq Nat
  BY <1>2, <1>3, FS_Subset
<1>5. ASSUME t.deps[x] \subseteq O PROVE Known(t, O, x) = Through(t, B, x)
  BY <1>5 DEF Known, Through
<1> QED BY <1>2, <1>4, <1>5

(* What is known once p is out as well. *)
LEMMA KnownGrows ==
  ASSUME NEW t, NEW O, NEW x, NEW p
  PROVE  Known(t, O \cup {p}, x)
           = IF p \in t.deps[x]
             THEN Known(t, O, x) \cup {LongestBefore(t)[p] + t.len[p] + t.lag[x][p]}
             ELSE Known(t, O, x)
<1>1. CASE p \in t.deps[x]
  BY <1>1 DEF Known
<1>2. CASE p \notin t.deps[x]
  BY <1>2 DEF Known
<1> QED BY <1>1, <1>2

(* The order of the ids names every task once. *)
LEMMA SoundIds ==
  ASSUME NEW t, NEW rank, Sound(t, rank)
  PROVE  t.ids \in Seq(Members(t)) /\ ToSet(t.ids) = Members(t) /\ IsInjective(t.ids)
<1>1. t.ids \in Seq(Int) /\ DOMAIN t.ids = 1 .. Len(t.ids) /\ Len(t.ids) \in Nat
  BY LenProperties DEF Sound
<1>2. \A i \in 1 .. Len(t.ids) : t.ids[i] \in Members(t)
  BY <1>1 DEF Members, ToSet
<1>3. t.ids \in [1 .. Len(t.ids) -> Members(t)]
  <2>1. t.ids = [i \in 1 .. Len(t.ids) |-> t.ids[i]]
    BY <1>1
  <2> HIDE DEF Members
  <2> QED BY <1>2, <2>1
<1>4. t.ids \in Seq(Members(t))
  <2>1. t.ids \in UNION {[1 .. n -> Members(t)] : n \in Nat}
    BY <1>1, <1>3
  <2> QED BY <2>1, SeqDef
<1> QED BY <1>4 DEF Members, Sound

(* The forward pass starts in order. *)
LEMMA ForwardBegins ==
  ASSUME NEW t, NEW rank, Sound(t, rank)
  PROVE  Forward(t, ForwardStart(t))
<1> DEFINE s == ForwardStart(t)
<1>1. t.ids \in Seq(Members(t)) /\ ToSet(t.ids) = Members(t) /\ IsInjective(t.ids)
  BY SoundIds
<1>2. s.queue \in Seq(Members(t)) /\ ToSet(s.queue) = Roots(t) /\ IsInjective(s.queue)
  <2>1. Members(t) \cap Roots(t) = Roots(t)
    BY DEF Roots
  <2>2. s.queue = Kept(t.ids, Roots(t))
    BY DEF ForwardStart
  <2>3. /\ Kept(t.ids, Roots(t)) \in Seq(Members(t))
        /\ ToSet(Kept(t.ids, Roots(t))) = ToSet(t.ids) \cap Roots(t)
        /\ IsInjective(t.ids) => IsInjective(Kept(t.ids, Roots(t)))
    BY <1>1, KeptIs
  <2> QED BY <1>1, <2>1, <2>2, <2>3
<1>3. s.order = <<>> /\ ToSet(s.order) = {} /\ s.order \in Seq(Members(t)) /\ IsInjective(s.order)
      /\ DOMAIN s.order = {}
  BY DEF ForwardStart, ToSet, IsInjective
<1>4. \A x \in Members(t) : t.deps[x] \ {} = t.deps[x] /\ Known(t, {}, x) = {}
  BY DEF Known
<1>5. s.left = [x \in Members(t) |-> Cardinality(t.deps[x] \ ToSet(s.order))]
  BY <1>3, <1>4 DEF ForwardStart
<1>6. s.es = [x \in Members(t) |-> Latest(Known(t, ToSet(s.order), x))]
  BY <1>3, <1>4 DEF ForwardStart, Latest
<1>7. \A x \in Roots(t) : s.ef[x] = s.es[x] + t.len[x]
  BY DEF ForwardStart, Roots, Sound
<1>8. s.ef \in [Members(t) -> Nat]
  BY DEF ForwardStart, Sound
<1>9. \A x \in Members(t) : x \in Roots(t) <=> t.deps[x] \subseteq {}
  BY DEF Roots
<1> HIDE DEF s
<1>10. ToSet(s.order) \cap ToSet(s.queue) = {} /\ ToSet(s.order) \cup ToSet(s.queue) = Roots(t)
  BY <1>2, <1>3
<1>11. Topological(t, s.order)
  BY <1>3 DEF Topological
<1> QED BY <1>2, <1>3, <1>5, <1>6, <1>7, <1>8, <1>9, <1>10, <1>11 DEF Forward, s

(* A pop keeps the forward pass in order, with one more task out. *)
LEMMA PopKeeps ==
  ASSUME NEW t, NEW rank, Sound(t, rank), NEW s, Forward(t, s), s.queue # <<>>
  PROVE  /\ Forward(t, Pop(t, s))
         /\ Len(Pop(t, s).order) = Len(s.order) + 1
<1> DEFINE M == Members(t)
           O == ToSet(s.order)
           Q == ToSet(s.queue)
           p == Head(s.queue)
           R == ToSet(Tail(s.queue))
           next == Followers(t, p)
           u == Pop(t, s)
           freed == {x \in next : u.left[x] = 0}
           B == LongestBefore(t)
<1>1. p \in M /\ p \notin O /\ p \notin R /\ Q = {p} \cup R /\ R \subseteq M /\ O \subseteq M
      /\ Tail(s.queue) \in Seq(M) /\ IsInjective(Tail(s.queue)) /\ O \cap R = {}
  <2>1. s.order \in Seq(M) /\ s.queue \in Seq(M) /\ IsInjective(s.queue) /\ O \cap Q = {}
    BY DEF Forward
  <2>2. O \subseteq M /\ Q \subseteq M
    BY <2>1, FiniteSeqSet
  <2>3. /\ p \in M /\ p \notin R /\ Q = {p} \cup R /\ Tail(s.queue) \in Seq(M)
        /\ IsInjective(Tail(s.queue))
    BY <2>1, HeadSet
  <2> QED BY <2>1, <2>2, <2>3
<1>2. /\ u.order = Append(s.order, p) /\ u.order \in Seq(M) /\ IsInjective(u.order)
      /\ ToSet(u.order) = O \cup {p} /\ Len(u.order) = Len(s.order) + 1
  <2>1. s.order \in Seq(M) /\ IsInjective(s.order)
    BY DEF Forward
  <2> QED BY <1>1, <2>1, AppendSet, AppendProperties DEF Pop
<1>3. \A x \in M : (x \in next <=> p \in t.deps[x]) /\ t.deps[x] \subseteq M
      /\ IsFiniteSet(t.deps[x])
  BY SoundMembers DEF Followers
<1>4. next \subseteq M /\ \A x \in next : x \in M /\ p \in t.deps[x] /\ x \notin O \cup Q
  <2>1. \A x \in M : x \in O \cup Q <=> t.deps[x] \subseteq O
    BY DEF Forward
  <2> QED BY <1>1, <2>1 DEF Followers
<1>5. u.left = [x \in M |-> Cardinality(t.deps[x] \ (O \cup {p}))]
  <2>1. u.left = [x \in M |-> IF x \in next THEN s.left[x] - 1 ELSE s.left[x]]
    BY DEF Pop
  <2>2. \A x \in M : s.left[x] = Cardinality(t.deps[x] \ O)
    BY DEF Forward
  <2>3. ASSUME NEW x \in M, x \in next
        PROVE  s.left[x] - 1 = Cardinality(t.deps[x] \ (O \cup {p}))
    <3> DEFINE D == t.deps[x] \ O
    <3>1. IsFiniteSet(D) /\ p \in D /\ D \ {p} = t.deps[x] \ (O \cup {p})
      BY <1>1, <1>3, <2>3, FS_Subset
    <3>2. Cardinality(D \ {p}) = Cardinality(D) - 1
      BY <3>1, FS_RemoveElement
    <3> QED BY <2>2, <3>1, <3>2
  <2>4. ASSUME NEW x \in M, x \notin next
        PROVE  s.left[x] = Cardinality(t.deps[x] \ (O \cup {p}))
    <3>1. t.deps[x] \ O = t.deps[x] \ (O \cup {p})
      BY <1>3, <2>4
    <3> QED BY <2>2, <3>1
  <2> HIDE DEF next, u, p, O
  <2> QED BY <2>1, <2>3, <2>4
<1>6. \A x \in M : u.left[x] = 0 <=> t.deps[x] \subseteq O \cup {p}
  <2> SUFFICES ASSUME NEW x \in M PROVE u.left[x] = 0 <=> t.deps[x] \subseteq O \cup {p}
    OBVIOUS
  <2>1. IsFiniteSet(t.deps[x] \ (O \cup {p}))
    BY <1>3, FS_Subset
  <2>2. Cardinality(t.deps[x] \ (O \cup {p})) = 0 <=> t.deps[x] \ (O \cup {p}) = {}
    BY <2>1, FS_EmptySet
  <2> QED BY <1>5, <2>2
<1>7. /\ u.queue \in Seq(M) /\ IsInjective(u.queue) /\ ToSet(u.queue) = R \cup freed
  <2>1. t.ids \in Seq(M) /\ ToSet(t.ids) = M /\ IsInjective(t.ids)
    BY SoundIds
  <2>2. u.queue = Tail(s.queue) \o Kept(t.ids, freed)
    BY DEF Pop
  <2>3. M \cap freed = freed /\ R \cap freed = {}
    BY <1>1, <1>4
  <2> HIDE DEF freed, M
  <2>4. /\ Kept(t.ids, freed) \in Seq(M) /\ ToSet(Kept(t.ids, freed)) = ToSet(t.ids) \cap freed
        /\ IsInjective(t.ids) => IsInjective(Kept(t.ids, freed))
    BY <2>1, KeptIs
  <2>5. ToSet(Kept(t.ids, freed)) = freed /\ IsInjective(Kept(t.ids, freed))
    BY <2>1, <2>3, <2>4
  <2> HIDE DEF u
  <2> DEFINE a == Tail(s.queue)
             b == Kept(t.ids, freed)
  <2>6. a \in Seq(M) /\ b \in Seq(M) /\ IsInjective(a) /\ IsInjective(b)
        /\ ToSet(a) = R /\ ToSet(b) = freed
    BY <1>1, <2>4, <2>5
  <2> HIDE DEF a, b, R
  <2>7. ToSet(a \o b) = ToSet(a) \cup ToSet(b) /\ a \o b \in Seq(M)
        /\ (ToSet(a) \cap ToSet(b) = {} => IsInjective(a \o b))
    BY <2>6, ConcatSet, ConcatProperties
  <2>8. u.queue = a \o b
    BY <2>2 DEF a, b
  <2> QED BY <2>3, <2>6, <2>7, <2>8
<1>8. \A x \in M : x \in (O \cup {p}) \cup (R \cup freed) <=> t.deps[x] \subseteq O \cup {p}
  <2>1. \A x \in M : x \in O \cup Q <=> t.deps[x] \subseteq O
    BY DEF Forward
  <2>2. \A x \in M : t.deps[x] \subseteq O \cup {p} => t.deps[x] \subseteq O \/ x \in next
    BY <1>3
  <2> QED BY <1>1, <1>3, <1>6, <2>1, <2>2
<1>9. (O \cup {p}) \cap (R \cup freed) = {}
  BY <1>1, <1>4
<1>10. s.ef[p] = B[p] + t.len[p]
  <2>1. p \in O \cup Q
    BY <1>1
  <2>2. s.ef[p] = s.es[p] + t.len[p]
    BY <2>1 DEF Forward
  <2>3. t.deps[p] \subseteq O
    BY <1>1, <2>1 DEF Forward
  <2>4. s.es[p] = Latest(Known(t, O, p))
    BY <1>1 DEF Forward
  <2>5. s.es[p] = B[p]
    BY <1>1, <2>3, <2>4, KnownIs
  <2> QED BY <2>2, <2>5
<1>11. u.es = [x \in M |-> Latest(Known(t, O \cup {p}, x))]
  <2>1. u.es = [x \in M |-> IF x \in next THEN Raised(t, s, p, x) ELSE s.es[x]]
    BY DEF Pop
  <2>2. \A x \in M : s.es[x] = Latest(Known(t, O, x))
    BY DEF Forward
  <2>3. ASSUME NEW x \in M, x \in next
        PROVE  Raised(t, s, p, x) = Latest(Known(t, O \cup {p}, x))
    <3> DEFINE v == B[p] + t.len[p] + t.lag[x][p]
    <3>1. p \in t.deps[x]
      BY <1>3, <2>3
    <3>0. x \in Members(t) /\ p \in Members(t)
      BY <1>1, <2>3
    <3>2. v \in Nat
      <4>1. B[p] \in Nat
        BY <3>0, BeforeIs
      <4>2. t.len[p] \in Nat /\ t.lag[x][p] \in Nat
        BY <3>0, <3>1 DEF Sound
      <4> HIDE DEF B, p
      <4> QED BY <4>1, <4>2
    <3>3. Known(t, O \cup {p}, x) = Known(t, O, x) \cup {v}
      BY <3>1, KnownGrows
    <3>4. IsFiniteSet(Known(t, O, x)) /\ Known(t, O, x) \subseteq Nat
      BY <3>0, KnownIs
    <3>5. Raised(t, s, p, x) = IF v > s.es[x] THEN v ELSE s.es[x]
      BY <1>10 DEF Raised
    <3>6. s.es[x] = Latest(Known(t, O, x))
      BY <2>2
    <3> DEFINE K == Known(t, O, x)
    <3> HIDE DEF v, p, O, K
    <3>7. Latest(K \cup {v}) = IF v > Latest(K) THEN v ELSE Latest(K)
      BY <3>2, <3>4, LatestWith DEF K
    <3> QED BY <3>3, <3>5, <3>6, <3>7 DEF K
  <2>4. ASSUME NEW x \in M, x \notin next PROVE s.es[x] = Latest(Known(t, O \cup {p}, x))
    <3>1. p \notin t.deps[x]
      BY <1>3, <2>4
    <3>2. x \in Members(t) /\ s.es[x] = Latest(Known(t, O, x))
      BY <2>2
    <3> HIDE DEF O, p, M
    <3>3. Known(t, O \cup {p}, x) = Known(t, O, x)
      BY <3>1, KnownGrows
    <3> QED BY <3>2, <3>3
  <2> HIDE DEF u, M, next, O, p
  <2> QED BY <2>1, <2>3, <2>4
<1>12. \A x \in (O \cup {p}) \cup (R \cup freed) : u.ef[x] = u.es[x] + t.len[x]
  <2>1. \A x \in M : u.ef[x] = IF x \in next THEN u.es[x] + t.len[x] ELSE s.ef[x]
    BY DEF Pop
  <2>2. \A x \in M : x \notin next => u.es[x] = s.es[x]
    BY DEF Pop
  <2>3. \A x \in O \cup Q : s.ef[x] = s.es[x] + t.len[x]
    BY DEF Forward
  <2>4. freed \subseteq next
    OBVIOUS
  <2> HIDE DEF u, M, freed, next, p, O, Q, R
  <2> QED BY <1>1, <1>4, <2>1, <2>2, <2>3, <2>4
<1>13. u.ef \in [M -> Nat]
  <2>1. \A x \in M : u.es[x] \in Nat
    BY <1>11, KnownIs, LatestIs
  <2>2. u.ef = [x \in M |-> IF x \in next THEN u.es[x] + t.len[x] ELSE s.ef[x]]
    BY DEF Pop
  <2>3. \A x \in M : s.ef[x] \in Nat /\ t.len[x] \in Nat
    BY DEF Forward, Sound
  <2> HIDE DEF u, M, next
  <2> QED BY <2>1, <2>2, <2>3
<1>14. Topological(t, u.order)
  <2>1. s.order \in Seq(M) /\ Topological(t, s.order) /\ t.deps[p] \subseteq O
    BY <1>1 DEF Forward
  <2>2. DOMAIN s.order = 1 .. Len(s.order) /\ Len(s.order) \in Nat
        /\ DOMAIN u.order = 1 .. Len(s.order) + 1
    BY <1>2, <2>1, LenProperties
  <2>3. /\ \A i \in 1 .. Len(s.order) : u.order[i] = s.order[i]
        /\ u.order[Len(s.order) + 1] = p
    BY <1>1, <1>2, <2>1, AppendProperties
  <2> HIDE DEF u, p
  <2>4. ASSUME NEW i \in 1 .. Len(s.order), NEW q \in t.deps[u.order[i]]
        PROVE  \E j \in 1 .. i - 1 : u.order[j] = q
    <3>1. PICK j \in 1 .. i - 1 : s.order[j] = q
      BY <2>1, <2>2, <2>3 DEF Topological
    <3>2. j \in 1 .. Len(s.order)
      BY <2>2
    <3> QED BY <2>3, <3>1, <3>2
  <2>5. ASSUME NEW q \in t.deps[p]
        PROVE  \E j \in 1 .. (Len(s.order) + 1) - 1 : u.order[j] = q
    <3>1. PICK j \in 1 .. Len(s.order) : s.order[j] = q
      BY <2>1, <2>2 DEF ToSet
    <3>2. j \in 1 .. (Len(s.order) + 1) - 1
      BY <2>2
    <3> QED BY <2>3, <3>1, <3>2
  <2>6. \A i \in 1 .. Len(s.order) + 1 : i \in 1 .. Len(s.order) \/ i = Len(s.order) + 1
    BY <2>2
  <2>7. \A i \in DOMAIN u.order : \A q \in t.deps[u.order[i]] : \E j \in 1 .. i - 1 : u.order[j] = q
    BY <2>2, <2>3, <2>4, <2>5, <2>6
  <2> QED BY <2>7 DEF Topological
<1> HIDE DEF u, p, M, O, R, freed
<1>15. ToSet(u.order) \cap ToSet(u.queue) = {}
  BY <1>2, <1>7, <1>9
<1>16. u.left = [x \in M |-> Cardinality(t.deps[x] \ ToSet(u.order))]
  BY <1>2, <1>5
<1>17. u.es = [x \in M |-> Latest(Known(t, ToSet(u.order), x))]
  BY <1>2, <1>11
<1> QED BY <1>2, <1>7, <1>8, <1>12, <1>13, <1>14, <1>15, <1>16, <1>17 DEF Forward, M, u

-----------------------------------------------------------------------------
(* The forward pass finds the longest chains *)

(* The forward pass pops every task, after its dependencies, and finds the hours of the
   longest chain before each. *)
THEOREM ForwardIs ==
  ASSUME NEW t, NEW rank, Sound(t, rank)
  PROVE  /\ ForwardPass(t).order \in Seq(Members(t)) /\ IsInjective(ForwardPass(t).order)
         /\ ToSet(ForwardPass(t).order) = Members(t)
         /\ Len(ForwardPass(t).order) = Len(t.ids)
         /\ Topological(t, ForwardPass(t).order)
         /\ ForwardPass(t).es = [x \in Members(t) |-> LongestBefore(t)[x]]
         /\ ForwardPass(t).ef = [x \in Members(t) |-> LongestBefore(t)[x] + t.len[x]]
<1> DEFINE M == Members(t)
           N == Len(t.ids)
           f == ForwardPass(t)
<1>0. N \in Nat /\ IsFiniteSet(M) /\ Cardinality(M) = N
  BY SoundMembers
<1>1. PICK after : /\ after = [n \in 0 .. N |->
                         IF n = 0 THEN ForwardStart(t) ELSE ForwardTurn(t, after[n - 1])]
                   /\ f = after[N]
  BY <1>0, ForwardPassUnfolds
<1> DEFINE Good(k) == Forward(t, after[k]) /\ (Len(after[k].order) = k \/ after[k].queue = <<>>)
           G == {k \in Nat : k <= N => Good(k)}
<1>2. 0 \in G
  <2>1. after[0] = ForwardStart(t)
    BY <1>0, <1>1
  <2>2. Len(after[0].order) = 0
    BY <2>1 DEF ForwardStart
  <2>3. Forward(t, after[0])
    BY <2>1, ForwardBegins
  <2> QED BY <2>2, <2>3
<1>3. ASSUME NEW k \in Nat, k \in G PROVE k + 1 \in G
  <2> SUFFICES ASSUME k + 1 <= N PROVE Good(k + 1)
    OBVIOUS
  <2>1. Good(k) /\ after[k + 1] = ForwardTurn(t, after[k])
    <3>1. k + 1 \in 0 .. N /\ k + 1 # 0 /\ (k + 1) - 1 = k /\ k <= N
      BY <1>0
    <3>2. after[k + 1] = ForwardTurn(t, after[k])
      BY <1>1, <3>1
    <3> QED BY <1>3, <3>1, <3>2
  <2>2. CASE after[k].queue = <<>>
    BY <2>1, <2>2 DEF ForwardTurn
  <2>3. CASE after[k].queue # <<>>
    <3>1. after[k + 1] = Pop(t, after[k]) /\ Len(after[k].order) = k
      BY <2>1, <2>3 DEF ForwardTurn
    <3>2. Forward(t, Pop(t, after[k])) /\ Len(Pop(t, after[k]).order) = Len(after[k].order) + 1
      BY <2>1, <2>3, PopKeeps
    <3> QED BY <3>1, <3>2
  <2> QED BY <2>2, <2>3
<1>4. Good(N)
  <2> HIDE DEF Good
  <2>1. G = {k \in Nat : k <= N => Good(k)}
    OBVIOUS
  <2> HIDE DEF G
  <2>2. N \in G
    BY <1>0, <1>2, <1>3, Upward
  <2> QED BY <1>0, <2>1, <2>2
<1>5. Forward(t, f) /\ (Len(f.order) = N \/ f.queue = <<>>)
  BY <1>1, <1>4
<1> DEFINE O == ToSet(f.order)
<1>6. /\ f.order \in Seq(M) /\ IsInjective(f.order) /\ Topological(t, f.order)
      /\ \A x \in M : x \in O \cup ToSet(f.queue) <=> t.deps[x] \subseteq O
      /\ f.es = [x \in M |-> Latest(Known(t, O, x))]
      /\ f.ef \in [M -> Nat]
      /\ \A x \in O \cup ToSet(f.queue) : f.ef[x] = f.es[x] + t.len[x]
  BY <1>5 DEF Forward
<1>7. O \subseteq M /\ IsFiniteSet(O) /\ Cardinality(O) = Len(f.order)
  BY <1>6, DistinctCount, FiniteSeqSet
<1>8. O = M
  <2>1. CASE Len(f.order) = N
    BY <1>0, <1>7, <2>1, FS_Subset
  <2>2. CASE f.queue = <<>>
    <3> HIDE DEF f
    <3>1. ToSet(f.queue) = {}
      BY <2>2 DEF ToSet
    <3>2. ASSUME NEW x \in M, \A y \in M : rank[y] < rank[x] => y \in O
          PROVE  x \in O
      <4>1. \A p \in t.deps[x] : p \in M /\ rank[p] < rank[x]
        BY DEF Sound
      <4> HIDE DEF O
      <4>2. t.deps[x] \subseteq O
        BY <3>2, <4>1
      <4> QED BY <1>6, <3>1, <4>2
    <3>3. rank \in [M -> Nat]
      BY DEF Sound
    <3>4. M \subseteq O
      <4> HIDE DEF M, O
      <4> QED BY <3>2, <3>3, Upwards
    <3> QED BY <1>7, <3>4
  <2> QED BY <1>5, <2>1, <2>2
<1>9. Len(f.order) = N
  BY <1>0, <1>7, <1>8
<1>10. \A x \in M : f.es[x] = LongestBefore(t)[x]
  <2> SUFFICES ASSUME NEW x \in M PROVE f.es[x] = LongestBefore(t)[x]
    OBVIOUS
  <2>1. t.deps[x] \subseteq O
    BY <1>8 DEF Sound
  <2>2. Latest(Known(t, O, x)) = LongestBefore(t)[x]
    BY <2>1, KnownIs
  <2> QED BY <1>6, <2>2
<1>11. \A x \in M : f.ef[x] = LongestBefore(t)[x] + t.len[x]
  BY <1>6, <1>8, <1>10
<1>12. f.es = [x \in M |-> LongestBefore(t)[x]]
  <2> HIDE DEF f, M, O
  <2> QED BY <1>6, <1>10
<1> DEFINE g == [x \in M |-> LongestBefore(t)[x] + t.len[x]]
<1>13. f.ef = g
  <2>1. f.ef = [x \in M |-> f.ef[x]]
    BY <1>6
  <2> HIDE DEF f, M
  <2> QED BY <1>11, <2>1
<1> QED BY <1>6, <1>8, <1>9, <1>12, <1>13

-----------------------------------------------------------------------------
(* The backward pass *)

SweepSteps(t, ls, order, swept) ==
    swept = [n \in 0 .. Len(order) |->
               IF n = 0 THEN ls ELSE Relax(t, swept[n - 1], order[Len(order) + 1 - n])]

(* A sweep takes one step after the other. *)
LEMMA SweepUnfolds ==
  ASSUME NEW t, NEW ls, NEW order, Len(order) \in Nat
  PROVE  \E swept : SweepSteps(t, ls, order, swept) /\ Sweep(t, ls, order) = swept[Len(order)]
<1> DEFINE Step(n, s) == Relax(t, s, order[Len(order) + 1 - n])
           Is(f, k) == f = [n \in 0 .. k |-> IF n = 0 THEN ls ELSE Step(n, f[n - 1])]
           G == {k \in Nat : \E f : Is(f, k)}
<1>1. 0 \in G
  <2>1. Is([n \in 0 .. 0 |-> ls], 0)
    <3> HIDE DEF Step
    <3> QED OBVIOUS
  <2> QED BY <2>1
<1>2. ASSUME NEW k \in Nat, k \in G PROVE k + 1 \in G
  <2> HIDE DEF Step
  <2>1. PICK f : Is(f, k)
    BY <1>2
  <2> DEFINE h == [n \in 0 .. k + 1 |-> IF n = k + 1 THEN Step(n, f[k]) ELSE f[n]]
  <2>2. Is(h, k + 1)
    BY <2>1
  <2> HIDE DEF h, Is
  <2> QED BY <2>2
<1>3. PICK f : Is(f, Len(order))
  <2> HIDE DEF Is
  <2>1. Len(order) \in G
    <3> HIDE DEF G
    <3> QED BY <1>1, <1>2, Upward
  <2> QED BY <2>1
<1> DEFINE swept[n \in 0 .. Len(order)] ==
             IF n = 0 THEN ls ELSE Relax(t, swept[n - 1], order[Len(order) + 1 - n])
<1>4. swept = [n \in 0 .. Len(order) |->
                 IF n = 0 THEN ls ELSE Relax(t, swept[n - 1], order[Len(order) + 1 - n])]
  BY <1>3, Zenon
<1>5. Sweep(t, ls, order) = swept[Len(order)]
  BY Zenon DEF Sweep
<1> HIDE DEF swept
<1> QED BY <1>4, <1>5 DEF SweepSteps

(* A turn of the backward pass: a sweep, unless the last one changed nothing. *)
BackwardTurn(t, order, s) ==
    IF ~ s[2] THEN s
    ELSE <<Sweep(t, s[1], order), Sweep(t, s[1], order) # s[1]>>

BackwardSteps(t, order, length, after) ==
    after = [n \in 0 .. 2 * Len(t.ids) |->
               IF n = 0 THEN <<InitialStarts(t, length), TRUE>>
               ELSE BackwardTurn(t, order, after[n - 1])]

(* The backward pass takes one step after the other. *)
LEMMA BackwardPassUnfolds ==
  ASSUME NEW t, NEW order, NEW length, Len(t.ids) \in Nat
  PROVE  \E after :
            /\ BackwardSteps(t, order, length, after)
            /\ BackwardPass(t, order, length) = after[2 * Len(t.ids)][1]
<1> DEFINE start == <<InitialStarts(t, length), TRUE>>
           Is(f, k) == f = [n \in 0 .. k |-> IF n = 0 THEN start ELSE BackwardTurn(t, order, f[n - 1])]
           G == {k \in Nat : \E f : Is(f, k)}
<1>1. 0 \in G
  <2>1. Is([n \in 0 .. 0 |-> start], 0)
    <3> HIDE DEF start
    <3> QED OBVIOUS
  <2> QED BY <2>1
<1>2. ASSUME NEW k \in Nat, k \in G PROVE k + 1 \in G
  <2> HIDE DEF start
  <2>1. PICK f : Is(f, k)
    BY <1>2
  <2> DEFINE h == [n \in 0 .. k + 1 |-> IF n = k + 1 THEN BackwardTurn(t, order, f[k]) ELSE f[n]]
  <2>2. Is(h, k + 1)
    BY <2>1
  <2> HIDE DEF h, Is
  <2> QED BY <2>2
<1>3. PICK f : Is(f, 2 * Len(t.ids))
  <2> HIDE DEF Is
  <2>1. 2 * Len(t.ids) \in G
    <3> HIDE DEF G
    <3> QED BY <1>1, <1>2, Upward
  <2> QED BY <2>1
<1> DEFINE after[n \in 0 .. 2 * Len(t.ids)] ==
             IF n = 0 THEN <<InitialStarts(t, length), TRUE>>
             ELSE IF ~ after[n - 1][2] THEN after[n - 1]
             ELSE <<Sweep(t, after[n - 1][1], order),
                    Sweep(t, after[n - 1][1], order) # after[n - 1][1]>>
<1>4. after = [n \in 0 .. 2 * Len(t.ids) |->
                 IF n = 0 THEN <<InitialStarts(t, length), TRUE>>
                 ELSE BackwardTurn(t, order, after[n - 1])]
  BY <1>3, Zenon DEF BackwardTurn
<1>5. BackwardPass(t, order, length) = after[2 * Len(t.ids)][1]
  BY Zenon DEF BackwardPass
<1> HIDE DEF after
<1> QED BY <1>4, <1>5 DEF BackwardSteps

-----------------------------------------------------------------------------
(* The latest starts that leave room for the longest chain behind each task. *)
Exact(t, length) == [x \in Members(t) |-> length - LongestFrom(t)[x]]

(* Once the followers of x have their latest starts, so has x. *)
LEMMA RelaxExact ==
  ASSUME NEW t, NEW rank, Sound(t, rank), NEW length \in Nat, length < Unrelaxed, Unrelaxed \in Nat,
         NEW s \in [Members(t) -> Int], NEW x \in Members(t),
         \A y \in Followers(t, x) : s[y] = Exact(t, length)[y],
         \/ s[x] = Exact(t, length)[x]
         \/ s[x] = Unrelaxed /\ Followers(t, x) # {}
  PROVE  Relax(t, s, x) = [s EXCEPT ![x] = Exact(t, length)[x]]
<1> DEFINE M == Members(t)
           F == LongestFrom(t)
           bound == LatestStarts(t, s, x)
<1>1. F \in [M -> Nat] /\ \A y \in M : Exact(t, length)[y] = length - F[y]
  BY FromIs DEF Exact
<1>2. \A y \in Followers(t, x) : y \in M /\ s[y] = length - F[y] /\ s[y] < Unrelaxed
                                 /\ t.lag[y][x] \in Nat /\ F[y] \in Nat
  <2> SUFFICES ASSUME NEW y \in Followers(t, x)
               PROVE  y \in M /\ s[y] = length - F[y] /\ s[y] < Unrelaxed
                      /\ t.lag[y][x] \in Nat /\ F[y] \in Nat
    OBVIOUS
  <2>1. y \in M /\ t.lag[y][x] \in Nat
    BY FollowersAre
  <2>2. F[y] \in Nat /\ s[y] = length - F[y]
    BY <1>1, <2>1
  <2> HIDE DEF F
  <2> QED BY <2>1, <2>2
<1>3. bound = {length - (t.lag[y][x] + F[y]) : y \in Followers(t, x)}
  <2>1. {z \in Followers(t, x) : s[z] < Unrelaxed} = Followers(t, x)
    BY <1>2
  <2>2. \A y \in Followers(t, x) : s[y] - t.lag[y][x] = length - (t.lag[y][x] + F[y])
    <3> HIDE DEF F, M
    <3> QED BY <1>2
  <2> HIDE DEF F
  <2> QED BY <2>1, <2>2 DEF LatestStarts
<1>4. t.len[x] \in Nat /\ F[x] \in Nat
  BY <1>1 DEF Sound
<1>5. CASE Followers(t, x) = {}
  <2>1. bound = {} /\ s[x] = Exact(t, length)[x]
    BY <1>3, <1>5
  <2>2. Relax(t, s, x) = s
    BY <2>1 DEF Relax
  <2> QED BY <2>1, <2>2
<1>6. CASE Followers(t, x) # {}
  <2>1. PICK y \in Followers(t, x) : F[x] = t.len[x] + t.lag[y][x] + F[y]
    BY <1>6, FromTight
  <2>2. \A z \in Followers(t, x) : t.len[x] + t.lag[z][x] + F[z] <= F[x]
    BY FromEdge
  <2> HIDE DEF F, bound, M
  <2> DEFINE m == length - (t.lag[y][x] + F[y])
  <2>3. m \in bound /\ bound \subseteq Int /\ m = length - F[x] + t.len[x]
    BY <1>2, <1>3, <1>4, <2>1
  <2>4. \A k \in bound : m <= k
    <3> SUFFICES ASSUME NEW z \in Followers(t, x)
                 PROVE  m <= length - (t.lag[z][x] + F[z])
      BY <1>3
    <3>1. t.lag[z][x] \in Nat /\ F[z] \in Nat /\ t.lag[y][x] \in Nat /\ F[y] \in Nat
      BY <1>2
    <3>2. t.len[x] + t.lag[z][x] + F[z] <= t.len[x] + t.lag[y][x] + F[y]
      BY <2>1, <2>2
    <3> QED BY <1>4, <3>1, <3>2
  <2>5. Min(bound) = m
    <3> HIDE DEF m
    <3> QED BY <2>3, <2>4, MinUnique
  <2>6. Exact(t, length)[x] = length - F[x]
    BY <1>1 DEF M
  <2>7. bound # {} /\ Min(bound) - t.len[x] = Exact(t, length)[x]
    <3>1. m - t.len[x] = length - F[x]
      BY <1>4, <2>3
    <3> QED BY <2>3, <2>5, <2>6, <3>1
  <2>8. CASE s[x] = Exact(t, length)[x]
    <3>1. Min(bound) >= s[x] + t.len[x]
      BY <1>4, <2>3, <2>5, <2>6, <2>8
    <3>2. Relax(t, s, x) = s
      BY <3>1 DEF Relax, bound
    <3> QED BY <2>8, <3>2
  <2>9. CASE s[x] = Unrelaxed
    <3>1. ~ (Min(bound) >= s[x] + t.len[x])
      BY <1>4, <1>2, <2>5, <2>9
    <3>2. Relax(t, s, x) = [s EXCEPT ![x] = Min(bound) - t.len[x]]
      BY <2>7, <3>1 DEF Relax, bound
    <3> QED BY <2>7, <3>2
  <2> QED BY <2>8, <2>9
<1> QED BY <1>5, <1>6

(* The latest starts from which a sweep ends with the exact ones. *)
Sweepable(t, length, ls) ==
    /\ ls \in [Members(t) -> Int]
    /\ \A x \in Members(t) : \/ ls[x] = Exact(t, length)[x]
                             \/ ls[x] = Unrelaxed /\ Followers(t, x) # {}

(* One sweep, from the last task of a topological order to the first, is enough. *)
LEMMA SweepIsExact ==
  ASSUME NEW t, NEW rank, Sound(t, rank), NEW length \in Nat, length < Unrelaxed, Unrelaxed \in Nat,
         NEW order \in Seq(Members(t)), IsInjective(order), ToSet(order) = Members(t),
         Topological(t, order), NEW ls, Sweepable(t, length, ls)
  PROVE  Sweep(t, ls, order) = Exact(t, length)
<1> DEFINE M == Members(t)
           N == Len(order)
           E == Exact(t, length)
           Done(k) == {order[i] : i \in N + 1 - k .. N}
           After(k) == [x \in M |-> IF x \in Done(k) THEN E[x] ELSE ls[x]]
<1>0. N \in Nat /\ DOMAIN order = 1 .. N /\ \A i \in 1 .. N : order[i] \in M
  BY LenProperties
<1>1. PICK swept : SweepSteps(t, ls, order, swept) /\ Sweep(t, ls, order) = swept[N]
  BY <1>0, SweepUnfolds
<1>1a. /\ swept[0] = ls
       /\ \A n \in 1 .. N : swept[n] = Relax(t, swept[n - 1], order[N + 1 - n])
  <2> HIDE DEF N
  <2>1. swept = [n \in 0 .. N |-> IF n = 0 THEN ls ELSE Relax(t, swept[n - 1], order[N + 1 - n])]
    BY <1>1 DEF SweepSteps, N
  <2> QED BY <1>0, <2>1
<1>2. E \in [M -> Int] /\ ls \in [M -> Int]
  BY FromIs DEF Exact, Sweepable
<1> DEFINE G == {k \in Nat : k <= N => swept[k] = After(k)}
<1>3. 0 \in G
  <2>1. swept[0] = ls
    BY <1>1a
  <2>2. Done(0) = {}
    BY <1>0
  <2>3. After(0) = ls
    <3> HIDE DEF E, M
    <3> QED BY <1>2, <2>2
  <2> QED BY <2>1, <2>3
<1>4. ASSUME NEW k \in Nat, k \in G PROVE k + 1 \in G
  <2> SUFFICES ASSUME k + 1 <= N PROVE swept[k + 1] = After(k + 1)
    OBVIOUS
  <2> DEFINE i == N - k
             x == order[i]
  <2>1. i \in 1 .. N /\ x \in M /\ swept[k] = After(k) /\ swept[k + 1] = Relax(t, swept[k], x)
    <3>1. k + 1 \in 1 .. N /\ (k + 1) - 1 = k /\ k <= N /\ N + 1 - (k + 1) = N - k
      <4> HIDE DEF N
      <4> QED BY <1>0
    <3>2. swept[k + 1] = Relax(t, swept[k], order[N - k])
      BY <1>1a, <3>1
    <3>3. N - k \in 1 .. N
      BY <1>0, <3>1
    <3> QED BY <1>0, <1>4, <3>1, <3>2, <3>3
  <2>2. Done(k + 1) = Done(k) \cup {x}
    <3> HIDE DEF N
    <3>1. \A j \in N + 1 - (k + 1) .. N : j = N - k \/ j \in N + 1 - k .. N
      BY <1>0
    <3>2. \A j \in N + 1 - k .. N : j \in N + 1 - (k + 1) .. N
      BY <1>0
    <3>3. N - k \in N + 1 - (k + 1) .. N
      BY <1>0
    <3> QED BY <3>1, <3>2, <3>3
  <2>3. x \notin Done(k)
    <3>1. \A j \in N + 1 - k .. N : j \in 1 .. N /\ j # i
      <4> HIDE DEF N
      <4> QED BY <1>0
    <3>2. \A j \in N + 1 - k .. N : order[j] # order[i]
      BY <1>0, <2>1, <3>1 DEF IsInjective
    <3> QED BY <3>2
  <2>4. ASSUME NEW y \in Followers(t, x) PROVE y \in Done(k) /\ y \in M
    <3>1. y \in M /\ x \in t.deps[y]
      BY DEF Followers
    <3>2. PICK j \in 1 .. N : order[j] = y
      BY <1>0, <3>1 DEF ToSet
    <3>3. PICK h \in 1 .. j - 1 : order[h] = x
      BY <1>0, <3>1, <3>2 DEF Topological
    <3>4. h \in 1 .. N
      BY <1>0, <3>2, <3>3
    <3>5. h = i
      BY <1>0, <2>1, <3>3, <3>4 DEF IsInjective
    <3>6. j \in N + 1 - k .. N
      BY <1>0, <3>2, <3>3, <3>5
    <3> QED BY <3>1, <3>2, <3>6
  <2> DEFINE s == After(k)
  <2>5. s \in [M -> Int]
    <3> HIDE DEF E, M, Done
    <3> QED BY <1>2
  <2>6. \A y \in Followers(t, x) : s[y] = E[y]
    <3> HIDE DEF E, x, Done, M
    <3> QED BY <2>4
  <2>7. s[x] = E[x] \/ (s[x] = Unrelaxed /\ Followers(t, x) # {})
    <3>1. s[x] = ls[x]
      <4> HIDE DEF E, x, Done, M
      <4> QED BY <2>1, <2>3
    <3> HIDE DEF s, x
    <3> QED BY <2>1, <3>1 DEF Sweepable
  <2>8. Relax(t, s, x) = [s EXCEPT ![x] = E[x]]
    <3> HIDE DEF s, x, E
    <3>1. \A y \in Followers(t, x) : s[y] = Exact(t, length)[y]
      BY <2>6 DEF E
    <3>2. s[x] = Exact(t, length)[x] \/ (s[x] = Unrelaxed /\ Followers(t, x) # {})
      BY <2>7 DEF E
    <3>3. s \in [Members(t) -> Int] /\ x \in Members(t)
      BY <2>1, <2>5
    <3> QED BY <3>1, <3>2, <3>3, RelaxExact DEF E
  <2>9. [s EXCEPT ![x] = E[x]] = After(k + 1)
    <3> HIDE DEF E, x, Done, M
    <3> QED BY <2>1, <2>2
  <2> HIDE DEF s, x, E
  <2> QED BY <2>1, <2>8, <2>9 DEF s
<1>5. swept[N] = After(N)
  <2> HIDE DEF After
  <2>1. G = {k \in Nat : k <= N => swept[k] = After(k)}
    OBVIOUS
  <2> HIDE DEF G
  <2>2. N \in G
    BY <1>0, <1>3, <1>4, Upward
  <2> QED BY <1>0, <2>1, <2>2
<1>6. \A x \in M : x \in Done(N)
  <2>1. N + 1 - N = 1
    BY <1>0
  <2> QED BY <1>0, <2>1 DEF ToSet
<1>7. After(N) = E
  <2> HIDE DEF Done, M, E
  <2> QED BY <1>2, <1>6
<1> QED BY <1>1, <1>5, <1>7

(* The backward pass finds them. *)
THEOREM BackwardIs ==
  ASSUME NEW t, NEW rank, Sound(t, rank), t.ids # <<>>,
         NEW length \in Nat, length < Unrelaxed, Unrelaxed \in Nat
  PROVE  BackwardPass(t, ForwardPass(t).order, length) = Exact(t, length)
<1> DEFINE order == ForwardPass(t).order
           E == Exact(t, length)
           I == InitialStarts(t, length)
           N == 2 * Len(t.ids)
<1>0. Len(t.ids) \in Nat \ {0} /\ N \in Nat /\ N >= 1
  <2>1. Len(t.ids) \in Nat
    BY SoundMembers
  <2>2. Len(t.ids) # 0
    <3>1. t.ids \in Seq(Int)
      BY DEF Sound
    <3> QED BY <3>1, EmptySeq
  <2> QED BY <2>1, <2>2
<1>1. order \in Seq(Members(t)) /\ IsInjective(order) /\ ToSet(order) = Members(t)
      /\ Topological(t, order)
  BY ForwardIs
<1>2. PICK after : BackwardSteps(t, order, length, after)
                   /\ BackwardPass(t, order, length) = after[N][1]
  <2> HIDE DEF order
  <2> QED BY <1>0, BackwardPassUnfolds
<1>2a. /\ after[0] = <<I, TRUE>>
       /\ \A n \in 1 .. N : after[n] = BackwardTurn(t, order, after[n - 1])
  <2> DEFINE start == <<I, TRUE>>
  <2>1. after = [n \in 0 .. N |-> IF n = 0 THEN start ELSE BackwardTurn(t, order, after[n - 1])]
    BY <1>2, Zenon DEF BackwardSteps
  <2> HIDE DEF start, N
  <2>2. after[0] = start /\ \A n \in 1 .. N : after[n] = BackwardTurn(t, order, after[n - 1])
    BY <1>0, <2>1
  <2> QED BY <2>2 DEF start
<1> HIDE DEF order
<1>3. Sweep(t, I, order) = E
  <2>1. Sweepable(t, length, I)
    <3>1. \A x \in Members(t) : /\ LongestFrom(t)[x] \in Nat /\ t.len[x] \in Nat
                                /\ Followers(t, x) = {} => LongestFrom(t)[x] = t.len[x]
      BY FromIs, FromTight DEF Sound
    <3> QED BY <3>1 DEF Sweepable, InitialStarts, Exact
  <2> HIDE DEF I
  <2> QED BY <1>1, <2>1, SweepIsExact
<1>4. Sweep(t, E, order) = E
  <2>1. Sweepable(t, length, E)
    BY FromIs DEF Sweepable, Exact
  <2> HIDE DEF E
  <2>2. Sweep(t, E, order) = Exact(t, length)
    BY <1>1, <2>1, SweepIsExact
  <2> QED BY <2>2 DEF E
<1> HIDE DEF E, I
<1> DEFINE G == {k \in Nat : k + 1 <= N => after[k + 1][1] = E}
<1>5. 0 \in G
  <2>1. after[0] = <<I, TRUE>> /\ after[1] = BackwardTurn(t, order, after[0])
    <3> HIDE DEF N
    <3>1. 1 \in 1 .. N /\ 1 - 1 = 0
      BY <1>0
    <3> QED BY <1>2a, <3>1
  <2>2. after[1] = <<E, E # I>>
    BY <1>3, <2>1 DEF BackwardTurn
  <2> QED BY <2>2
<1>6. ASSUME NEW k \in Nat, k \in G PROVE k + 1 \in G
  <2> SUFFICES ASSUME (k + 1) + 1 <= N PROVE after[(k + 1) + 1][1] = E
    OBVIOUS
  <2>1. after[(k + 1) + 1] = BackwardTurn(t, order, after[k + 1])
    <3> HIDE DEF N
    <3>1. (k + 1) + 1 \in 1 .. N /\ ((k + 1) + 1) - 1 = k + 1
      BY <1>0
    <3> QED BY <1>2a, <3>1
  <2>2. after[k + 1][1] = E
    BY <1>0, <1>6
  <2> QED BY <1>4, <2>1, <2>2 DEF BackwardTurn
<1>7. after[N][1] = E
  <2>1. N - 1 \in Nat /\ (N - 1) + 1 = N
    BY <1>0
  <2>2. Nat \subseteq G
    <3> HIDE DEF G
    <3> QED BY <1>5, <1>6, Upward
  <2> HIDE DEF N
  <2>3. N - 1 \in G
    BY <2>1, <2>2
  <2> QED BY <2>1, <2>3
<1> QED BY <1>2, <1>7 DEF E, order

-----------------------------------------------------------------------------
(* The schedule is exact *)

(* Multiplication, for the steps that bound hours. *)
LEMMA Multiples ==
  ASSUME NEW W \in Nat, NEW a \in Nat, NEW b \in Nat, a <= b
  PROVE  a * W \in Nat /\ a * W <= b * W /\ (a + 1) * W = a * W + W
  OBVIOUS

(* A task and the lag of an edge from it take at most W hours. *)
EachWithin(t, W) == \A x \in Members(t) : \A p \in t.deps[x] : t.len[p] + t.lag[x][p] <= W

(* No chain is longer than one task and one lag for each task before it. *)
LEMMA HoursBounded ==
  ASSUME NEW t, NEW rank, Sound(t, rank), NEW W \in Nat, EachWithin(t, W), NEW x \in Members(t)
  PROVE  LongestBefore(t)[x] <= (Len(t.ids) - 1) * W /\ Len(t.ids) - 1 \in Nat
<1> DEFINE M == Members(t)
           order == ForwardPass(t).order
           N == Len(t.ids)
           B == LongestBefore(t)
           G == {k \in Nat : k + 1 <= N => B[order[k + 1]] <= k * W}
           D == 0 .. N - 1
           index == [k \in D |-> k]
           W0 == {k \in D : B[order[k + 1]] <= k * W}
<1>1. /\ order \in Seq(M) /\ ToSet(order) = M /\ Len(order) = N /\ Topological(t, order)
      /\ N \in Nat /\ B \in [M -> Nat]
  BY ForwardIs, BeforeIs, SoundMembers
<1>2. DOMAIN order = 1 .. N /\ \A i \in 1 .. N : order[i] \in M
  BY <1>1, LenProperties
<1> HIDE DEF order, N, B, M
<1>3. ASSUME NEW k \in D, \A j \in D : index[j] < index[k] => j \in W0
      PROVE  k \in W0
  <2>1. k + 1 \in 1 .. N /\ order[k + 1] \in M /\ k \in Nat
    BY <1>1, <1>2
  <2> DEFINE y == order[k + 1]
  <2>2. CASE t.deps[y] = {}
    <3>1. B[y] = 0
      BY <2>1, <2>2, BeforeTight DEF M, B
    <3>2. 0 <= k * W
      BY <2>1, Multiples
    <3> QED BY <3>1, <3>2
  <2>3. CASE t.deps[y] # {}
    <3>1. PICK p \in t.deps[y] : B[y] = B[p] + t.len[p] + t.lag[y][p]
      BY <2>1, <2>3, BeforeTight DEF M, B
    <3>2. PICK i \in 1 .. (k + 1) - 1 : order[i] = p
      BY <1>1, <1>2, <2>1 DEF Topological
    <3> DEFINE j == i - 1
    <3>3. j \in D /\ j + 1 = i /\ j < k /\ j \in Nat /\ j + 1 <= k
      <4>1. i \in 1 .. (k + 1) - 1 /\ k \in 0 .. N - 1 /\ N \in Nat
        BY <1>1
      <4> QED BY <4>1
    <3>4. index[j] < index[k]
      BY <3>3
    <3>5. B[p] <= j * W
      <4>1. j \in W0
        BY <1>3, <3>3, <3>4
      <4> QED BY <3>2, <3>3, <4>1
    <3>6. t.len[p] + t.lag[y][p] <= W /\ t.len[p] \in Nat /\ t.lag[y][p] \in Nat /\ B[p] \in Nat
      <4>1. y \in M /\ p \in M
        BY <1>1, <2>1, <3>1 DEF Sound, M
      <4> QED BY <1>1, <3>1, <4>1 DEF EachWithin, Sound, M
    <3>7. j * W \in Nat /\ (j + 1) * W = j * W + W /\ (j + 1) * W <= k * W /\ k * W \in Nat
      <4> HIDE DEF j
      <4>1. j + 1 \in Nat /\ k \in Nat
        BY <2>1, <3>3
      <4> QED BY <3>3, <4>1, Multiples
    <3> DEFINE a == j * W
               b == (j + 1) * W
               c == k * W
    <3>8. B[p] <= a /\ a \in Nat /\ b = a + W /\ b <= c /\ c \in Nat
      BY <3>5, <3>7
    <3> HIDE DEF a, b, c, y
    <3>9. B[y] <= c
      BY <3>1, <3>6, <3>8
    <3> QED BY <3>9 DEF c, y
  <2> QED BY <2>2, <2>3
<1>4. index \in [D -> Nat]
  BY <1>1
<1>5. D \subseteq W0
  <2> HIDE DEF D, index, W0
  <2> QED BY <1>3, <1>4, Upwards
<1>6. PICK i \in 1 .. N : order[i] = x
  BY <1>1, <1>2 DEF ToSet, M
<1>7. i - 1 \in D /\ (i - 1) + 1 = i /\ i - 1 \in Nat /\ N - 1 \in Nat /\ i - 1 <= N - 1
  BY <1>1
<1>8. B[x] <= (i - 1) * W
  <2>1. i - 1 \in W0
    BY <1>5, <1>7
  <2> QED BY <1>6, <1>7, <2>1
<1> DEFINE a == (i - 1) * W
           c == (N - 1) * W
<1>9. a \in Nat /\ a <= c /\ c \in Nat
  <2> DEFINE m == i - 1
             n == N - 1
  <2> HIDE DEF m, n
  <2>1. m \in Nat /\ n \in Nat /\ m <= n
    BY <1>7 DEF m, n
  <2>2. m * W \in Nat /\ m * W <= n * W /\ n * W \in Nat
    BY <2>1, Multiples
  <2> QED BY <2>2 DEF m, n
<1>10. B[x] \in Nat /\ B[x] <= a
  BY <1>1, <1>8 DEF M
<1> HIDE DEF a, c
<1>11. B[x] <= c
  BY <1>9, <1>10
<1> QED BY <1>7, <1>11 DEF c, N, B

-----------------------------------------------------------------------------
(* The project takes the hours before its last task. *)
LEMMA LengthIs ==
  ASSUME NEW t, NEW rank, Sound(t, rank), Bounded(t)
  PROVE  /\ ProjectLength(t, ForwardPass(t).ef) = LongestBefore(t)[FINISH]
         /\ LongestBefore(t)[FINISH] \in Nat
<1> DEFINE B == LongestBefore(t)
           ef == ForwardPass(t).ef
           S == {ef[x] : x \in Members(t)}
<1>1. \A x \in Members(t) : ef[x] = B[x] + t.len[x] /\ B[x] \in Nat /\ t.len[x] \in Nat
                            /\ ef[x] \in Nat
  <2>1. ef = [x \in Members(t) |-> B[x] + t.len[x]]
    BY ForwardIs
  <2>2. \A x \in Members(t) : B[x] \in Nat /\ t.len[x] \in Nat
    BY BeforeIs DEF Sound
  <2> HIDE DEF ef, B
  <2> QED BY <2>1, <2>2
<1>2. FINISH \in Members(t) /\ t.len[FINISH] = 0
  BY DEF Bounded
<1>3. ASSUME NEW x \in Members(t) PROVE ef[x] <= B[FINISH]
  <2>1. B[x] + LongestFrom(t)[x] <= B[FINISH]
    BY ChainsFit
  <2>2. LongestFrom(t)[x] >= t.len[x] /\ LongestFrom(t)[x] \in Nat
    BY FromTight, FromIs
  <2> HIDE DEF B, ef
  <2> QED BY <1>1, <1>2, <2>1, <2>2
<1> HIDE DEF B, ef
<1>4. ef[FINISH] = B[FINISH] /\ B[FINISH] \in Nat
  BY <1>1, <1>2
<1>5. S \subseteq Nat /\ B[FINISH] \in S /\ \A k \in S : k <= B[FINISH]
  BY <1>1, <1>2, <1>3, <1>4
<1> HIDE DEF S
<1>6. Latest(S) = B[FINISH]
  BY <1>4, <1>5, LatestUnique
<1> QED BY <1>4, <1>6 DEF ProjectLength, S, ef, B

(* A network the kernel is given: one task begins it, one ends it, and its hours are
   below the value the backward pass begins with. *)
InRange(t) == LongestBefore(t)[FINISH] < Unrelaxed

(* The kernel computes the exact schedule. *)
THEOREM CalculateIs ==
  ASSUME NEW t, NEW rank, Sound(t, rank), Bounded(t), InRange(t)
  PROVE  /\ Calculate(t).length = LongestBefore(t)[FINISH]
         /\ Calculate(t).unscheduled = {}
         /\ \A x \in Members(t) :
              /\ Calculate(t).es[x] = LongestBefore(t)[x]
              /\ Calculate(t).ef[x] = LongestBefore(t)[x] + t.len[x]
              /\ Calculate(t).ls[x] = LongestBefore(t)[FINISH] - LongestFrom(t)[x]
              /\ Calculate(t).float[x]
                   = (LongestBefore(t)[FINISH] - LongestFrom(t)[x]) - LongestBefore(t)[x]
         /\ Calculate(t).critical
              = {x \in Members(t) :
                   LongestBefore(t)[x] + LongestFrom(t)[x] = LongestBefore(t)[FINISH]}
         /\ Calculate(t).es = [x \in Members(t) |-> LongestBefore(t)[x]]
         /\ Calculate(t).ef = [x \in Members(t) |-> LongestBefore(t)[x] + t.len[x]]
<1> DEFINE B == LongestBefore(t)
           F == LongestFrom(t)
           M == Members(t)
           fwd == ForwardPass(t)
           L == B[FINISH]
           c == Calculate(t)
           ls == BackwardPass(t, fwd.order, L)
<1>1. ProjectLength(t, fwd.ef) = L /\ L \in Nat
  BY LengthIs
<1>2. fwd.es = [x \in M |-> B[x]] /\ fwd.ef = [x \in M |-> B[x] + t.len[x]] /\ ToSet(fwd.order) = M
  BY ForwardIs
<1>3. t.ids # <<>> /\ Unrelaxed \in Nat
  <2>1. FINISH \in Members(t)
    BY DEF Bounded
  <2>2. t.ids # <<>>
    BY <2>1 DEF Members, ToSet
  <2>3. Unrelaxed \in Nat
    BY NetworkAssumption DEF Unrelaxed
  <2> QED BY <2>2, <2>3
<1>4. ls = Exact(t, L)
  BY <1>1, <1>3, BackwardIs DEF InRange
<1>5. /\ c.es = fwd.es /\ c.ef = fwd.ef /\ c.ls = ls /\ c.length = L
      /\ c.float = [x \in M |-> ls[x] - fwd.es[x]]
      /\ c.critical = {x \in M : ls[x] - fwd.es[x] = 0}
      /\ c.unscheduled = M \ ToSet(fwd.order)
  BY <1>1 DEF Calculate
<1>6. \A x \in M : B[x] \in Nat /\ F[x] \in Nat
  BY BeforeIs, FromIs
<1> HIDE DEF c, ls, fwd
<1>7. \A x \in M : ls[x] = L - F[x] /\ fwd.es[x] = B[x]
  <2>1. \A x \in M : Exact(t, L)[x] = L - F[x]
    BY DEF Exact
  <2>2. \A x \in M : fwd.es[x] = B[x]
    BY <1>2
  <2> QED BY <1>4, <2>1, <2>2
<1> HIDE DEF B, F, L, M
<1>8. \A x \in M : c.float[x] = (L - F[x]) - B[x]
  BY <1>5, <1>7
<1>9. c.critical = {x \in M : B[x] + F[x] = L}
  <2>1. \A x \in M : ls[x] - fwd.es[x] = 0 <=> B[x] + F[x] = L
    <3> SUFFICES ASSUME NEW x \in M PROVE (L - F[x]) - B[x] = 0 <=> B[x] + F[x] = L
      BY <1>7
    <3>1. B[x] \in Nat /\ F[x] \in Nat
      BY <1>6
    <3> QED BY <1>1, <3>1
  <2> QED BY <1>5, <2>1
<1>10. \A x \in M : c.ef[x] = B[x] + t.len[x]
  BY <1>2, <1>5
<1>11. \A x \in M : c.es[x] = B[x] /\ c.ls[x] = L - F[x]
  BY <1>5, <1>7
<1>12. c.length = L /\ c.unscheduled = {}
  BY <1>2, <1>5
<1> QED BY <1>2, <1>5, <1>8, <1>9, <1>10, <1>11, <1>12 DEF c, B, F, L, M

-----------------------------------------------------------------------------
(* Drag *)

(* The network in which x takes no time. *)
Crashed(t, x) == [t EXCEPT !.len[x] = 0]

(* A network with the length of one task set to zero. *)
LEMMA CrashedIs ==
  ASSUME NEW t, NEW rank, Sound(t, rank), Bounded(t), NEW x \in Members(t)
  PROVE  /\ Sound(Crashed(t, x), rank) /\ Bounded(Crashed(t, x))
         /\ Members(Crashed(t, x)) = Members(t)
         /\ Crashed(t, x).deps = t.deps /\ Crashed(t, x).lag = t.lag
         /\ \A y \in Members(t) : Followers(Crashed(t, x), y) = Followers(t, y)
         /\ \A y \in Members(t) : Crashed(t, x).len[y] = IF y = x THEN 0 ELSE t.len[y]
<1> DEFINE u == Crashed(t, x)
<1>1. u.deps = t.deps /\ u.lag = t.lag /\ u.ids = t.ids /\ u.len = [t.len EXCEPT ![x] = 0]
  BY DEF Crashed
<1>2. t.len \in [Members(t) -> Nat]
  BY DEF Sound
<1> HIDE DEF u
<1>3. Members(u) = Members(t)
  BY <1>1 DEF Members
<1>4. \A y \in Members(t) : Followers(u, y) = Followers(t, y)
  BY <1>1, <1>3 DEF Followers
<1>5. u.len \in [Members(t) -> Nat] /\ \A y \in Members(t) : u.len[y] = IF y = x THEN 0 ELSE t.len[y]
  BY <1>1, <1>2
<1>6. Sound(u, rank)
  BY <1>1, <1>3, <1>5 DEF Sound
<1>7. Bounded(u)
  BY <1>1, <1>3, <1>4, <1>5 DEF Bounded
<1> QED BY <1>1, <1>3, <1>4, <1>5, <1>6, <1>7 DEF u

(* What starts before x could finish starts no earlier without the hours of x, nor does
   what is no later in the order of the ranks. *)
LEMMA BeforeCrashed ==
  ASSUME NEW t, NEW rank, Sound(t, rank), Bounded(t), NEW x \in Members(t), NEW z0 \in Members(t),
         \/ LongestBefore(t)[z0] < LongestBefore(t)[x] + t.len[x]
         \/ rank[z0] <= rank[x]
  PROVE  LongestBefore(Crashed(t, x))[z0] = LongestBefore(t)[z0]
<1> DEFINE M == Members(t)
           B == LongestBefore(t)
           u == Crashed(t, x)
           C == LongestBefore(u)
           Early(z) == B[z] < B[x] + t.len[x] \/ rank[z] <= rank[x]
           W == {z \in M : Early(z) => C[z] = B[z]}
<1>1. /\ Sound(u, rank) /\ Members(u) = M /\ u.deps = t.deps /\ u.lag = t.lag
      /\ \A y \in M : u.len[y] = IF y = x THEN 0 ELSE t.len[y]
  BY CrashedIs
<1>2. B \in [M -> Nat] /\ \A z \in M : B[z] = Latest(Through(t, B, z))
  BY BeforeIs
<1>3. \A z \in M : C[z] = Latest(Through(u, C, z))
  <2> HIDE DEF u
  <2> QED BY <1>1, BeforeIs
<1>4. ASSUME NEW z \in M, \A y \in M : rank[y] < rank[z] => y \in W
      PROVE  z \in W
  <2> SUFFICES ASSUME Early(z) PROVE C[z] = B[z]
    OBVIOUS
  <2>1. ASSUME NEW p \in t.deps[z] PROVE C[p] = B[p] /\ u.len[p] = t.len[p]
    <3>1. p \in M /\ rank[p] < rank[z] /\ rank[p] \in Nat /\ rank[z] \in Nat /\ rank[x] \in Nat
          /\ t.len[p] \in Nat /\ t.lag[z][p] \in Nat /\ t.len[x] \in Nat
      BY DEF Sound
    <3>2. B[p] + t.len[p] + t.lag[z][p] <= B[z] /\ B[p] \in Nat /\ B[z] \in Nat /\ B[x] \in Nat
      BY <1>2, <3>1, BeforeEdge
    <3> HIDE DEF B, C, u
    <3>3. p # x
      BY <3>1, <3>2
    <3>4. Early(p)
      BY <3>1, <3>2
    <3>5. C[p] = B[p]
      BY <1>4, <3>1, <3>4
    <3> QED BY <1>1, <3>1, <3>3, <3>5
  <2> HIDE DEF B, C, u
  <2>2. Through(u, C, z) = Through(t, B, z)
    BY <1>1, <2>1 DEF Through
  <2> QED BY <1>2, <1>3, <2>2
<1>5. rank \in [M -> Nat]
  BY DEF Sound
<1>6. M \subseteq W
  <2> HIDE DEF M, W
  <2> QED BY <1>4, <1>5, Upwards
<1> QED BY <1>6

(* What finishes after x starts has as long a chain behind it without the hours of x. *)
LEMMA FromCrashed ==
  ASSUME NEW t, NEW rank, Sound(t, rank), Bounded(t), NEW x \in Members(t), NEW z0 \in Members(t),
         z0 # x, LongestBefore(t)[z0] + t.len[z0] > LongestBefore(t)[x]
  PROVE  LongestFrom(Crashed(t, x))[z0] = LongestFrom(t)[z0]
<1> DEFINE M == Members(t)
           B == LongestBefore(t)
           F == LongestFrom(t)
           u == Crashed(t, x)
           H == LongestFrom(u)
           Late(z) == z # x /\ B[z] + t.len[z] > B[x]
           W == {z \in M : Late(z) => H[z] = F[z]}
<1>0. PICK K \in Nat, down \in [Members(t) -> Nat] :
            /\ \A z \in Members(t) : down[z] <= K
            /\ \A z \in Members(t) : \A y \in Followers(t, z) : down[y] < down[z]
  BY RanksDown
<1>1. /\ Sound(u, rank) /\ Members(u) = M /\ u.lag = t.lag
      /\ \A y \in M : u.len[y] = (IF y = x THEN 0 ELSE t.len[y]) /\ Followers(u, y) = Followers(t, y)
  BY CrashedIs
<1>2. B \in [M -> Nat] /\ \A z \in M : F[z] = t.len[z] + Latest(Beyond(t, F, z))
  BY BeforeIs, FromIs
<1>3. \A z \in M : H[z] = u.len[z] + Latest(Beyond(u, H, z))
  <2> HIDE DEF u
  <2> QED BY <1>1, FromIs
<1>4. ASSUME NEW z \in M, \A y \in M : down[y] < down[z] => y \in W
      PROVE  z \in W
  <2> SUFFICES ASSUME Late(z) PROVE H[z] = F[z]
    OBVIOUS
  <2>1. ASSUME NEW y \in Followers(t, z) PROVE H[y] = F[y]
    <3>1. y \in M /\ z \in t.deps[y] /\ down[y] < down[z]
      BY <1>0 DEF Followers
    <3>2. t.len[z] \in Nat /\ t.lag[y][z] \in Nat /\ t.len[y] \in Nat
      BY <3>1 DEF Sound
    <3>3. B[z] + t.len[z] + t.lag[y][z] <= B[y] /\ B[z] \in Nat /\ B[y] \in Nat /\ B[x] \in Nat
      BY <1>2, <3>1, BeforeEdge
    <3> HIDE DEF B, H, F
    <3>4. Late(y)
      BY <3>2, <3>3
    <3> QED BY <1>4, <3>1, <3>4
  <2> HIDE DEF F, H, u
  <2>2. Beyond(u, H, z) = Beyond(t, F, z)
    BY <1>1, <2>1 DEF Beyond
  <2>3. u.len[z] = t.len[z]
    BY <1>1
  <2> QED BY <1>2, <1>3, <2>2, <2>3
<1>5. down \in [M -> Nat]
  BY <1>0
<1>6. M \subseteq W
  <2> HIDE DEF M, W
  <2> QED BY <1>4, <1>5, Upwards
<1> QED BY <1>6

(* Without the hours of x nothing starts more than those hours earlier. *)
LEMMA CrashedSaves ==
  ASSUME NEW t, NEW rank, Sound(t, rank), Bounded(t), NEW x \in Members(t), NEW z0 \in Members(t)
  PROVE  LongestBefore(t)[z0] <= LongestBefore(Crashed(t, x))[z0] + t.len[x]
<1> DEFINE M == Members(t)
           B == LongestBefore(t)
           u == Crashed(t, x)
           C == LongestBefore(u)
           W == {z \in M : B[z] <= C[z] + t.len[x]}
<1>1. /\ Sound(u, rank) /\ Members(u) = M /\ u.deps = t.deps /\ u.lag = t.lag
      /\ \A y \in M : u.len[y] = IF y = x THEN 0 ELSE t.len[y]
  BY CrashedIs
<1>2. B \in [M -> Nat] /\ t.len[x] \in Nat
  BY BeforeIs DEF Sound
<1>2a. C \in [M -> Nat]
  <2> HIDE DEF u
  <2> QED BY <1>1, BeforeIs
<1>3. C[x] = B[x]
  <2>1. rank[x] <= rank[x]
    BY DEF Sound
  <2> QED BY <2>1, BeforeCrashed
<1>4. ASSUME NEW z \in M, \A y \in M : rank[y] < rank[z] => y \in W
      PROVE  z \in W
  <2>1. CASE t.deps[z] = {}
    <3>1. B[z] = 0
      BY <2>1, BeforeTight
    <3> HIDE DEF B, C
    <3> QED BY <1>2, <1>2a, <3>1
  <2>2. CASE t.deps[z] # {}
    <3>1. PICK p \in t.deps[z] : B[z] = B[p] + t.len[p] + t.lag[z][p]
      BY <2>2, BeforeTight
    <3>2. p \in M /\ rank[p] < rank[z] /\ t.len[p] \in Nat /\ t.lag[z][p] \in Nat
      BY DEF Sound
    <3>3. C[p] + u.len[p] + u.lag[z][p] <= C[z]
      <4> HIDE DEF u
      <4> QED BY <1>1, BeforeEdge
    <3> HIDE DEF B, C, u
    <3>4. B[p] <= C[p] + t.len[x]
      BY <1>4, <3>2
    <3>5. {B[p], B[z], C[p], C[z], B[x]} \subseteq Nat
      BY <1>2, <1>2a, <3>2
    <3>6. CASE p = x
      <4>1. u.len[p] = 0 /\ u.lag[z][p] = t.lag[z][p] /\ C[p] = B[p]
        BY <1>1, <1>3, <3>2, <3>6
      <4> QED BY <1>2, <3>1, <3>2, <3>3, <3>5, <3>6, <4>1
    <3>7. CASE p # x
      <4>1. u.len[p] = t.len[p] /\ u.lag[z][p] = t.lag[z][p]
        BY <1>1, <3>2, <3>7
      <4> QED BY <1>2, <3>1, <3>2, <3>3, <3>4, <3>5, <4>1
    <3> QED BY <3>6, <3>7
  <2> QED BY <2>1, <2>2
<1>5. rank \in [M -> Nat]
  BY DEF Sound
<1>6. M \subseteq W
  <2> HIDE DEF M, W
  <2> QED BY <1>4, <1>5, Upwards
<1> QED BY <1>6

(* Taking all of the hours out of a critical task saves no more than its drag. *)
THEOREM DragIs ==
  ASSUME NEW t, NEW rank, Sound(t, rank), Bounded(t), InRange(t),
         NEW x \in Calculate(t).critical
  PROVE  LongestBefore(t)[FINISH] - LongestBefore(Crashed(t, x))[FINISH] <= Drag(t, Calculate(t), x)
<1> DEFINE M == Members(t)
           B == LongestBefore(t)
           F == LongestFrom(t)
           u == Crashed(t, x)
           C == LongestBefore(u)
           H == LongestFrom(u)
           c == Calculate(t)
           Beside == {z \in M \ c.critical : Overlap(c, x, z)}
           floats == [y \in Beside |-> c.float[y]]
           S == {t.len[x]} \cup {c.float[y] : y \in Beside}
           L == B[FINISH]
<1>1. /\ \A y \in M : c.es[y] = B[y] /\ c.ef[y] = B[y] + t.len[y] /\ c.float[y] = (L - F[y]) - B[y]
      /\ c.critical = {y \in M : B[y] + F[y] = L}
  BY CalculateIs
<1>2. x \in M /\ FINISH \in M /\ t.len[x] \in Nat
  BY <1>1 DEF Bounded, Sound
<1>3. /\ B \in [M -> Nat] /\ F \in [M -> Nat] /\ L \in Nat
  BY <1>2, BeforeIs, FromIs
<1>4. Sound(u, rank) /\ Bounded(u) /\ Members(u) = M
  BY <1>2, CrashedIs
<1>5. C \in [M -> Nat] /\ H \in [M -> Nat]
  <2> HIDE DEF u
  <2> QED BY <1>4, BeforeIs, FromIs
<1>6. L - C[FINISH] <= t.len[x]
  <2>1. B[FINISH] <= C[FINISH] + t.len[x]
    BY <1>2, CrashedSaves
  <2> HIDE DEF B, C
  <2> QED BY <1>2, <1>3, <1>5, <2>1
<1>7. ASSUME NEW y \in Beside PROVE L - C[FINISH] <= c.float[y]
  <2>1. y \in M /\ y # x /\ B[y] + t.len[y] > B[x] /\ B[y] < B[x] + t.len[x]
    <3>0. x \in c.critical
      OBVIOUS
    <3> HIDE DEF B, c
    <3>1. y \in M /\ y # x /\ c.es[x] < c.ef[y] /\ c.es[y] < c.ef[x]
      BY <3>0 DEF Overlap
    <3>2. t.len[y] \in Nat
      BY <3>1 DEF Sound
    <3> QED BY <1>1, <1>2, <1>3, <3>1, <3>2
  <2>2. C[y] = B[y]
    BY <1>2, <2>1, BeforeCrashed
  <2>3. H[y] = F[y]
    BY <1>2, <2>1, FromCrashed
  <2>4. C[y] + H[y] <= C[FINISH]
    <3> HIDE DEF u
    <3> QED BY <1>4, <2>1, ChainsFit
  <2> HIDE DEF B, C, F, H, c
  <2>5. c.float[y] = (L - F[y]) - B[y]
    BY <1>1, <2>1
  <2> QED BY <1>2, <1>3, <1>5, <2>1, <2>2, <2>3, <2>4, <2>5
<1>8. Drag(t, c, x) = Min(S)
  BY DEF Drag
<1>9. IsFiniteSet(S) /\ S \subseteq Int /\ S # {}
  <2>1. IsFiniteSet(Beside)
    <3>1. IsFiniteSet(M) /\ Beside \subseteq M
      BY SoundMembers
    <3> QED BY <3>1, FS_Subset
  <2>2. IsFiniteSet({floats[y] : y \in Beside})
    <3> HIDE DEF floats, Beside
    <3> QED BY <2>1, FiniteImage
  <2>3. {floats[y] : y \in Beside} = {c.float[y] : y \in Beside}
    OBVIOUS
  <2> DEFINE A == {c.float[y] : y \in Beside}
  <2>4. \A y \in Beside : c.float[y] \in Int
    <3> HIDE DEF c, B, F
    <3> QED BY <1>1, <1>3
  <2> HIDE DEF c
  <2>5. A \subseteq Int /\ IsFiniteSet(A)
    BY <2>2, <2>3, <2>4
  <2>6. S = A \cup {t.len[x]}
    OBVIOUS
  <2> HIDE DEF A, S
  <2>7. IsFiniteSet(A \cup {t.len[x]})
    BY <2>5, FS_AddElement
  <2>8. IsFiniteSet(S)
    BY <2>6, <2>7, Zenon
  <2>9. t.len[x] \in S /\ S \subseteq Int
    <3>1. A \subseteq Int /\ t.len[x] \in Int
      BY <1>2, <2>5
    <3>2. A \cup {t.len[x]} \subseteq Int /\ t.len[x] \in A \cup {t.len[x]}
      BY <3>1, Zenon
    <3> QED BY <2>6, <3>2, Zenon
  <2> QED BY <2>8, <2>9
<1>10. \A k \in S : L - C[FINISH] <= k
  <2> HIDE DEF c, L, C, Beside
  <2> QED BY <1>6, <1>7
<1> HIDE DEF S
<1>11. Min(S) \in S
  BY <1>9, MinIs
<1> QED BY <1>8, <1>10, <1>11

-----------------------------------------------------------------------------
(* Graphs: ids, and Kahn's algorithm *)

(* A graph as a sequence. *)
LEMMA GraphIs ==
  ASSUME NEW g, IsGraph(g)
  PROVE  /\ g \in Seq(ToSet(g)) /\ DOMAIN g = 1 .. Len(g) /\ Len(g) \in Nat
         /\ IsFiniteSet(IdSet(g)) /\ IdSet(g) \subseteq Int
         /\ \A i \in DOMAIN g : g[i].id \in IdSet(g)
<1>1. Len(g) \in Nat /\ DOMAIN g = 1 .. Len(g) /\ g = [i \in 1 .. Len(g) |-> g[i]]
  BY DEF IsGraph
<1>2. g \in [1 .. Len(g) -> ToSet(g)]
  <2>1. \A i \in 1 .. Len(g) : g[i] \in ToSet(g)
    BY <1>1 DEF ToSet
  <2> DEFINE T == ToSet(g)
             n == Len(g)
  <2> HIDE DEF T, n
  <2>2. g = [i \in 1 .. n |-> g[i]] /\ \A i \in 1 .. n : g[i] \in T
    BY <1>1, <2>1 DEF T, n
  <2>3. g \in [1 .. n -> T]
    BY <2>2
  <2> QED BY <2>3 DEF T, n
<1>3. g \in Seq(ToSet(g))
  <2>1. g \in UNION {[1 .. n -> ToSet(g)] : n \in Nat}
    BY <1>1, <1>2
  <2> QED BY <2>1, SeqDef
<1> DEFINE ids == [i \in DOMAIN g |-> g[i].id]
<1>4. IdSet(g) = {ids[i] : i \in DOMAIN g}
  BY DEF IdSet
<1>5. IsFiniteSet({ids[i] : i \in DOMAIN g})
  <2>1. IsFiniteSet(DOMAIN g)
    BY <1>1, FS_Interval
  <2> HIDE DEF ids
  <2> QED BY <2>1, FiniteImage
<1>6. IdSet(g) \subseteq Int /\ \A i \in DOMAIN g : g[i].id \in IdSet(g)
  BY DEF IdSet, IsGraph, IsDeliverable
<1> QED BY <1>1, <1>3, <1>4, <1>5, <1>6

(* With unique ids, an id finds its deliverable. *)
LEMMA FindIs ==
  ASSUME NEW g, IsGraph(g), UniqueIds(g)
  PROVE  /\ \A i, j \in DOMAIN g : g[i].id = g[j].id => i = j
         /\ \A i \in DOMAIN g : Find(g, g[i].id) = g[i]
         /\ \A x \in IdSet(g) : \E i \in DOMAIN g : g[i].id = x /\ Find(g, x) = g[i]
<1> DEFINE D == DOMAIN g
           ids == [i \in D |-> g[i].id]
           I == IdSet(g)
<1>1. Len(g) \in Nat /\ D = 1 .. Len(g) /\ Cardinality(I) = Len(g)
  BY GraphIs DEF UniqueIds
<1>2. IsFiniteSet(D) /\ Cardinality(D) = Len(g)
  <2> DEFINE n == Len(g)
  <2>0. n \in Nat /\ 1 \in Int /\ n \in Int
    BY <1>1
  <2> HIDE DEF n
  <2>1. IsFiniteSet(1 .. n) /\ Cardinality(1 .. n) = IF 1 > n THEN 0 ELSE n - 1 + 1
    BY <2>0, FS_Interval
  <2>2. Cardinality(1 .. n) = n
    BY <2>0, <2>1
  <2> QED BY <1>1, <2>1, <2>2 DEF n
<1>3. ids \in Surjection(D, I)
  BY DEF Surjection, IdSet
<1>4. ids \in Injection(D, I)
  <2> HIDE DEF ids, D, I
  <2> QED BY <1>1, <1>2, <1>3, FS_SurjSameCardinalityImpliesInj
<1>5. \A i, j \in D : g[i].id = g[j].id => i = j
  <2> SUFFICES ASSUME NEW i \in D, NEW j \in D, g[i].id = g[j].id PROVE i = j
    OBVIOUS
  <2>1. ids[i] = ids[j] /\ i \in D /\ j \in D
    OBVIOUS
  <2> HIDE DEF ids, D, I
  <2>2. \A a, b \in D : ids[a] = ids[b] => a = b
    BY <1>4 DEF Injection, IsInjective
  <2> QED BY <2>1, <2>2
<1>6. ASSUME NEW i \in D PROVE Find(g, g[i].id) = g[i]
  <2>1. \A j \in 1 .. i - 1 : j \in D /\ j # i
    <3>1. i \in 1 .. Len(g)
      BY <1>1
    <3> QED BY <1>1, <3>1
  <2>2. \A j \in 1 .. i - 1 : g[j].id # g[i].id
    BY <1>5, <2>1
  <2>3. \A k \in D : g[k].id = g[i].id => k = i
    BY <1>5
  <2>4. (CHOOSE k \in D : g[k].id = g[i].id /\ \A j \in 1 .. k - 1 : g[j].id # g[i].id) = i
    BY <2>2, <2>3
  <2> QED BY <2>4 DEF Find
<1>7. ASSUME NEW x \in I PROVE \E i \in D : g[i].id = x /\ Find(g, x) = g[i]
  <2>1. PICK i \in D : g[i].id = x
    BY DEF IdSet
  <2> QED BY <1>6, <2>1
<1> QED BY <1>5, <1>6, <1>7

-----------------------------------------------------------------------------
(* Kahn's algorithm as a fixpoint. *)

PoppedSteps(g, after) ==
    after = [n \in 0 .. Len(g) |->
               IF n = 0 THEN {}
               ELSE {g[i].id : i \in {j \in DOMAIN g : Prerequisites(g[j]) \subseteq after[n - 1]}}]

(* Kahn's algorithm takes one step after the other. *)
LEMMA PoppedUnfolds ==
  ASSUME NEW g, Len(g) \in Nat
  PROVE  \E after : PoppedSteps(g, after) /\ Popped(g) = after[Len(g)]
<1> DEFINE none == {}
           Step(s) == {g[i].id : i \in {j \in DOMAIN g : Prerequisites(g[j]) \subseteq s}}
           Is(f, k) == f = [n \in 0 .. k |-> IF n = 0 THEN none ELSE Step(f[n - 1])]
           G == {k \in Nat : \E f : Is(f, k)}
<1>1. 0 \in G
  <2>1. Is([n \in 0 .. 0 |-> none], 0)
    <3> HIDE DEF Step, none
    <3> QED OBVIOUS
  <2> QED BY <2>1
<1>2. ASSUME NEW k \in Nat, k \in G PROVE k + 1 \in G
  <2> HIDE DEF Step, none
  <2>1. PICK f : Is(f, k)
    BY <1>2
  <2> DEFINE h == [n \in 0 .. k + 1 |-> IF n = k + 1 THEN Step(f[k]) ELSE f[n]]
  <2>2. Is(h, k + 1)
    BY <2>1
  <2> HIDE DEF h, Is
  <2> QED BY <2>2
<1>3. PICK f : Is(f, Len(g))
  <2> HIDE DEF Is
  <2>1. Len(g) \in G
    <3> HIDE DEF G
    <3> QED BY <1>1, <1>2, Upward
  <2> QED BY <2>1
<1> DEFINE after[n \in 0 .. Len(g)] ==
             IF n = 0 THEN {}
             ELSE {g[i].id : i \in {j \in DOMAIN g : Prerequisites(g[j]) \subseteq after[n - 1]}}
<1>4. after = [n \in 0 .. Len(g) |->
                 IF n = 0 THEN {}
                 ELSE {g[i].id : i \in {j \in DOMAIN g : Prerequisites(g[j]) \subseteq after[n - 1]}}]
  BY <1>3, Zenon
<1>5. Popped(g) = after[Len(g)]
  BY Zenon DEF Popped
<1> HIDE DEF after
<1> QED BY <1>4, <1>5 DEF PoppedSteps

(* A depth for every id, below which its prerequisites are. *)
Ranks(g, depth) ==
    /\ depth \in [IdSet(g) -> Nat \ {0}]
    /\ \A x \in IdSet(g) : depth[x] <= Len(g)
    /\ \A x \in IdSet(g) : \A p \in Prerequisites(Find(g, x)) : depth[p] < depth[x]

(* Where everything is popped, the turn in which it is popped is a depth. *)
LEMMA PoppedRanks ==
  ASSUME NEW g, IsGraph(g), UniqueIds(g), KnownPrerequisites(g), Popped(g) = IdSet(g)
  PROVE  \E depth : Ranks(g, depth)
<1> DEFINE I == IdSet(g)
           N == Len(g)
<1>0. N \in Nat
  BY GraphIs
<1>1. PICK after : PoppedSteps(g, after) /\ Popped(g) = after[N]
  BY <1>0, PoppedUnfolds
<1>2. /\ after[0] = {}
      /\ \A n \in 1 .. N : after[n]
           = {g[i].id : i \in {j \in DOMAIN g : Prerequisites(g[j]) \subseteq after[n - 1]}}
  <2> HIDE DEF N
  <2> DEFINE none == {}
             Step(s) == {g[i].id : i \in {j \in DOMAIN g : Prerequisites(g[j]) \subseteq s}}
  <2>1. after = [n \in 0 .. N |-> IF n = 0 THEN none ELSE Step(after[n - 1])]
    BY <1>1, Zenon DEF PoppedSteps, N
  <2> HIDE DEF none, Step
  <2>2. after[0] = none /\ \A n \in 1 .. N : after[n] = Step(after[n - 1])
    BY <1>0, <2>1
  <2> QED BY <2>2, Zenon DEF none, Step
<1> HIDE DEF N
<1> DEFINE At(x) == {n \in 0 .. N : x \in after[n]}
           depth == [x \in I |-> CHOOSE n \in At(x) : \A m \in At(x) : n <= m]
<1>3. ASSUME NEW x \in I
      PROVE  depth[x] \in At(x) /\ \A m \in At(x) : depth[x] <= m
  <2>1. N \in At(x) /\ At(x) \subseteq Nat
    BY <1>0, <1>1
  <2>2. \E n \in At(x) : \A m \in At(x) : n <= m
    <3> HIDE DEF At
    <3> QED BY <2>1, LeastNatural
  <2> HIDE DEF At
  <2> QED BY <2>2
<1>4. ASSUME NEW x \in I
      PROVE  /\ depth[x] \in 1 .. N
             /\ \A p \in Prerequisites(Find(g, x)) : p \in I /\ depth[p] < depth[x]
  <2> DEFINE n == depth[x]
  <2>1. n \in 0 .. N /\ x \in after[n]
    BY <1>3
  <2>2. n # 0
    BY <1>2, <2>1
  <2> HIDE DEF depth
  <2>3. n \in 1 .. N
    BY <1>0, <2>1, <2>2
  <2>4. PICK i \in DOMAIN g : g[i].id = x /\ Prerequisites(g[i]) \subseteq after[n - 1]
    BY <1>2, <2>1, <2>3
  <2>5. Find(g, x) = g[i]
    BY <2>4, FindIs
  <2>6. ASSUME NEW p \in Prerequisites(g[i]) PROVE p \in I /\ depth[p] < n
    <3>1. p \in I
      BY DEF KnownPrerequisites
    <3>2. n - 1 \in At(p)
      BY <1>0, <2>3, <2>4
    <3>3. depth[p] <= n - 1 /\ depth[p] \in At(p)
      BY <1>3, <3>1, <3>2 DEF depth
    <3>4. depth[p] \in 0 .. N
      BY <3>3
    <3> QED BY <1>0, <2>3, <3>1, <3>3, <3>4
  <2> QED BY <2>3, <2>5, <2>6
<1>5. depth \in [I -> Nat \ {0}] /\ \A x \in I : depth[x] <= N
  <2>1. \A x \in I : depth[x] \in Nat \ {0} /\ depth[x] <= N
    BY <1>0, <1>4
  <2>2. DOMAIN depth = I /\ depth = [x \in I |-> depth[x]]
    OBVIOUS
  <2> HIDE DEF depth, I
  <2> QED BY <2>1, <2>2
<1> HIDE DEF depth
<1> QED BY <1>4, <1>5 DEF Ranks, N

-----------------------------------------------------------------------------
(* The tasks of a graph *)

(* What the tasks of a graph are. *)
LEMMA TasksAre ==
  ASSUME NEW g, IsGraph(g)
  PROVE  /\ Tasks(g).ids \in Seq(Int) /\ Len(Tasks(g).ids) = Len(g) + 2
         /\ Members(Tasks(g)) = IdSet(g) \cup {START, FINISH}
         /\ Tasks(g).ids = [i \in 1 .. Len(g) + 2 |->
                              IF i <= Len(g) THEN g[i].id ELSE IF i = Len(g) + 1 THEN START ELSE FINISH]
<1> DEFINE s == [i \in DOMAIN g |-> g[i].id]
           e == <<START, FINISH>>
           N == Len(g)
<1>1. N \in Nat /\ DOMAIN g = 1 .. N /\ \A i \in 1 .. N : g[i].id \in Int
  BY GraphIs DEF IsGraph, IsDeliverable
<1>2. s \in Seq(Int) /\ Len(s) = N /\ DOMAIN s = 1 .. N /\ \A i \in 1 .. N : s[i] = g[i].id
  <2> HIDE DEF N
  <2>1. s = [i \in 1 .. N |-> g[i].id]
    BY <1>1
  <2> QED BY <1>1, <2>1
<1>3. e \in Seq(Int) /\ Len(e) = 2 /\ e[1] = START /\ e[2] = FINISH
  BY NetworkAssumption
<1> DEFINE c == s \o e
<1>4. Tasks(g).ids = c
  BY DEF Tasks
<1>5. c \in Seq(Int) /\ Len(c) = N + 2 /\ DOMAIN c = 1 .. N + 2
  <2> HIDE DEF s, e, N
  <2>1. c \in Seq(Int) /\ Len(c) = Len(s) + Len(e)
    BY <1>2, <1>3, ConcatProperties
  <2> HIDE DEF c
  <2>2. Len(c) = N + 2 /\ DOMAIN c = 1 .. Len(c)
    BY <1>2, <1>3, <2>1, LenProperties
  <2> QED BY <2>1, <2>2
<1>6. \A i \in 1 .. N + 2 : c[i] = IF i <= N THEN g[i].id ELSE IF i = N + 1 THEN START ELSE FINISH
  <2> HIDE DEF s, e, N
  <2>1. \A i \in 1 .. N + 2 : c[i] = IF i <= N THEN s[i] ELSE e[i - N]
    <3>1. \A i \in 1 .. Len(s) + Len(e) : c[i] = IF i <= Len(s) THEN s[i] ELSE e[i - Len(s)]
      BY <1>2, <1>3, ConcatProperties
    <3> QED BY <1>2, <1>3, <3>1
  <2>2. \A i \in 1 .. N + 2 : i <= N => i \in 1 .. N
    BY <1>1
  <2>3. \A i \in 1 .. N + 2 : ~ (i <= N) => (i = N + 1 /\ i - N = 1) \/ (i # N + 1 /\ i - N = 2)
    BY <1>1
  <2> HIDE DEF c
  <2> QED BY <1>2, <1>3, <2>1, <2>2, <2>3
<1> HIDE DEF c, s, e
<1>7. ToSet(c) = IdSet(g) \cup {START, FINISH}
  <2> HIDE DEF N
  <2>1. ASSUME NEW x \in ToSet(c) PROVE x \in IdSet(g) \cup {START, FINISH}
    <3>1. PICK i \in 1 .. N + 2 : c[i] = x
      BY <1>5 DEF ToSet
    <3>2. i <= N => i \in DOMAIN g
      BY <1>1, <3>1
    <3> QED BY <1>6, <3>1, <3>2 DEF IdSet
  <2>2. ASSUME NEW x \in IdSet(g) PROVE x \in ToSet(c)
    <3>1. PICK i \in 1 .. N : g[i].id = x
      BY <1>1 DEF IdSet
    <3>2. i \in 1 .. N + 2 /\ i <= N
      BY <1>1, <3>1
    <3> QED BY <1>5, <1>6, <3>1, <3>2 DEF ToSet
  <2>3. START \in ToSet(c) /\ FINISH \in ToSet(c)
    <3>1. N + 1 \in 1 .. N + 2 /\ N + 2 \in 1 .. N + 2 /\ ~ (N + 1 <= N) /\ ~ (N + 2 <= N) /\ N + 2 # N + 1
      BY <1>1
    <3> QED BY <1>5, <1>6, <3>1 DEF ToSet
  <2> QED BY <2>1, <2>2, <2>3
<1>8. c = [i \in 1 .. N + 2 |-> IF i <= N THEN g[i].id ELSE IF i = N + 1 THEN START ELSE FINISH]
  <2> DEFINE h == [i \in 1 .. N + 2 |-> IF i <= N THEN g[i].id ELSE IF i = N + 1 THEN START ELSE FINISH]
  <2> HIDE DEF N
  <2>1. c = [i \in 1 .. N + 2 |-> c[i]]
    BY <1>5
  <2> QED BY <1>6, <2>1
<1> QED BY <1>4, <1>5, <1>7, <1>8 DEF Members

(* The dependencies, the lengths and the lags of the tasks. *)
LEMMA TaskFields ==
  ASSUME NEW g, IsGraph(g), {START, FINISH} \cap IdSet(g) = {}
  PROVE  /\ DOMAIN Tasks(g).deps = IdSet(g) \cup {START, FINISH}
         /\ Tasks(g).deps = [x \in IdSet(g) \cup {START, FINISH} |-> Tasks(g).deps[x]]
         /\ Tasks(g).deps[START] = {}
         /\ Tasks(g).deps[FINISH] = IF Sinks(g) = {} THEN {START} ELSE Sinks(g)
         /\ \A x \in IdSet(g) : Tasks(g).deps[x] =
              IF Prerequisites(Find(g, x)) = {} THEN {START} ELSE Prerequisites(Find(g, x))
         /\ Tasks(g).len = [x \in IdSet(g) \cup {START, FINISH} |->
                              IF x \in {START, FINISH} THEN 0 ELSE ScheduledLength(Find(g, x))]
         /\ \A x \in IdSet(g) \cup {START, FINISH} : \A p \in Tasks(g).deps[x] :
              Tasks(g).lag[x][p]
                = IF {x, p} \cap {START, FINISH} # {} THEN 0 ELSE Find(g, x).pre[p].lag
<1> DEFINE t == Tasks(g)
           M == IdSet(g) \cup {START, FINISH}
           ids == [i \in DOMAIN g |-> g[i].id] \o <<START, FINISH>>
<1>0. ToSet(ids) = M
  <2>1. Tasks(g).ids = ids
    BY DEF Tasks
  <2> HIDE DEF ids
  <2> QED BY <2>1, TasksAre DEF Members
<1>0a. START # FINISH
  BY NetworkAssumption
<1>1. t.deps = [x \in ToSet(ids) |->
                  IF x = START THEN {}
                  ELSE IF x = FINISH THEN IF Sinks(g) = {} THEN {START} ELSE Sinks(g)
                  ELSE IF Prerequisites(Find(g, x)) = {} THEN {START}
                  ELSE Prerequisites(Find(g, x))]
  BY DEF Tasks
<1>2. t.len = [x \in ToSet(ids) |-> IF x \in {START, FINISH} THEN 0 ELSE ScheduledLength(Find(g, x))]
  BY DEF Tasks
<1>3. t.lag = [x \in ToSet(ids) |-> [p \in t.deps[x] |->
                 IF {x, p} \cap {START, FINISH} # {} THEN 0 ELSE Find(g, x).pre[p].lag]]
  BY DEF Tasks
<1> HIDE DEF t, ids
<1>4. \A x \in M : \A p \in t.deps[x] :
         t.lag[x][p] = IF {x, p} \cap {START, FINISH} # {} THEN 0 ELSE Find(g, x).pre[p].lag
  <2> SUFFICES ASSUME NEW x \in M, NEW p \in t.deps[x]
               PROVE  t.lag[x][p] = IF {x, p} \cap {START, FINISH} # {} THEN 0
                                    ELSE Find(g, x).pre[p].lag
    OBVIOUS
  <2>1. t.lag[x] = [q \in t.deps[x] |->
                 IF {x, q} \cap {START, FINISH} # {} THEN 0 ELSE Find(g, x).pre[q].lag]
    BY <1>0, <1>3, Zenon
  <2> QED BY <2>1, Zenon
<1>5. \A x \in IdSet(g) : x # START /\ x # FINISH /\ x \in M
  OBVIOUS
<1>6. START \in M /\ FINISH \in M
  OBVIOUS
<1>7. \A x \in M : t.deps[x] = IF x = START THEN {}
                  ELSE IF x = FINISH THEN IF Sinks(g) = {} THEN {START} ELSE Sinks(g)
                  ELSE IF Prerequisites(Find(g, x)) = {} THEN {START}
                  ELSE Prerequisites(Find(g, x))
  BY <1>0, <1>1, Zenon
<1>8. \A x \in IdSet(g) : t.deps[x] =
              IF Prerequisites(Find(g, x)) = {} THEN {START} ELSE Prerequisites(Find(g, x))
  BY <1>5, <1>7, Zenon
<1>9. t.deps[START] = {} /\ t.deps[FINISH] = IF Sinks(g) = {} THEN {START} ELSE Sinks(g)
  BY <1>0a, <1>6, <1>7, Zenon
<1>10. DOMAIN t.deps = M /\ t.deps = [x \in M |-> t.deps[x]]
  BY <1>0, <1>1, Zenon
<1>11. t.len = [x \in M |-> IF x \in {START, FINISH} THEN 0 ELSE ScheduledLength(Find(g, x))]
  BY <1>0, <1>2, Zenon
<1> QED BY <1>4, <1>8, <1>9, <1>10, <1>11, Zenon DEF t

(* The hours of a deliverable without a value problem are in range. *)
LEMMA ValuesOk ==
  ASSUME NEW d, ~ ValueProblem(d)
  PROVE  /\ ScheduledLength(d) \in 0 .. MAX_HOURS \cup {DerivedHours}
         /\ \A p \in Prerequisites(d) : d.pre[p].lag \in 0 .. MAX_HOURS
<1>1. \A p \in Prerequisites(d) : d.pre[p].lag \in 0 .. MAX_HOURS
  BY DEF ValueProblem, HoursOk
<1>2. d.duration # None => d.duration \in 0 .. MAX_HOURS
  BY DEF ValueProblem, HoursOk
<1>3. d.effort # None => d.effort \in 0 .. MAX_HOURS
  BY DEF ValueProblem, HoursOk
<1>4. d.estimate # None => d.estimate[2] \in 0 .. MAX_HOURS
  BY DEF ValueProblem, HoursOk
<1>5. 0 \in 0 .. MAX_HOURS
  BY NetworkAssumption
<1> QED BY <1>1, <1>2, <1>3, <1>4, <1>5 DEF ScheduledLength

-----------------------------------------------------------------------------
(* An accepted graph can be scheduled *)

(* What the kernel needs of a graph, whose ids have depths. *)
Plannable(g, depth) ==
    /\ IsGraph(g) /\ Len(g) <= MAX_DELIVERABLES
    /\ {START, FINISH} \cap IdSet(g) = {} /\ UniqueIds(g) /\ KnownPrerequisites(g)
    /\ \A i \in DOMAIN g : ~ ValueProblem(g[i])
    /\ Ranks(g, depth)

TaskRank(g, depth) ==
    [x \in IdSet(g) \cup {START, FINISH} |->
       IF x = START THEN 0 ELSE IF x = FINISH THEN Len(g) + 1 ELSE depth[x]]

(* A graph that a submission accepts can be planned. *)
LEMMA ValidIsPlannable ==
  ASSUME NEW g, IsGraph(g), Valid(g)
  PROVE  \E depth : Plannable(g, depth)
<1>1. PICK depth : Ranks(g, depth)
  BY PoppedRanks DEF Valid
<1> QED BY <1>1 DEF Plannable, Valid

(* What an id waits for is in the graph. *)
LEMMA KnownIds ==
  ASSUME NEW g, IsGraph(g), KnownPrerequisites(g), UniqueIds(g), NEW x \in IdSet(g)
  PROVE  Prerequisites(Find(g, x)) \subseteq IdSet(g)
<1>1. PICK i \in DOMAIN g : g[i].id = x /\ Find(g, x) = g[i]
  BY FindIs
<1> QED BY <1>1 DEF KnownPrerequisites

(* The dependents of an id, through Find. *)
LEMMA DependentsAre ==
  ASSUME NEW g, IsGraph(g), UniqueIds(g), NEW x
  PROVE  Dependents(g, x) = {y \in IdSet(g) : x \in Prerequisites(Find(g, y))}
<1>1. ASSUME NEW y \in Dependents(g, x) PROVE y \in IdSet(g) /\ x \in Prerequisites(Find(g, y))
  <2>1. PICK i \in DOMAIN g : x \in Prerequisites(g[i]) /\ y = g[i].id
    BY DEF Dependents
  <2>2. Find(g, y) = g[i] /\ y \in IdSet(g)
    BY <2>1, FindIs, GraphIs
  <2> QED BY <2>1, <2>2
<1>2. ASSUME NEW y \in IdSet(g), x \in Prerequisites(Find(g, y)) PROVE y \in Dependents(g, x)
  <2>1. PICK i \in DOMAIN g : g[i].id = y /\ Find(g, y) = g[i]
    BY FindIs
  <2> QED BY <1>2, <2>1 DEF Dependents
<1> QED BY <1>1, <1>2

(* The edges between the tasks of a graph. *)
LEMMA TaskFollowers ==
  ASSUME NEW g, NEW depth, Plannable(g, depth)
  PROVE  /\ Followers(Tasks(g), FINISH) = {}
         /\ \A x \in IdSet(g) : Followers(Tasks(g), x) =
              IF Dependents(g, x) = {} THEN {FINISH} ELSE Dependents(g, x)
         /\ Followers(Tasks(g), START) =
              {x \in IdSet(g) : Prerequisites(Find(g, x)) = {}}
                \cup (IF Sinks(g) = {} THEN {FINISH} ELSE {})
<1> DEFINE t == Tasks(g)
           I == IdSet(g)
           Pre(x) == Prerequisites(Find(g, x))
<1>1. /\ Members(t) = I \cup {START, FINISH}
      /\ t.deps[START] = {}
      /\ t.deps[FINISH] = IF Sinks(g) = {} THEN {START} ELSE Sinks(g)
      /\ \A x \in I : t.deps[x] = IF Pre(x) = {} THEN {START} ELSE Pre(x)
  <2>1. IsGraph(g) /\ {START, FINISH} \cap IdSet(g) = {}
    BY DEF Plannable
  <2> QED BY <2>1, TasksAre, TaskFields
<1>2. START # FINISH /\ START \notin I /\ FINISH \notin I
  BY NetworkAssumption DEF Plannable
<1>3. \A x \in I : Pre(x) \subseteq I
  BY KnownIds DEF Plannable
<1>4. Sinks(g) = {x \in I : Dependents(g, x) = {}}
  BY DEF Sinks
<1>5. \A x : Dependents(g, x) = {y \in I : x \in Pre(y)}
  BY DependentsAre DEF Plannable
<1> HIDE DEF t, I, Pre
<1>6. \A x : Followers(t, x) = {y \in I \cup {START, FINISH} : x \in t.deps[y]}
  BY <1>1 DEF Followers
<1>7. Followers(t, FINISH) = {}
  <2> SUFFICES ASSUME NEW y \in I \cup {START, FINISH}, FINISH \in t.deps[y] PROVE FALSE
    BY <1>6
  <2>1. CASE y = START
    BY <1>1, <2>1
  <2>2. CASE y = FINISH
    BY <1>1, <1>2, <1>4, <2>2
  <2>3. CASE y \in I
    BY <1>1, <1>2, <1>3, <2>3
  <2> QED BY <2>1, <2>2, <2>3
<1>8. ASSUME NEW x \in I
      PROVE  Followers(t, x) = IF Dependents(g, x) = {} THEN {FINISH} ELSE Dependents(g, x)
  <2>1. x # START
    BY <1>2
  <2>2. \A y \in I : x \in t.deps[y] <=> x \in Pre(y)
    BY <1>1, <2>1
  <2>3. x \in t.deps[FINISH] <=> Dependents(g, x) = {}
    BY <1>1, <1>4, <2>1
  <2>4. x \notin t.deps[START]
    BY <1>1
  <2>5. Followers(t, x) = Dependents(g, x) \cup (IF Dependents(g, x) = {} THEN {FINISH} ELSE {})
    BY <1>2, <1>5, <1>6, <2>2, <2>3, <2>4
  <2> QED BY <2>5
<1>9. Followers(t, START) = {x \in I : Pre(x) = {}} \cup (IF Sinks(g) = {} THEN {FINISH} ELSE {})
  <2>1. \A y \in I : START \in t.deps[y] <=> Pre(y) = {}
    BY <1>1, <1>2, <1>3
  <2>2. START \in t.deps[FINISH] <=> Sinks(g) = {}
    BY <1>1, <1>2, <1>4
  <2>3. START \notin t.deps[START]
    BY <1>1
  <2> QED BY <1>2, <1>6, <2>1, <2>2, <2>3
<1> QED BY <1>7, <1>8, <1>9 DEF t, I, Pre

(* The tasks of such a graph form a network that can be scheduled. *)
LEMMA TasksSound ==
  ASSUME NEW g, NEW depth, Plannable(g, depth)
  PROVE  Sound(Tasks(g), TaskRank(g, depth))
<1> DEFINE t == Tasks(g)
           I == IdSet(g)
           M == I \cup {START, FINISH}
           N == Len(g)
           rank == TaskRank(g, depth)
           Pre(x) == Prerequisites(Find(g, x))
<1>1. /\ t.ids \in Seq(Int) /\ Members(t) = M /\ N \in Nat /\ DOMAIN g = 1 .. N
      /\ t.ids = [i \in 1 .. N + 2 |->
                    IF i <= N THEN g[i].id ELSE IF i = N + 1 THEN START ELSE FINISH]
  BY TasksAre, GraphIs DEF Plannable
<1>2. START # FINISH /\ START \notin I /\ FINISH \notin I
  BY NetworkAssumption DEF Plannable
<1>3. /\ t.deps = [x \in M |-> t.deps[x]]
      /\ t.deps[START] = {}
      /\ t.deps[FINISH] = IF Sinks(g) = {} THEN {START} ELSE Sinks(g)
      /\ \A x \in I : t.deps[x] = IF Pre(x) = {} THEN {START} ELSE Pre(x)
      /\ t.len = [x \in M |-> IF x \in {START, FINISH} THEN 0 ELSE ScheduledLength(Find(g, x))]
      /\ \A x \in M : \A p \in t.deps[x] :
            t.lag[x][p] = IF {x, p} \cap {START, FINISH} # {} THEN 0 ELSE Find(g, x).pre[p].lag
  BY TaskFields DEF Plannable
<1>4. \A x \in I : Pre(x) \subseteq I
  BY KnownIds DEF Plannable
<1>5. \A x \in I : \E i \in DOMAIN g : g[i].id = x /\ Find(g, x) = g[i]
  BY FindIs DEF Plannable
<1>6. \A x \in I : ~ ValueProblem(Find(g, x))
  BY <1>5 DEF Plannable
<1>7. \A x \in I : ScheduledLength(Find(g, x)) \in Nat
                   /\ \A p \in Pre(x) : Find(g, x).pre[p].lag \in Nat
  <2> SUFFICES ASSUME NEW x \in I
               PROVE  ScheduledLength(Find(g, x)) \in Nat
                      /\ \A p \in Pre(x) : Find(g, x).pre[p].lag \in Nat
    OBVIOUS
  <2> DEFINE d == Find(g, x)
  <2>1. ~ ValueProblem(d)
    BY <1>6
  <2> HIDE DEF d
  <2>2. /\ ScheduledLength(d) \in 0 .. MAX_HOURS \cup {DerivedHours}
        /\ \A p \in Prerequisites(d) : d.pre[p].lag \in 0 .. MAX_HOURS
    BY <2>1, ValuesOk
  <2>3. MAX_HOURS \in Nat /\ DerivedHours \in Nat
    BY NetworkAssumption
  <2>4. ScheduledLength(d) \in Nat /\ \A p \in Prerequisites(d) : d.pre[p].lag \in Nat
    BY <2>2, <2>3
  <2> QED BY <2>4 DEF d
<1>8. /\ depth \in [I -> Nat \ {0}] /\ \A x \in I : depth[x] <= N
      /\ \A x \in I : \A p \in Pre(x) : depth[p] < depth[x]
  BY DEF Plannable, Ranks
<1>9. IsInjective(t.ids)
  <2>1. \A i, j \in 1 .. N : g[i].id = g[j].id => i = j
    BY <1>1, FindIs DEF Plannable
  <2>2. \A i \in 1 .. N : g[i].id # START /\ g[i].id # FINISH
    BY <1>1, <1>2 DEF IdSet
  <2> HIDE DEF t, N
  <2>3. DOMAIN t.ids = 1 .. N + 2
    BY <1>1
  <2>4. \A i \in 1 .. N + 2 : (i <= N => i \in 1 .. N) /\ (i <= N \/ i = N + 1 \/ i = N + 2)
    BY <1>1
  <2>5. ASSUME NEW i \in 1 .. N + 2, NEW j \in 1 .. N + 2, t.ids[i] = t.ids[j] PROVE i = j
    <3>1. /\ t.ids[i] = IF i <= N THEN g[i].id ELSE IF i = N + 1 THEN START ELSE FINISH
          /\ t.ids[j] = IF j <= N THEN g[j].id ELSE IF j = N + 1 THEN START ELSE FINISH
      BY <1>1
    <3>2. CASE i <= N /\ j <= N
      BY <2>1, <2>4, <2>5, <3>1, <3>2
    <3>3. CASE i <= N /\ ~ (j <= N)
      BY <2>2, <2>4, <2>5, <3>1, <3>3
    <3>4. CASE ~ (i <= N) /\ j <= N
      BY <2>2, <2>4, <2>5, <3>1, <3>4
    <3>5. CASE ~ (i <= N) /\ ~ (j <= N)
      BY <1>2, <2>4, <2>5, <3>1, <3>5
    <3> QED BY <3>2, <3>3, <3>4, <3>5
  <2> QED BY <2>3, <2>5 DEF IsInjective
<1> HIDE DEF t, Pre
<1>10. ASSUME NEW x \in M PROVE t.deps[x] \subseteq M /\ \A p \in t.deps[x] : rank[p] < rank[x]
  <2>0. rank = [y \in M |-> IF y = START THEN 0 ELSE IF y = FINISH THEN N + 1 ELSE depth[y]]
    BY DEF TaskRank
  <2> HIDE DEF rank, N, I
  <2>1. rank[START] = 0 /\ rank[FINISH] = N + 1 /\ \A y \in I : rank[y] = depth[y]
    BY <1>2, <2>0
  <2>2. CASE x = START
    BY <1>3, <2>2
  <2>3. CASE x = FINISH
    <3>1. \A p \in t.deps[x] : p = START \/ p \in I
      BY <1>3, <2>3 DEF Sinks, I
    <3>2. \A p \in I : depth[p] < N + 1
      BY <1>1, <1>8
    <3> QED BY <1>1, <2>1, <2>3, <3>1, <3>2
  <2>4. CASE x \in I
    <3>1. \A p \in t.deps[x] : p = START \/ p \in Pre(x)
      BY <1>3, <2>4
    <3>2. depth[x] > 0
      BY <1>8, <2>4
    <3> QED BY <1>4, <1>8, <2>1, <2>4, <3>1, <3>2
  <2> QED BY <2>2, <2>3, <2>4
<1>11. t.deps \in [M -> SUBSET M]
  <2> HIDE DEF M
  <2> QED BY <1>3, <1>10
<1>12. t.len \in [M -> Nat]
  <2>1. \A x \in M : (IF x \in {START, FINISH} THEN 0 ELSE ScheduledLength(Find(g, x))) \in Nat
    BY <1>7
  <2> HIDE DEF M
  <2> QED BY <1>3, <2>1
<1>13. \A x \in M : \A p \in t.deps[x] : t.lag[x][p] \in Nat
  <2> SUFFICES ASSUME NEW x \in M, NEW p \in t.deps[x] PROVE t.lag[x][p] \in Nat
    OBVIOUS
  <2>1. CASE {x, p} \cap {START, FINISH} # {}
    <3>1. t.lag[x][p] = 0
      BY <1>3, <2>1, Zenon
    <3> QED BY <3>1
  <2>2. CASE {x, p} \cap {START, FINISH} = {}
    <3>1. t.lag[x][p] = Find(g, x).pre[p].lag
      BY <1>3, <2>2, Zenon
    <3>2. x \in I /\ p # START
      BY <2>2
    <3>3. p \in Pre(x)
      BY <1>3, <3>2
    <3> QED BY <1>7, <3>1, <3>2, <3>3
  <2> QED BY <2>1, <2>2
<1>14. rank \in [M -> Nat]
  <2>1. rank = [y \in M |-> IF y = START THEN 0 ELSE IF y = FINISH THEN N + 1 ELSE depth[y]]
    BY DEF TaskRank
  <2>2. \A y \in M : (IF y = START THEN 0 ELSE IF y = FINISH THEN N + 1 ELSE depth[y]) \in Nat
    BY <1>1, <1>8
  <2> HIDE DEF rank, M
  <2> QED BY <2>1, <2>2
<1> HIDE DEF rank
<1> QED BY <1>1, <1>9, <1>10, <1>11, <1>12, <1>13, <1>14 DEF Sound, t, rank

-----------------------------------------------------------------------------
(* Its hours are in range *)

(* Its hours are below the value that stands for no deadline. *)
LEMMA TasksBounded ==
  ASSUME NEW g, NEW depth, Plannable(g, depth)
  PROVE  Bounded(Tasks(g))
<1> DEFINE t == Tasks(g)
           I == IdSet(g)
           M == I \cup {START, FINISH}
           Pre(x) == Prerequisites(Find(g, x))
<1>1. Members(t) = M
  BY TasksAre DEF Plannable
<1>2. START # FINISH /\ START \notin I /\ FINISH \notin I
  BY NetworkAssumption DEF Plannable
<1>3. /\ t.deps[START] = {}
      /\ t.deps[FINISH] = IF Sinks(g) = {} THEN {START} ELSE Sinks(g)
      /\ \A x \in I : t.deps[x] = IF Pre(x) = {} THEN {START} ELSE Pre(x)
      /\ t.len = [x \in M |-> IF x \in {START, FINISH} THEN 0 ELSE ScheduledLength(Find(g, x))]
  BY TaskFields DEF Plannable
<1>4. /\ Followers(t, FINISH) = {}
      /\ \A x \in I : Followers(t, x) = IF Dependents(g, x) = {} THEN {FINISH} ELSE Dependents(g, x)
      /\ Followers(t, START) = {x \in I : Pre(x) = {}} \cup (IF Sinks(g) = {} THEN {FINISH} ELSE {})
  BY TaskFollowers
<1>5. Followers(t, START) # {}
  <2>1. CASE Sinks(g) = {}
    BY <1>4, <2>1
  <2>2. CASE Sinks(g) # {}
    <3> DEFINE S == {depth[x] : x \in I}
    <3>1. S # {} /\ S \subseteq Nat
      BY <2>2 DEF Sinks, Plannable, Ranks
    <3> HIDE DEF S
    <3>2. PICK m \in S : \A k \in S : m <= k
      BY <3>1, LeastNatural
    <3>3. PICK x \in I : m = depth[x]
      BY <3>2 DEF S
    <3>4. \A p \in Pre(x) : p \in I /\ depth[p] < depth[x] /\ depth[p] \in Nat /\ depth[x] \in Nat
      BY KnownIds DEF Plannable, Ranks
    <3>5. \A p \in Pre(x) : FALSE
      <4> SUFFICES ASSUME NEW p \in Pre(x) PROVE FALSE
        OBVIOUS
      <4>1. depth[p] \in S
        BY <3>4 DEF S
      <4> QED BY <3>2, <3>3, <3>4, <4>1
    <3>6. Pre(x) = {}
      BY <3>5
    <3> QED BY <1>4, <3>3, <3>6
  <2> QED BY <2>1, <2>2
<1>6. t.len[FINISH] = 0 /\ t.len[START] = 0
  BY <1>3
<1> HIDE DEF t, Pre
<1>7. ASSUME NEW x \in M PROVE Followers(t, x) = {} <=> x = FINISH
  <2>1. CASE x = START
    BY <1>2, <1>5, <2>1
  <2>2. CASE x = FINISH
    BY <1>4, <2>2
  <2>3. CASE x \in I
    BY <1>2, <1>4, <2>3
  <2> QED BY <2>1, <2>2, <2>3
<1>8. ASSUME NEW x \in M PROVE t.deps[x] = {} <=> x = START
  <2>1. CASE x = START
    BY <1>3, <2>1
  <2>2. CASE x = FINISH
    BY <1>2, <1>3, <2>2
  <2>3. CASE x \in I
    BY <1>2, <1>3, <2>3
  <2> QED BY <2>1, <2>2, <2>3
<1> QED BY <1>1, <1>6, <1>7, <1>8 DEF Bounded, t

(* They are numbers that an f32 has exactly. *)
LEMMA TasksInRange ==
  ASSUME NEW g, NEW depth, Plannable(g, depth)
  PROVE  InRange(Tasks(g))
<1> DEFINE t == Tasks(g)
           I == IdSet(g)
           M == I \cup {START, FINISH}
           W == 2 * MAX_HOURS + DerivedHours
           Pre(x) == Prerequisites(Find(g, x))
<1>0. MAX_HOURS \in Nat /\ MAX_DELIVERABLES \in Nat /\ DerivedHours \in Nat /\ W \in Nat
  BY NetworkAssumption
<1>1. Members(t) = M /\ Len(t.ids) = Len(g) + 2 /\ Len(g) \in Nat /\ Len(g) <= MAX_DELIVERABLES
  BY TasksAre, GraphIs DEF Plannable
<1>3. /\ \A x \in I : t.deps[x] = IF Pre(x) = {} THEN {START} ELSE Pre(x)
      /\ t.len = [x \in M |-> IF x \in {START, FINISH} THEN 0 ELSE ScheduledLength(Find(g, x))]
      /\ \A x \in M : \A p \in t.deps[x] :
            t.lag[x][p] = IF {x, p} \cap {START, FINISH} # {} THEN 0 ELSE Find(g, x).pre[p].lag
  BY TaskFields DEF Plannable
<1>4. Sound(t, TaskRank(g, depth)) /\ Bounded(t)
  BY TasksSound, TasksBounded
<1>6. \A x \in I : ~ ValueProblem(Find(g, x))
  BY FindIs DEF Plannable
<1>7. \A x \in I : /\ ScheduledLength(Find(g, x)) \in 0 .. MAX_HOURS + DerivedHours
                   /\ \A p \in Pre(x) : Find(g, x).pre[p].lag \in 0 .. MAX_HOURS
  <2> SUFFICES ASSUME NEW x \in I
               PROVE  /\ ScheduledLength(Find(g, x)) \in 0 .. MAX_HOURS + DerivedHours
                      /\ \A p \in Pre(x) : Find(g, x).pre[p].lag \in 0 .. MAX_HOURS
    OBVIOUS
  <2> DEFINE d == Find(g, x)
  <2>1. ~ ValueProblem(d)
    BY <1>6
  <2> HIDE DEF d
  <2>2. /\ ScheduledLength(d) \in 0 .. MAX_HOURS \cup {DerivedHours}
        /\ \A p \in Prerequisites(d) : d.pre[p].lag \in 0 .. MAX_HOURS
    BY <2>1, ValuesOk
  <2>4. ScheduledLength(d) \in 0 .. MAX_HOURS + DerivedHours
    BY <1>0, <2>2
  <2> QED BY <2>2, <2>4 DEF d
<1> HIDE DEF t, Pre
<1>8. EachWithin(t, W)
  <2> SUFFICES ASSUME NEW x \in M, NEW p \in t.deps[x] PROVE t.len[p] + t.lag[x][p] <= W
    BY <1>1 DEF EachWithin
  <2>0. p \in M
    BY <1>1, <1>4 DEF Sound
  <2>1. t.len[p] \in 0 .. MAX_HOURS + DerivedHours
    BY <1>0, <1>3, <1>7, <2>0
  <2>2. t.lag[x][p] \in 0 .. MAX_HOURS
    <3>1. CASE {x, p} \cap {START, FINISH} # {}
      <4>1. t.lag[x][p] = 0
        BY <1>3, <3>1, Zenon
      <4> QED BY <1>0, <4>1
    <3>2. CASE {x, p} \cap {START, FINISH} = {}
      <4>1. t.lag[x][p] = Find(g, x).pre[p].lag
        BY <1>3, <3>2, Zenon
      <4>2. x \in I /\ p # START
        BY <3>2
      <4>3. p \in Pre(x)
        BY <1>3, <4>2
      <4> QED BY <1>7, <4>1, <4>2, <4>3
    <3> QED BY <3>1, <3>2
  <2> QED BY <1>0, <2>1, <2>2
<1>9. FINISH \in Members(t)
  BY <1>1
<1> DEFINE B == LongestBefore(t)[FINISH]
           n == Len(t.ids) - 1
           m == MAX_DELIVERABLES + 1
<1>10. B <= n * W /\ B \in Nat
  <2> HIDE DEF W
  <2>1. B <= n * W
    BY <1>0, <1>4, <1>8, <1>9, HoursBounded
  <2> QED BY <1>4, <1>9, <2>1, BeforeIs
<1>11. n \in Nat /\ m \in Nat /\ n <= m
  BY <1>0, <1>1
<1>12. n * W \in Nat /\ n * W <= m * W /\ m * W \in Nat
  <2> HIDE DEF n, m, W
  <2> QED BY <1>0, <1>11, Multiples
<1>13. Unrelaxed = 1 + m * W
  BY DEF Unrelaxed
<1> DEFINE a == n * W
           b == m * W
<1>14. B <= a /\ a <= b /\ a \in Nat /\ b \in Nat /\ B \in Nat /\ Unrelaxed = 1 + b
  BY <1>10, <1>12, <1>13
<1> HIDE DEF a, b, B
<1>15. B < Unrelaxed
  BY <1>14
<1> QED BY <1>15 DEF InRange, B, t

(* The schedule of an accepted graph is exact. *)
LEMMA ScheduleIs ==
  ASSUME NEW g, NEW depth, Plannable(g, depth)
  PROVE  /\ Sound(Tasks(g), TaskRank(g, depth)) /\ Bounded(Tasks(g)) /\ InRange(Tasks(g))
         /\ ComputeCpm(g) = Calculate(Tasks(g))
  BY TasksSound, TasksBounded, TasksInRange DEF ComputeCpm

-----------------------------------------------------------------------------
(* The trace of the critical path *)

TraceTurn(t, es, ef, path) ==
    IF TightDeps(t, es, ef, Head(path)) \ ToSet(path) = {} THEN path
    ELSE <<Min(TightDeps(t, es, ef, Head(path)) \ ToSet(path))>> \o path

TraceSteps(t, es, ef, end, back) ==
    back = [n \in 1 .. Len(t.ids) |->
              IF n = 1 THEN <<end>> ELSE TraceTurn(t, es, ef, back[n - 1])]

(* The trace takes one step after the other. *)
LEMMA TraceUnfolds ==
  ASSUME NEW t, NEW es, NEW ef, NEW end, Len(t.ids) \in Nat
  PROVE  \E back : /\ TraceSteps(t, es, ef, end, back)
                   /\ TraceBack(t, es, ef, end) = back[Len(t.ids)]
<1> DEFINE first == <<end>>
           Step(s) == TraceTurn(t, es, ef, s)
           Is(f, k) == f = [n \in 1 .. k |-> IF n = 1 THEN first ELSE Step(f[n - 1])]
           G == {k \in Nat : \E f : Is(f, k)}
<1>1. 0 \in G
  <2>1. Is([n \in 1 .. 0 |-> first], 0)
    <3> HIDE DEF Step, first
    <3> QED OBVIOUS
  <2> QED BY <2>1
<1>2. ASSUME NEW k \in Nat, k \in G PROVE k + 1 \in G
  <2> HIDE DEF Step, first
  <2>1. PICK f : Is(f, k)
    BY <1>2
  <2> DEFINE h == [n \in 1 .. k + 1 |->
                     IF n = k + 1 THEN (IF n = 1 THEN first ELSE Step(f[k])) ELSE f[n]]
  <2>2. Is(h, k + 1)
    BY <2>1
  <2> HIDE DEF h, Is
  <2> QED BY <2>2
<1>3. PICK f : Is(f, Len(t.ids))
  <2> HIDE DEF Is
  <2>1. Len(t.ids) \in G
    <3> HIDE DEF G
    <3> QED BY <1>1, <1>2, Upward
  <2> QED BY <2>1
<1> DEFINE back[n \in 1 .. Len(t.ids)] ==
             IF n = 1 THEN <<end>>
             ELSE IF TightDeps(t, es, ef, Head(back[n - 1])) \ ToSet(back[n - 1]) = {} THEN back[n - 1]
             ELSE <<Min(TightDeps(t, es, ef, Head(back[n - 1])) \ ToSet(back[n - 1]))>> \o back[n - 1]
<1>4. back = [n \in 1 .. Len(t.ids) |->
              IF n = 1 THEN <<end>> ELSE TraceTurn(t, es, ef, back[n - 1])]
  BY <1>3, Zenon DEF TraceTurn
<1>5. TraceBack(t, es, ef, end) = back[Len(t.ids)]
  BY Zenon DEF TraceBack
<1> HIDE DEF back
<1> QED BY <1>4, <1>5 DEF TraceSteps

(* The earliest starts and finishes are those of the longest chains. *)
OnTime(t, es, ef) ==
    /\ es = [x \in Members(t) |-> LongestBefore(t)[x]]
    /\ ef = [x \in Members(t) |-> LongestBefore(t)[x] + t.len[x]]

(* What the trace keeps of the path that it has found. *)
TightChain(t, path) ==
    \A i \in 2 .. Len(path) :
       /\ path[i - 1] \in t.deps[path[i]]
       /\ LongestBefore(t)[path[i]]
            = LongestBefore(t)[path[i - 1]] + t.len[path[i - 1]] + t.lag[path[i]][path[i - 1]]

Traced(t, rank, end, path) ==
    /\ path \in Seq(Members(t)) /\ path # <<>> /\ IsInjective(path)
    /\ path[Len(path)] = end /\ TightChain(t, path)
    /\ \A x \in ToSet(path) : /\ rank[path[1]] <= rank[x]
                              /\ LongestBefore(t)[end] + t.len[end]
                                   <= LongestBefore(t)[x] + LongestFrom(t)[x]

(* A trace of the exact schedule finds a tight chain from the start. *)
LEMMA TraceTurnKeeps ==
  ASSUME NEW t, NEW rank, Sound(t, rank), NEW end \in Members(t), NEW path, Traced(t, rank, end, path),
         NEW es, NEW ef, OnTime(t, es, ef)
  PROVE  /\ t.deps[path[1]] = {} => TraceTurn(t, es, ef, path) = path
         /\ t.deps[path[1]] # {} => /\ Traced(t, rank, end, TraceTurn(t, es, ef, path))
                                    /\ Len(TraceTurn(t, es, ef, path)) = Len(path) + 1
<1> DEFINE M == Members(t)
           B == LongestBefore(t)
           F == LongestFrom(t)
           h == path[1]
           next == TightDeps(t, es, ef, h)
           new == TightDeps(t, es, ef, h) \ ToSet(path)
<1>1. /\ path \in Seq(M) /\ Len(path) \in Nat \ {0} /\ DOMAIN path = 1 .. Len(path) /\ Head(path) = h
      /\ h \in M /\ ToSet(path) \subseteq M /\ h \in ToSet(path)
  <2>1. path \in Seq(M) /\ path # <<>>
    BY DEF Traced
  <2>2. Len(path) \in Nat \ {0} /\ DOMAIN path = 1 .. Len(path) /\ Head(path) = h
    BY <2>1, EmptySeq, LenProperties
  <2>3. 1 \in DOMAIN path
    BY <2>2
  <2>4. h \in ToSet(path)
    BY <2>3 DEF ToSet
  <2> QED BY <2>1, <2>2, <2>4, FiniteSeqSet
<1>2. /\ \A x \in M : B[x] \in Nat /\ F[x] \in Nat /\ es[x] = B[x] /\ ef[x] = B[x] + t.len[x]
  <2>1. \A x \in M : B[x] \in Nat /\ F[x] \in Nat
    BY BeforeIs, FromIs
  <2>2. es = [x \in M |-> B[x]] /\ ef = [x \in M |-> B[x] + t.len[x]]
    BY DEF OnTime
  <2> HIDE DEF B, M
  <2> QED BY <2>1, <2>2
<1>3. next = {p \in t.deps[h] : B[p] + t.len[p] + t.lag[h][p] = B[h]}
  <2>1. \A p \in t.deps[h] : p \in M
    BY <1>1 DEF Sound
  <2> HIDE DEF B, M
  <2> QED BY <1>1, <1>2, <2>1 DEF TightDeps
<1>4. \A p \in t.deps[h] : p \in M /\ p \notin ToSet(path) /\ rank[p] < rank[h]
  <2> SUFFICES ASSUME NEW p \in t.deps[h] PROVE p \in M /\ p \notin ToSet(path) /\ rank[p] < rank[h]
    OBVIOUS
  <2>1. p \in M /\ rank[p] < rank[h] /\ rank[p] \in Nat /\ rank[h] \in Nat
    BY <1>1 DEF Sound
  <2>2. \A x \in ToSet(path) : rank[h] <= rank[x]
    BY DEF Traced
  <2> QED BY <2>1, <2>2
<1>5. new = next
  BY <1>3, <1>4
<1>6. TraceTurn(t, es, ef, path) = IF new = {} THEN path ELSE <<Min(new)>> \o path
  BY <1>1 DEF TraceTurn
<1>7. ASSUME t.deps[h] = {} PROVE TraceTurn(t, es, ef, path) = path
  BY <1>3, <1>5, <1>6, <1>7
<1>8. ASSUME t.deps[h] # {}
      PROVE  /\ Traced(t, rank, end, TraceTurn(t, es, ef, path))
             /\ Len(TraceTurn(t, es, ef, path)) = Len(path) + 1
  <2>1. next # {}
    <3>1. PICK p \in t.deps[h] : B[h] = B[p] + t.len[p] + t.lag[h][p]
      BY <1>1, <1>8, BeforeTight
    <3> HIDE DEF next, B, h
    <3> QED BY <1>3, <3>1
  <2>2. IsFiniteSet(next) /\ next \subseteq Int
    <3>1. next \subseteq M
      BY <1>3, <1>4
    <3>2. IsFiniteSet(M) /\ M \subseteq Int
      BY SoundMembers
    <3> HIDE DEF next, M
    <3> QED BY <3>1, <3>2, FS_Subset
  <2> DEFINE m == Min(next)
             q == <<m>> \o path
             L == Len(path)
  <2>3. m \in next
    <3> HIDE DEF next
    <3> QED BY <2>1, <2>2, MinIs
  <2>4. /\ m \in t.deps[h] /\ B[m] + t.len[m] + t.lag[h][m] = B[h] /\ m \in M /\ m \notin ToSet(path)
        /\ rank[m] < rank[h]
    BY <1>3, <1>4, <2>3
  <2>5. TraceTurn(t, es, ef, path) = q
    BY <1>5, <1>6, <2>1
  <2> HIDE DEF m
  <2>6. <<m>> \in Seq(M) /\ Len(<<m>>) = 1 /\ <<m>>[1] = m /\ ToSet(<<m>>) = {m} /\ IsInjective(<<m>>)
    <3>1. DOMAIN <<m>> = {1}
      OBVIOUS
    <3>2. <<m>> \in Seq(M) /\ Len(<<m>>) = 1 /\ <<m>>[1] = m
      BY <2>4
    <3> QED BY <3>1, <3>2 DEF ToSet, IsInjective
  <2>7. /\ q \in Seq(M) /\ Len(q) = 1 + L
        /\ \A i \in 1 .. 1 + L : q[i] = IF i <= 1 THEN m ELSE path[i - 1]
        /\ ToSet(q) = {m} \cup ToSet(path) /\ IsInjective(q)
    <3> DEFINE e == <<m>>
    <3>0. e \in Seq(M) /\ Len(e) = 1 /\ e[1] = m /\ ToSet(e) = {m} /\ IsInjective(e)
      BY <2>6
    <3>00. path \in Seq(M) /\ IsInjective(path) /\ ToSet(e) \cap ToSet(path) = {}
      BY <1>1, <2>4, <3>0 DEF Traced
    <3> HIDE DEF e, M
    <3>1. e \o path \in Seq(M) /\ Len(e \o path) = Len(e) + Len(path)
          /\ \A i \in 1 .. Len(e) + Len(path) :
               (e \o path)[i] = IF i <= Len(e) THEN e[i] ELSE path[i - Len(e)]
      BY <3>0, <3>00, ConcatProperties
    <3>2. ToSet(e \o path) = ToSet(e) \cup ToSet(path) /\ IsInjective(e \o path)
      BY <3>0, <3>00, ConcatSet
    <3>3. q = e \o path
      BY DEF e
    <3> HIDE DEF q
    <3>4. \A i \in 1 .. 1 + L : i <= 1 => i = 1
      BY <1>1
    <3> QED BY <3>0, <3>1, <3>2, <3>3, <3>4
  <2> HIDE DEF q
  <2>8. q[1] = m /\ q[Len(q)] = end /\ q # <<>> /\ \A i \in 2 .. 1 + L : q[i] = path[i - 1]
    <3>1. path[Len(path)] = end
      BY DEF Traced
    <3>2. 1 \in 1 .. 1 + L /\ 1 + L \in 1 .. 1 + L /\ ~ (1 + L <= 1) /\ (1 + L) - 1 = Len(path)
      BY <1>1
    <3>3. \A i \in 2 .. 1 + L : i \in 1 .. 1 + L /\ ~ (i <= 1)
      BY <1>1
    <3>4. q[1] = m /\ q[Len(q)] = end
      BY <2>7, <3>1, <3>2
    <3>5. q # <<>>
      BY <2>7, <1>1
    <3> QED BY <2>7, <3>3, <3>4, <3>5
  <2>9. TightChain(t, q)
    <3> SUFFICES ASSUME NEW i \in 2 .. 1 + L
                 PROVE  /\ q[i - 1] \in t.deps[q[i]]
                        /\ B[q[i]] = B[q[i - 1]] + t.len[q[i - 1]] + t.lag[q[i]][q[i - 1]]
      BY <2>7 DEF TightChain
    <3>1. CASE i = 2
      <4>1. q[2] = h /\ q[1] = m /\ i - 1 = 1
        BY <2>8, <3>1
      <4> QED BY <2>4, <3>1, <4>1
    <3>2. CASE i # 2
      <4>1. i - 1 \in 2 .. L /\ i - 1 \in 2 .. 1 + L
        BY <1>1, <3>2
      <4>2. q[i] = path[i - 1] /\ q[i - 1] = path[(i - 1) - 1]
        BY <2>8, <4>1
      <4> QED BY <4>1, <4>2 DEF Traced, TightChain
    <3> QED BY <3>1, <3>2
  <2>10. ASSUME NEW x \in ToSet(q)
         PROVE  rank[q[1]] <= rank[x] /\ B[end] + t.len[end] <= B[x] + F[x]
    <3>1. \A z \in ToSet(path) : rank[h] <= rank[z] /\ B[end] + t.len[end] <= B[z] + F[z]
      BY DEF Traced
    <3>2. rank \in [M -> Nat]
      BY DEF Sound
    <3>3. CASE x = m
      <4>1. h \in Followers(t, m) /\ m \in M
        BY <1>1, <2>4 DEF Followers
      <4>2. t.len[m] + t.lag[h][m] + F[h] <= F[m]
        BY <4>1, FromEdge
      <4>3. t.len[m] \in Nat /\ t.lag[h][m] \in Nat /\ t.len[end] \in Nat
        BY <1>1, <2>4 DEF Sound
      <4>4. B[end] + t.len[end] <= B[h] + F[h]
        BY <1>1, <3>1
      <4>5. B[m] \in Nat /\ B[h] \in Nat /\ F[m] \in Nat /\ F[h] \in Nat /\ B[end] \in Nat
        BY <1>1, <1>2, <2>4
      <4> HIDE DEF B, F, h
      <4>6. B[end] + t.len[end] <= B[m] + F[m]
        BY <2>4, <4>2, <4>3, <4>4, <4>5
      <4>7. rank[m] <= rank[m]
        BY <2>4, <3>2
      <4> QED BY <2>8, <3>3, <4>6, <4>7
    <3>4. CASE x \in ToSet(path)
      <4>1. rank[m] <= rank[x]
        BY <1>1, <2>4, <3>1, <3>2, <3>4
      <4> QED BY <2>8, <3>1, <3>4, <4>1
    <3> QED BY <2>7, <3>3, <3>4
  <2>11. Traced(t, rank, end, q)
    BY <2>7, <2>8, <2>9, <2>10 DEF Traced
  <2>12. Len(q) = Len(path) + 1
    BY <1>1, <2>7
  <2> QED BY <2>5, <2>11, <2>12
<1> QED BY <1>7, <1>8

(* The trace back from a task is a tight chain that begins where nothing is waited for. *)
LEMMA TraceIs ==
  ASSUME NEW t, NEW rank, Sound(t, rank), NEW end \in Members(t),
         NEW es, NEW ef, OnTime(t, es, ef)
  PROVE  /\ Traced(t, rank, end, TraceBack(t, es, ef, end))
         /\ t.deps[TraceBack(t, es, ef, end)[1]] = {}
<1>01. Len(t.ids) \in Nat
  BY SoundMembers
<1>02. PICK back : /\ TraceSteps(t, es, ef, end, back)
                  /\ TraceBack(t, es, ef, end) = back[Len(t.ids)]
  BY <1>01, TraceUnfolds
<1> DEFINE M == Members(t)
           N == Len(t.ids)
           path == TraceBack(t, es, ef, end)
<1>0. N \in Nat \ {0} /\ IsFiniteSet(M) /\ Cardinality(M) = N
  <2>1. N \in Nat /\ IsFiniteSet(M) /\ Cardinality(M) = N
    BY SoundMembers
  <2>2. N # 0
    BY <2>1, FS_EmptySet
  <2> QED BY <2>1, <2>2
<1>1. TraceSteps(t, es, ef, end, back) /\ path = back[N]
  BY <1>02
<1>2. back[1] = <<end>> /\ \A n \in 2 .. N : back[n] = TraceTurn(t, es, ef, back[n - 1])
  <2> DEFINE first == <<end>>
             Step(s) == TraceTurn(t, es, ef, s)
  <2>1. back = [n \in 1 .. N |-> IF n = 1 THEN first ELSE Step(back[n - 1])]
    BY <1>1, Zenon DEF TraceSteps
  <2> HIDE DEF first, Step, N
  <2>2. back[1] = first /\ \A n \in 2 .. N : back[n] = Step(back[n - 1])
    BY <1>0, <2>1
  <2> QED BY <2>2 DEF first, Step
<1> HIDE DEF N, path
<1> DEFINE Good(n) == Traced(t, rank, end, back[n]) /\ (Len(back[n]) = n \/ t.deps[back[n][1]] = {})
           G == {k \in Nat : k + 1 <= N => Good(k + 1)}
<1>3. 0 \in G
  <2> DEFINE p == <<end>>
  <2>1. p \in Seq(M) /\ Len(p) = 1 /\ p[1] = end /\ p # <<>> /\ DOMAIN p = {1}
    OBVIOUS
  <2>2. ToSet(p) = {end} /\ IsInjective(p)
    BY <2>1 DEF ToSet, IsInjective
  <2>3. /\ LongestBefore(t)[end] + t.len[end] <= LongestBefore(t)[end] + LongestFrom(t)[end]
        /\ rank[end] <= rank[end]
    <3>1. LongestFrom(t)[end] >= t.len[end] /\ t.len[end] \in Nat /\ rank[end] \in Nat
      BY FromTight DEF Sound
    <3>2. LongestBefore(t)[end] \in Nat /\ LongestFrom(t)[end] \in Nat
      BY BeforeIs, FromIs
    <3> QED BY <3>1, <3>2
  <2>4. TightChain(t, p)
    BY <2>1 DEF TightChain
  <2> HIDE DEF p
  <2>5. Traced(t, rank, end, p) /\ Len(p) = 1
    BY <2>1, <2>2, <2>3, <2>4 DEF Traced
  <2>6. back[1] = p
    BY <1>2 DEF p
  <2> QED BY <2>5, <2>6
<1>4. ASSUME NEW k \in Nat, k \in G PROVE k + 1 \in G
  <2> SUFFICES ASSUME (k + 1) + 1 <= N PROVE Good((k + 1) + 1)
    OBVIOUS
  <2>1. (k + 1) + 1 \in 2 .. N /\ ((k + 1) + 1) - 1 = k + 1 /\ k + 1 <= N
    BY <1>0
  <2>2. back[(k + 1) + 1] = TraceTurn(t, es, ef, back[k + 1]) /\ Good(k + 1)
    BY <1>2, <1>4, <2>1
  <2> DEFINE p == back[k + 1]
  <2>3. Traced(t, rank, end, p) /\ (Len(p) = k + 1 \/ t.deps[p[1]] = {})
    BY <2>2
  <2> HIDE DEF p
  <2>4. CASE t.deps[p[1]] = {}
    <3>1. TraceTurn(t, es, ef, p) = p
      BY <2>3, <2>4, TraceTurnKeeps
    <3> QED BY <2>2, <2>3, <2>4, <3>1 DEF p
  <2>5. CASE t.deps[p[1]] # {}
    <3>1. Traced(t, rank, end, TraceTurn(t, es, ef, p)) /\ Len(TraceTurn(t, es, ef, p)) = Len(p) + 1
      BY <2>3, <2>5, TraceTurnKeeps
    <3> QED BY <2>2, <2>3, <2>5, <3>1 DEF p
  <2> QED BY <2>4, <2>5
<1>5. Good(N)
  <2>1. N - 1 \in Nat /\ (N - 1) + 1 = N
    BY <1>0
  <2>2. Nat \subseteq G
    <3> HIDE DEF G
    <3> QED BY <1>3, <1>4, Upward
  <2>3. N - 1 \in G
    BY <2>1, <2>2
  <2> QED BY <2>1, <2>3
<1>6. Traced(t, rank, end, path) /\ (Len(path) = N \/ t.deps[path[1]] = {})
  BY <1>1, <1>5
<1>7. ASSUME Len(path) = N PROVE t.deps[path[1]] = {}
  <2>1. path \in Seq(M) /\ IsInjective(path) /\ path # <<>>
    BY <1>6 DEF Traced
  <2>2. ToSet(path) \subseteq M /\ Cardinality(ToSet(path)) = N /\ IsFiniteSet(ToSet(path))
    BY <1>7, <2>1, DistinctCount, FiniteSeqSet
  <2>3. ToSet(path) = M
    BY <1>0, <2>2, FS_Subset
  <2>4. path[1] \in M
    BY <2>1
  <2>5. \A p \in t.deps[path[1]] : p \in M /\ rank[p] < rank[path[1]] /\ rank[p] \in Nat
                                   /\ rank[path[1]] \in Nat
    BY <2>4 DEF Sound
  <2>6. \A x \in M : rank[path[1]] <= rank[x]
    BY <1>6, <2>3 DEF Traced
  <2>7. \A p \in t.deps[path[1]] : FALSE
    BY <2>5, <2>6
  <2> QED BY <2>7
<1> QED BY <1>6, <1>7 DEF path

-----------------------------------------------------------------------------
(* Its hours *)

(* What the n-th link adds to the hours of a chain. *)
Link(t, path, n, hours) ==
    hours + t.len[path[n]] + IF n = 1 THEN 0 ELSE t.lag[path[n]][path[n - 1]]

ChainSteps(t, path, upTo) ==
    upTo = [n \in 0 .. Len(path) |-> IF n = 0 THEN 0 ELSE Link(t, path, n, upTo[n - 1])]

(* The sum along a chain takes one step after the other. *)
LEMMA ChainUnfolds ==
  ASSUME NEW t, NEW path, Len(path) \in Nat
  PROVE  \E upTo : ChainSteps(t, path, upTo) /\ ChainHours(t, path) = upTo[Len(path)]
<1> DEFINE Step(n, v) == Link(t, path, n, v)
           Is(f, k) == f = [n \in 0 .. k |-> IF n = 0 THEN 0 ELSE Step(n, f[n - 1])]
           G == {k \in Nat : \E f : Is(f, k)}
<1>1. 0 \in G
  <2>1. Is([n \in 0 .. 0 |-> 0], 0)
    <3> HIDE DEF Step
    <3> QED OBVIOUS
  <2> QED BY <2>1
<1>2. ASSUME NEW k \in Nat, k \in G PROVE k + 1 \in G
  <2> HIDE DEF Step
  <2>1. PICK f : Is(f, k)
    BY <1>2
  <2> DEFINE h == [n \in 0 .. k + 1 |-> IF n = k + 1 THEN Step(n, f[k]) ELSE f[n]]
  <2>2. Is(h, k + 1)
    BY <2>1
  <2> HIDE DEF h, Is
  <2> QED BY <2>2
<1>3. PICK f : Is(f, Len(path))
  <2> HIDE DEF Is
  <2>1. Len(path) \in G
    <3> HIDE DEF G
    <3> QED BY <1>1, <1>2, Upward
  <2> QED BY <2>1
<1> DEFINE upTo[n \in 0 .. Len(path)] ==
             IF n = 0 THEN 0
             ELSE upTo[n - 1] + t.len[path[n]] + IF n = 1 THEN 0 ELSE t.lag[path[n]][path[n - 1]]
<1>4. upTo = [n \in 0 .. Len(path) |-> IF n = 0 THEN 0 ELSE Link(t, path, n, upTo[n - 1])]
  BY <1>3, Zenon DEF Link
<1>5. ChainHours(t, path) = upTo[Len(path)]
  BY Zenon DEF ChainHours
<1> HIDE DEF upTo
<1> QED BY <1>4, <1>5 DEF ChainSteps

(* The lengths and lags of a tight chain from the start add up to the finish of its
   last task. *)
LEMMA TightChainAddsUp ==
  ASSUME NEW t, NEW rank, Sound(t, rank), NEW path \in Seq(Members(t)), path # <<>>,
         TightChain(t, path), t.deps[path[1]] = {}
  PROVE  ChainHours(t, path) = LongestBefore(t)[path[Len(path)]] + t.len[path[Len(path)]]
<1>1. Len(path) \in Nat \ {0} /\ Len(path) \in Nat
  BY EmptySeq, LenProperties
<1>2. PICK upTo : ChainSteps(t, path, upTo) /\ ChainHours(t, path) = upTo[Len(path)]
  BY <1>1, ChainUnfolds
<1> DEFINE B == LongestBefore(t)
           N == Len(path)
           M == Members(t)
           G == {k \in Nat : k + 1 <= N => upTo[k + 1] = B[path[k + 1]] + t.len[path[k + 1]]}
<1>3. upTo[0] = 0 /\ \A n \in 1 .. N : upTo[n] = Link(t, path, n, upTo[n - 1])
  <2> DEFINE Step(n, v) == Link(t, path, n, v)
  <2>1. upTo = [n \in 0 .. N |-> IF n = 0 THEN 0 ELSE Step(n, upTo[n - 1])]
    BY <1>2, Zenon DEF ChainSteps
  <2> HIDE DEF Step, N
  <2>2. upTo[0] = 0 /\ \A n \in 1 .. N : upTo[n] = Step(n, upTo[n - 1])
    BY <1>1, <2>1 DEF N
  <2> QED BY <2>2 DEF Step
<1>4. \A i \in 1 .. N : path[i] \in M
  BY <1>1
<1>5. \A x \in M : B[x] \in Nat /\ t.len[x] \in Nat
  BY BeforeIs DEF Sound
<1>6. \A i \in 2 .. N : /\ path[i - 1] \in t.deps[path[i]]
                        /\ B[path[i]] = B[path[i - 1]] + t.len[path[i - 1]] + t.lag[path[i]][path[i - 1]]
  BY DEF TightChain
<1>7. B[path[1]] = 0
  <2>1. path[1] \in M
    BY <1>1, <1>4
  <2> QED BY <2>1, BeforeTight
<1> HIDE DEF B, N, M
<1>8. 0 \in G
  <2>1. 1 \in 1 .. N /\ path[1] \in M
    BY <1>1, <1>4 DEF N
  <2>2. upTo[1] = 0 + t.len[path[1]] + 0
    BY <1>3, <2>1 DEF Link
  <2>3. upTo[1] = B[path[1]] + t.len[path[1]]
    BY <1>5, <1>7, <2>1, <2>2
  <2> QED BY <2>3
<1>9. ASSUME NEW k \in Nat, k \in G PROVE k + 1 \in G
  <2> SUFFICES ASSUME (k + 1) + 1 <= N
               PROVE  upTo[(k + 1) + 1] = B[path[(k + 1) + 1]] + t.len[path[(k + 1) + 1]]
    OBVIOUS
  <2> DEFINE i == (k + 1) + 1
  <2>1. i \in 1 .. N /\ i \in 2 .. N /\ i - 1 = k + 1 /\ i # 1 /\ k + 1 \in 1 .. N
    BY <1>1 DEF N
  <2> HIDE DEF i
  <2>2. upTo[k + 1] = B[path[k + 1]] + t.len[path[k + 1]]
    BY <1>9, <2>1
  <2>3. upTo[i] = upTo[k + 1] + t.len[path[i]] + t.lag[path[i]][path[k + 1]]
    BY <1>3, <2>1 DEF Link
  <2>4. path[i] \in M /\ path[k + 1] \in M /\ path[k + 1] \in t.deps[path[i]]
        /\ B[path[i]] = B[path[k + 1]] + t.len[path[k + 1]] + t.lag[path[i]][path[k + 1]]
    BY <1>4, <1>6, <2>1
  <2>5. t.lag[path[i]][path[k + 1]] \in Nat
    BY <2>4 DEF Sound, M
  <2>6. upTo[i] = B[path[i]] + t.len[path[i]]
    BY <1>5, <2>2, <2>3, <2>4, <2>5
  <2> QED BY <2>6 DEF i
<1>10. Nat \subseteq G
  <2> HIDE DEF G
  <2> QED BY <1>8, <1>9, Upward
<1>11. N - 1 \in Nat /\ (N - 1) + 1 = N
  BY <1>1 DEF N
<1>12. upTo[N] = B[path[N]] + t.len[path[N]]
  BY <1>10, <1>11
<1> QED BY <1>2, <1>12 DEF B, N

(* The trace from any task of the exact schedule is a chain of prerequisites from the
   start, and takes all the hours until that task is done. *)
THEOREM MilestoneRowIs ==
  ASSUME NEW t, NEW rank, Sound(t, rank), Bounded(t), NEW end \in Members(t),
         NEW es, NEW ef, OnTime(t, es, ef), NEW path, path = TraceBack(t, es, ef, end)
  PROVE  /\ path \in Seq(Members(t)) /\ path # <<>>
         /\ Head(path) = START /\ Last(path) = end
         /\ IsChain(t, path) /\ ChainHours(t, path) = ef[end]
<1>1. Traced(t, rank, end, path) /\ t.deps[path[1]] = {}
  BY TraceIs
<1>2. path \in Seq(Members(t)) /\ path # <<>> /\ TightChain(t, path) /\ path[Len(path)] = end
  BY <1>1 DEF Traced
<1>3. Head(path) = path[1] /\ path[1] \in Members(t)
  <2>1. Len(path) \in Nat \ {0}
    BY <1>2, EmptySeq, LenProperties
  <2> QED BY <1>2, <2>1
<1>4. path[1] = START
  BY <1>1, <1>3 DEF Bounded
<1>5. IsChain(t, path)
  BY <1>2 DEF IsChain, TightChain
<1>6. ChainHours(t, path) = LongestBefore(t)[end] + t.len[end]
  BY <1>1, <1>2, TightChainAddsUp
<1>7. ef[end] = LongestBefore(t)[end] + t.len[end]
  <2> DEFINE B == LongestBefore(t)
  <2>1. ef = [x \in Members(t) |-> B[x] + t.len[x]]
    BY DEF OnTime
  <2> HIDE DEF B
  <2>2. ef[end] = B[end] + t.len[end]
    BY <2>1
  <2> QED BY <2>2 DEF B
<1> QED BY <1>2, <1>3, <1>4, <1>5, <1>6, <1>7 DEF Last

(* The task the trace starts from ends with the project. *)
LEMMA LastTaskIs ==
  ASSUME NEW t, NEW rank, Sound(t, rank), Bounded(t), NEW es, NEW ef, OnTime(t, es, ef),
         ProjectLength(t, ef) = LongestBefore(t)[FINISH]
  PROVE  /\ LastTask(t, es, ef) \in Members(t)
         /\ ef[LastTask(t, es, ef)] = LongestBefore(t)[FINISH]
<1> DEFINE B == LongestBefore(t)
           M == Members(t)
           last == {x \in M : ef[x] = ProjectLength(t, ef)}
           starts == {es[x] : x \in last}
           S == {x \in last : \A y \in last : es[x] >= es[y]}
<1>1. es = [x \in M |-> B[x]] /\ ef = [x \in M |-> B[x] + t.len[x]]
  BY DEF OnTime
<1>2. FINISH \in M /\ t.len[FINISH] = 0 /\ IsFiniteSet(M) /\ M \subseteq Int
  BY SoundMembers DEF Bounded
<1>3. \A x \in M : B[x] \in Nat
  BY BeforeIs
<1> HIDE DEF B, M
<1>4. \A x \in M : es[x] = B[x] /\ ef[x] = B[x] + t.len[x] /\ es[x] \in Nat
  BY <1>1, <1>3
<1>5. FINISH \in last
  BY <1>2, <1>3, <1>4 DEF B
<1>6. IsFiniteSet(last) /\ last \subseteq M
  BY <1>2, FS_Subset
<1> HIDE DEF last
<1>7. PICK m \in starts : \A k \in starts : m >= k
  <2>1. IsFiniteSet(starts)
    BY <1>6, FiniteImage
  <2>2. starts \subseteq Int /\ starts # {}
    BY <1>4, <1>5, <1>6
  <2> HIDE DEF starts
  <2> QED BY <2>1, <2>2, FiniteHasMax
<1>8. PICK x \in last : es[x] = m
  BY <1>7
<1>9. x \in S
  BY <1>7, <1>8
<1>10. IsFiniteSet(S) /\ S \subseteq Int
  <2>1. S \subseteq last
    OBVIOUS
  <2> HIDE DEF S
  <2> QED BY <1>2, <1>6, <2>1, FS_Subset
<1>11. Min(S) \in S
  <2> HIDE DEF S
  <2> QED BY <1>9, <1>10, MinIs
<1>12. LastTask(t, es, ef) = Min(S)
  BY DEF LastTask, last, M
<1>13. Min(S) \in last
  BY <1>11
<1>14. Min(S) \in M /\ ef[Min(S)] = ProjectLength(t, ef)
  <2> HIDE DEF S
  <2> QED BY <1>13 DEF last
<1> HIDE DEF S
<1> QED BY <1>12, <1>14 DEF M

(* The critical path. *)
THEOREM PathIs ==
  ASSUME NEW t, NEW rank, Sound(t, rank), Bounded(t), InRange(t)
  PROVE  LET c == Calculate(t)
         IN  /\ OnTime(t, c.es, c.ef)
             /\ Head(c.path) = START /\ IsChain(t, c.path)
             /\ ToSet(c.path) \subseteq c.critical
             /\ ChainHours(t, c.path) = c.length
<1> DEFINE c == Calculate(t)
           B == LongestBefore(t)
           F == LongestFrom(t)
           M == Members(t)
<1>1. OnTime(t, c.es, c.ef) /\ c.length = B[FINISH]
      /\ c.critical = {x \in M : B[x] + F[x] = B[FINISH]}
  BY CalculateIs DEF OnTime
<1>2. ProjectLength(t, c.ef) = B[FINISH] /\ c.es = ForwardPass(t).es /\ c.ef = ForwardPass(t).ef
  <2>1. c.es = ForwardPass(t).es /\ c.ef = ForwardPass(t).ef
    BY DEF Calculate
  <2> QED BY <2>1, LengthIs
<1> DEFINE end == LastTask(t, c.es, c.ef)
<1>3. c.path = TraceBack(t, c.es, c.ef, end)
  BY <1>2 DEF Calculate
<1> HIDE DEF c
<1>4. end \in M /\ c.ef[end] = B[FINISH]
  BY <1>1, <1>2, LastTaskIs
<1> HIDE DEF end
<1>5. Head(c.path) = START /\ IsChain(t, c.path) /\ ChainHours(t, c.path) = c.ef[end]
  BY <1>1, <1>3, <1>4, MilestoneRowIs
<1>6. Traced(t, rank, end, c.path)
  BY <1>1, <1>3, <1>4, TraceIs
<1>7. B[end] + t.len[end] = B[FINISH]
  <2>1. c.ef = [x \in M |-> B[x] + t.len[x]]
    BY <1>1 DEF OnTime
  <2> HIDE DEF B, M
  <2>2. c.ef[end] = B[end] + t.len[end]
    BY <1>4, <2>1
  <2> QED BY <1>4, <2>2
<1>8. ASSUME NEW x \in ToSet(c.path) PROVE x \in c.critical
  <2>1. x \in M
    BY <1>6, FiniteSeqSet DEF Traced
  <2>2. B[end] + t.len[end] <= B[x] + F[x]
    BY <1>6 DEF Traced
  <2>3. B[x] + F[x] <= B[FINISH]
    BY <2>1, ChainsFit
  <2>4. B[x] \in Nat /\ F[x] \in Nat /\ B[FINISH] \in Nat
    BY <2>1, BeforeIs, FromIs, LengthIs
  <2> HIDE DEF B, F
  <2>5. B[x] + F[x] = B[FINISH]
    BY <1>7, <2>2, <2>3, <2>4
  <2> QED BY <1>1, <2>1, <2>5
<1> QED BY <1>1, <1>4, <1>5, <1>8 DEF c

-----------------------------------------------------------------------------
(* Claims *)

(* A graph as the scheduler sees it: rank grows along the dependencies, and no work
   claims more units of a pool than there are. *)
Levelable(n, caps, rank) ==
    /\ Len(n) \in Nat /\ DOMAIN n = 1 .. Len(n)
    /\ rank \in [DOMAIN n -> Nat]
    /\ \A i \in DOMAIN n :
          /\ n[i].len \in Nat /\ n[i].id \in Int
          /\ DOMAIN n[i].preds \subseteq DOMAIN n
          /\ \A p \in DOMAIN n[i].preds : n[i].preds[p] \in Nat /\ rank[p] < rank[i]
          /\ IsFiniteSet(DOMAIN n[i].claims)
          /\ \A r \in DOMAIN n[i].claims : n[i].claims[r] \in Nat \ {0}
    /\ \A i, j \in DOMAIN n : n[i].id = n[j].id => i = j
    /\ \A r \in WorkPools(n) : Capacity(caps, r) \in Nat
    /\ \A i \in Work(n) : \A r \in DOMAIN n[i].claims : n[i].claims[r] <= Capacity(caps, r)

(* What the lemmas on tasks ask of a network holds of the nodes. *)
LEMMA AsTasksSound ==
  ASSUME NEW n, NEW caps, NEW rank, Levelable(n, caps, rank)
  PROVE  Sound(AsTasks(n), rank) /\ Members(AsTasks(n)) = DOMAIN n
<1> DEFINE t == AsTasks(n)
           D == DOMAIN n
<1>1. Len(n) \in Nat /\ D = 1 .. Len(n)
  BY DEF Levelable
<1>2. /\ t.ids = [i \in D |-> i] /\ t.len = [i \in D |-> n[i].len]
      /\ t.deps = [i \in D |-> DOMAIN n[i].preds] /\ t.lag = [i \in D |-> n[i].preds]
  BY DEF AsTasks
<1> DEFINE N == Len(n)
<1>3. t.ids \in Seq(Int) /\ DOMAIN t.ids = D /\ \A i \in D : t.ids[i] = i
  <2>1. t.ids \in [1 .. N -> Int]
    BY <1>1, <1>2
  <2> HIDE DEF t, N, D
  <2>2. t.ids \in UNION {[1 .. k -> Int] : k \in Nat}
    BY <1>1, <2>1 DEF N
  <2> QED BY <1>2, <2>2, SeqDef
<1>4. Members(t) = D
  BY <1>3 DEF Members, ToSet
<1>5. IsInjective(t.ids)
  BY <1>3 DEF IsInjective
<1>6. \A i \in D : DOMAIN n[i].preds \subseteq D /\ n[i].len \in Nat
  BY DEF Levelable
<1>7. t.deps \in [D -> SUBSET D] /\ t.len \in [D -> Nat]
  BY <1>2, <1>6
<1>8. rank \in [D -> Nat]
  BY DEF Levelable
<1>9. \A i \in D : \A p \in t.deps[i] : t.lag[i][p] \in Nat /\ rank[p] < rank[i]
  BY <1>2 DEF Levelable
<1> HIDE DEF t, D
<1> QED BY <1>3, <1>4, <1>5, <1>7, <1>8, <1>9 DEF Sound, t, D

(* The tails are numbers. *)
LEMMA TailsAre ==
  ASSUME NEW n, NEW caps, NEW rank, Levelable(n, caps, rank)
  PROVE  Tails(n) \in [DOMAIN n -> Nat]
  BY AsTasksSound, FromIs DEF Tails

-----------------------------------------------------------------------------
(* The units that are claimed together. *)

(* What the k-th node adds to the sum. *)
Added(n, S, r, k) == IF k \in S /\ r \in DOMAIN n[k].claims THEN n[k].claims[r] ELSE 0

(* The sum of claims takes one step after the other. *)
LEMMA ClaimedUnfolds ==
  ASSUME NEW n, NEW S, NEW r, Len(n) \in Nat
  PROVE  \E upTo : /\ Claimed(n, S, r) = upTo[Len(n)] /\ upTo[0] = 0
                   /\ \A k \in 1 .. Len(n) : upTo[k] = upTo[k - 1] + Added(n, S, r, k)
<1> DEFINE Add(k) == IF k \in S /\ r \in DOMAIN n[k].claims THEN n[k].claims[r] ELSE 0
           Is(f, m) == f = [k \in 0 .. m |-> IF k = 0 THEN 0 ELSE f[k - 1] + Add(k)]
           G == {m \in Nat : \E f : Is(f, m)}
<1>1. 0 \in G
  <2>1. Is([k \in 0 .. 0 |-> 0], 0)
    <3> HIDE DEF Add
    <3> QED OBVIOUS
  <2> QED BY <2>1
<1>2. ASSUME NEW m \in Nat, m \in G PROVE m + 1 \in G
  <2> HIDE DEF Add
  <2>1. PICK f : Is(f, m)
    BY <1>2
  <2> DEFINE h == [k \in 0 .. m + 1 |-> IF k = m + 1 THEN f[m] + Add(m + 1) ELSE f[k]]
  <2>2. Is(h, m + 1)
    BY <2>1
  <2> HIDE DEF h, Is
  <2> QED BY <2>2
<1>3. PICK f : Is(f, Len(n))
  <2> HIDE DEF Is
  <2>1. Len(n) \in G
    <3> HIDE DEF G
    <3> QED BY <1>1, <1>2, Upward
  <2> QED BY <2>1
<1> DEFINE upTo[k \in 0 .. Len(n)] ==
             IF k = 0 THEN 0
             ELSE upTo[k - 1] + IF k \in S /\ r \in DOMAIN n[k].claims THEN n[k].claims[r] ELSE 0
<1>4. upTo = [k \in 0 .. Len(n) |->
                IF k = 0 THEN 0
                ELSE upTo[k - 1] + IF k \in S /\ r \in DOMAIN n[k].claims THEN n[k].claims[r] ELSE 0]
  BY <1>3, Zenon
<1>5. Claimed(n, S, r) = upTo[Len(n)]
  BY Zenon DEF Claimed
<1> HIDE DEF upTo
<1>6. upTo[0] = 0 /\ \A k \in 1 .. Len(n) : upTo[k] = upTo[k - 1] + Add(k)
  <2>1. upTo = [k \in 0 .. Len(n) |-> IF k = 0 THEN 0 ELSE upTo[k - 1] + Add(k)]
    BY <1>4, Zenon DEF Add
  <2> HIDE DEF Add
  <2> QED BY <2>1
<1> QED BY <1>5, <1>6 DEF Added

(* They are a number, no smaller than what any one of the nodes claims. *)
LEMMA ClaimedIs ==
  ASSUME NEW n, NEW caps, NEW rank, Levelable(n, caps, rank), NEW S, NEW r
  PROVE  /\ Claimed(n, S, r) \in Nat
         /\ \A i \in S \cap DOMAIN n : r \in DOMAIN n[i].claims => n[i].claims[r] <= Claimed(n, S, r)
<1> DEFINE Add(k) == Added(n, S, r, k)
           N == Len(n)
<1>0. N \in Nat /\ DOMAIN n = 1 .. N
  BY DEF Levelable
<1>1. PICK upTo : /\ Claimed(n, S, r) = upTo[N] /\ upTo[0] = 0
                  /\ \A k \in 1 .. N : upTo[k] = upTo[k - 1] + Add(k)
  BY <1>0, ClaimedUnfolds
<1>2. \A k \in 1 .. N : Add(k) \in Nat
  BY <1>0 DEF Levelable, Added
<1>3. \A i \in S \cap DOMAIN n : r \in DOMAIN n[i].claims => n[i].claims[r] = Add(i)
  BY DEF Added
<1> HIDE DEF Add, N
<1> DEFINE G == {k \in Nat : k <= N => upTo[k] \in Nat /\ \A i \in 1 .. k : Add(i) <= upTo[k]}
<1>4. 0 \in G
  BY <1>0, <1>1
<1>5. ASSUME NEW k \in Nat, k \in G PROVE k + 1 \in G
  <2> SUFFICES ASSUME k + 1 <= N
               PROVE  upTo[k + 1] \in Nat /\ \A i \in 1 .. k + 1 : Add(i) <= upTo[k + 1]
    OBVIOUS
  <2>1. upTo[k] \in Nat /\ \A i \in 1 .. k : Add(i) <= upTo[k]
    BY <1>0, <1>5
  <2>2. upTo[k + 1] = upTo[k] + Add(k + 1) /\ Add(k + 1) \in Nat
    BY <1>0, <1>1, <1>2
  <2>3. \A i \in 1 .. k : Add(i) \in Nat /\ i \in 1 .. N
    BY <1>0, <1>2
  <2>4. \A i \in 1 .. k + 1 : i \in 1 .. k \/ i = k + 1
    OBVIOUS
  <2> QED BY <2>1, <2>2, <2>3, <2>4
<1>6. N \in G
  <2> HIDE DEF G
  <2> QED BY <1>0, <1>4, <1>5, Upward
<1> QED BY <1>0, <1>1, <1>3, <1>6

(* When everyone in S has as many units of its own as it claims, the claims fit. *)
LEMMA ClaimsFit ==
  ASSUME NEW n, NEW caps, NEW rank, Levelable(n, caps, rank), NEW S, NEW r, NEW hold, NEW U,
         IsFiniteSet(U),
         \A i \in S \cap DOMAIN n : r \in DOMAIN n[i].claims =>
            hold[i] \subseteq U /\ Cardinality(hold[i]) = n[i].claims[r],
         \A i, j \in S \cap DOMAIN n :
            (i # j /\ r \in DOMAIN n[i].claims /\ r \in DOMAIN n[j].claims) => hold[i] \cap hold[j] = {}
  PROVE  Claimed(n, S, r) <= Cardinality(U)
<1> DEFINE Add(k) == Added(n, S, r, k)
           Has(k) == IF k \in S /\ r \in DOMAIN n[k].claims THEN hold[k] ELSE {}
           N == Len(n)
<1>0. N \in Nat /\ DOMAIN n = 1 .. N
  BY DEF Levelable
<1>1. PICK upTo : /\ Claimed(n, S, r) = upTo[N] /\ upTo[0] = 0
                  /\ \A k \in 1 .. N : upTo[k] = upTo[k - 1] + Add(k)
  BY <1>0, ClaimedUnfolds
<1>2. \A k \in 1 .. N : Has(k) \subseteq U /\ Cardinality(Has(k)) = Add(k)
  BY <1>0, FS_EmptySet DEF Added
<1>3. \A i, j \in 1 .. N : i # j => Has(i) \cap Has(j) = {}
  BY <1>0
<1>4. \A k \in 1 .. N : IsFiniteSet(Has(k))
  BY <1>2, FS_Subset
<1> HIDE DEF Add, N, Has
<1> DEFINE All(k) == UNION {Has(i) : i \in 1 .. k}
           G == {k \in Nat : k <= N => All(k) \subseteq U /\ Cardinality(All(k)) = upTo[k]}
<1>5. 0 \in G
  <2>1. All(0) = {}
    OBVIOUS
  <2> QED BY <1>1, <2>1, FS_EmptySet
<1>6. ASSUME NEW k \in Nat, k \in G PROVE k + 1 \in G
  <2> SUFFICES ASSUME k + 1 <= N
               PROVE  All(k + 1) \subseteq U /\ Cardinality(All(k + 1)) = upTo[k + 1]
    OBVIOUS
  <2>1. All(k) \subseteq U /\ Cardinality(All(k)) = upTo[k]
    BY <1>0, <1>6
  <2>2. k + 1 \in 1 .. N /\ upTo[k + 1] = upTo[k] + Add(k + 1)
    BY <1>0, <1>1
  <2>3. All(k + 1) = All(k) \cup Has(k + 1)
    <3>1. \A i \in 1 .. k + 1 : i \in 1 .. k \/ i = k + 1
      OBVIOUS
    <3>2. \A i \in 1 .. k : i \in 1 .. k + 1
      OBVIOUS
    <3>3. k + 1 \in 1 .. k + 1
      OBVIOUS
    <3> QED BY <3>1, <3>2, <3>3
  <2>4. All(k) \cap Has(k + 1) = {}
    <3>1. \A i \in 1 .. k : i \in 1 .. N /\ i # k + 1
      BY <1>0
    <3> QED BY <1>3, <2>2, <3>1
  <2>5. IsFiniteSet(All(k)) /\ IsFiniteSet(Has(k + 1)) /\ Has(k + 1) \subseteq U
    BY <1>2, <1>4, <2>1, <2>2, FS_Subset
  <2> DEFINE A == All(k)
             B == Has(k + 1)
  <2>6. IsFiniteSet(A) /\ IsFiniteSet(B) /\ A \cap B = {} /\ All(k + 1) = A \cup B
        /\ Cardinality(A) = upTo[k] /\ Cardinality(B) = Add(k + 1) /\ A \subseteq U /\ B \subseteq U
    BY <1>2, <2>1, <2>2, <2>3, <2>4, <2>5
  <2> HIDE DEF A, B, All
  <2>7. Cardinality(A \cup B) = Cardinality(A) + Cardinality(B) - Cardinality(A \cap B)
    BY <2>6, FS_Union
  <2>8. Cardinality(A \cap B) = 0 /\ Cardinality(A) \in Nat /\ Cardinality(B) \in Nat
    BY <2>6, FS_EmptySet, FS_CardinalityType
  <2>9. All(k + 1) \subseteq U /\ Cardinality(All(k + 1)) = Cardinality(A \cup B)
    BY <2>6, Zenon
  <2>10. Cardinality(A \cup B) = upTo[k + 1]
    BY <2>2, <2>6, <2>7, <2>8
  <2> QED BY <2>9, <2>10
<1>7. N \in G
  <2> HIDE DEF G
  <2> QED BY <1>0, <1>5, <1>6, Upward
<1>8. All(N) \subseteq U /\ Cardinality(All(N)) = upTo[N]
  BY <1>0, <1>7
<1> HIDE DEF All
<1>9. Cardinality(All(N)) <= Cardinality(U)
  BY <1>8, FS_Subset
<1> QED BY <1>1, <1>8, <1>9

-----------------------------------------------------------------------------
(* Units of a pool *)

(* A pool has no more units than its capacity, and enough for each of its claims. *)
LEMMA UnitsAre ==
  ASSUME NEW n, NEW caps, NEW rank, Levelable(n, caps, rank), NEW r \in WorkPools(n)
  PROVE  /\ IsFiniteSet(Units(n, caps, r)) /\ Cardinality(Units(n, caps, r)) \in Nat
         /\ Cardinality(Units(n, caps, r)) <= Capacity(caps, r)
         /\ \A i \in Work(n) : r \in DOMAIN n[i].claims => n[i].claims[r] <= Cardinality(Units(n, caps, r))
         /\ \/ Cardinality(Units(n, caps, r)) = Capacity(caps, r)
            \/ Cardinality(Units(n, caps, r)) = Claimed(n, Work(n), r)
<1> DEFINE c == Capacity(caps, r)
           w == Claimed(n, Work(n), r)
           m == Min({c, w})
<1>1. c \in Nat /\ w \in Nat
  BY ClaimedIs DEF Levelable
<1>2. \A i \in Work(n) : r \in DOMAIN n[i].claims => n[i].claims[r] <= c /\ n[i].claims[r] <= w
  <2>1. \A i \in Work(n) : i \in DOMAIN n
    BY DEF Work
  <2>2. \A i \in Work(n) : r \in DOMAIN n[i].claims => n[i].claims[r] <= w
    BY <2>1, ClaimedIs
  <2> QED BY <2>2 DEF Levelable
<1> HIDE DEF c, w
<1>3. m \in {c, w} /\ m <= c
  <2>1. CASE c <= w
    <3>1. m = c
      BY <1>1, <2>1, MinUnique
    <3> QED BY <1>1, <3>1
  <2>2. CASE w < c
    <3>1. m = w
      BY <1>1, <2>2, MinUnique
    <3> QED BY <1>1, <2>2, <3>1
  <2> QED BY <1>1, <2>1, <2>2
<1> HIDE DEF m
<1>4. m \in Nat
  BY <1>1, <1>3
<1>5. Units(n, caps, r) = 1 .. m
  BY DEF Units, m, c, w
<1>6. IsFiniteSet(1 .. m) /\ Cardinality(1 .. m) = m
  <2>1. 1 \in Int /\ m \in Int
    BY <1>4
  <2>2. IsFiniteSet(1 .. m) /\ Cardinality(1 .. m) = IF 1 > m THEN 0 ELSE m - 1 + 1
    BY <2>1, FS_Interval
  <2> QED BY <1>4, <2>2
<1>7. \A i \in Work(n) : r \in DOMAIN n[i].claims => n[i].claims[r] <= m
  BY <1>2, <1>3
<1> QED BY <1>3, <1>4, <1>5, <1>6, <1>7 DEF c, w

(* The units in T are free no later than the others. *)
Sooner(free, T) == \A u \in T, v \in DOMAIN free \ T : free[u] <= free[v]

(* Any number of units, up to all of them, that are free no later than the others. *)
LEMMA SoonestIs ==
  ASSUME NEW free, IsFiniteSet(DOMAIN free), \A u \in DOMAIN free : free[u] \in Nat,
         NEW k \in Nat, k <= Cardinality(DOMAIN free)
  PROVE  /\ Soonest(free, k) \subseteq DOMAIN free /\ Cardinality(Soonest(free, k)) = k
         /\ Sooner(free, Soonest(free, k))
<1> DEFINE D == DOMAIN free
           G == {m \in Nat : m <= Cardinality(D) =>
                   \E T \in SUBSET D : Cardinality(T) = m /\ Sooner(free, T)}
<1>1. 0 \in G
  <2>1. Cardinality({}) = 0 /\ Sooner(free, {})
    BY FS_EmptySet DEF Sooner
  <2> QED BY <2>1
<1>2. ASSUME NEW m \in Nat, m \in G PROVE m + 1 \in G
  <2> SUFFICES ASSUME m + 1 <= Cardinality(D)
               PROVE  \E T \in SUBSET D : Cardinality(T) = m + 1 /\ Sooner(free, T)
    OBVIOUS
  <2>0. Cardinality(D) \in Nat
    BY FS_CardinalityType
  <2>1. PICK T \in SUBSET D : Cardinality(T) = m /\ Sooner(free, T)
    BY <1>2, <2>0
  <2>2. IsFiniteSet(T)
    BY FS_Subset
  <2>3. D \ T # {}
    <3>1. T # D
      BY <2>0, <2>1
    <3> QED BY <3>1
  <2> DEFINE V == {free[v] : v \in D \ T}
  <2>4. PICK least \in V : \A a \in V : least <= a
    <3>1. V \subseteq Nat /\ V # {}
      BY <2>3
    <3> HIDE DEF V
    <3> QED BY <3>1, LeastNatural
  <2>5. PICK x \in D \ T : least = free[x]
    BY <2>4
  <2>6. \A v \in D \ T : free[x] <= free[v]
    BY <2>4, <2>5
  <2>7. Sooner(free, T \cup {x})
    BY <2>1, <2>6 DEF Sooner
  <2>8. Cardinality(T \cup {x}) = m + 1 /\ T \cup {x} \in SUBSET D
    BY <2>1, <2>2, <2>5, FS_AddElement
  <2> QED BY <2>7, <2>8
<1>3. k \in G
  <2> HIDE DEF G
  <2> QED BY <1>1, <1>2, Upward
<1>4. \E T \in SUBSET D : Cardinality(T) = k /\ Sooner(free, T)
  BY <1>3
<1> QED BY <1>4, Zenon DEF Soonest, Sooner

-----------------------------------------------------------------------------
(* Where a node fits. *)

(* Part of the nodes are placed, after what they wait for. *)
Placing(n, caps, s) ==
    /\ DOMAIN s.start \subseteq DOMAIN n
    /\ \A i \in DOMAIN s.start :
          /\ s.start[i] \in Nat
          /\ \A p \in DOMAIN n[i].preds :
                p \in DOMAIN s.start /\ Finish(n, s, p) + n[i].preds[p] <= s.start[i]
    /\ DOMAIN s.free = WorkPools(n)
    /\ \A r \in WorkPools(n) : /\ DOMAIN s.free[r] = Units(n, caps, r)
                               /\ \A u \in DOMAIN s.free[r] : s.free[r][u] \in Nat

(* The units of r that a node of work would take next. *)
Taken(n, s, i, r) == Soonest(s.free[r], n[i].claims[r])

(* Who is placed takes as many units of each pool as it claims, the ones that are free first. *)
LEMMA TakenIs ==
  ASSUME NEW n, NEW caps, NEW rank, Levelable(n, caps, rank), NEW s, Placing(n, caps, s),
         NEW i \in Work(n), NEW r \in DOMAIN n[i].claims
  PROVE  /\ r \in WorkPools(n) /\ n[i].claims[r] \in Nat \ {0}
         /\ Taken(n, s, i, r) \subseteq DOMAIN s.free[r]
         /\ Cardinality(Taken(n, s, i, r)) = n[i].claims[r] /\ IsFiniteSet(Taken(n, s, i, r))
         /\ Sooner(s.free[r], Taken(n, s, i, r))
<1>1. r \in WorkPools(n)
  BY DEF WorkPools
<1>2. n[i].claims[r] \in Nat \ {0}
  BY DEF Levelable, Work
<1> DEFINE free == s.free[r]
           k == n[i].claims[r]
<1>3. DOMAIN free = Units(n, caps, r) /\ \A u \in DOMAIN free : free[u] \in Nat
  BY <1>1 DEF Placing
<1>4. IsFiniteSet(DOMAIN free) /\ k <= Cardinality(DOMAIN free)
  BY <1>1, <1>3, UnitsAre
<1> HIDE DEF free, k
<1>5. /\ Soonest(free, k) \subseteq DOMAIN free /\ Cardinality(Soonest(free, k)) = k
      /\ Sooner(free, Soonest(free, k))
  BY <1>2, <1>3, <1>4, SoonestIs DEF k
<1>6. IsFiniteSet(Soonest(free, k))
  BY <1>4, <1>5, FS_Subset
<1> QED BY <1>1, <1>2, <1>5, <1>6 DEF free, k, Taken

(* When the prerequisites and their lags are over. *)
LEMMA ReadyIs ==
  ASSUME NEW n, NEW caps, NEW rank, Levelable(n, caps, rank), NEW s, Placing(n, caps, s),
         NEW i \in DOMAIN n, DOMAIN n[i].preds \subseteq DOMAIN s.start
  PROVE  /\ ReadyAt(n, s, i) \in Nat
         /\ \A p \in DOMAIN n[i].preds : Finish(n, s, p) + n[i].preds[p] <= ReadyAt(n, s, i)
         /\ \/ ReadyAt(n, s, i) = 0
            \/ \E p \in DOMAIN n[i].preds : Finish(n, s, p) + n[i].preds[p] = ReadyAt(n, s, i)
<1> DEFINE P == DOMAIN n[i].preds
           h == [p \in P |-> Finish(n, s, p) + n[i].preds[p]]
           S == {h[p] : p \in P}
<1>1. IsFiniteSet(P)
  <2>1. P \subseteq 1 .. Len(n) /\ Len(n) \in Nat
    BY DEF Levelable
  <2>2. IsFiniteSet(1 .. Len(n))
    <3>1. 1 \in Int /\ Len(n) \in Int
      BY <2>1
    <3> QED BY <3>1, FS_Interval
  <2> QED BY <2>1, <2>2, FS_Subset
<1>2. \A p \in P : h[p] \in Nat /\ h[p] = Finish(n, s, p) + n[i].preds[p]
  BY DEF Levelable, Placing, Finish
<1>3. ReadyAt(n, s, i) = Latest(S)
  BY DEF ReadyAt
<1> HIDE DEF h, P
<1>4. IsFiniteSet(S) /\ S \subseteq Nat
  BY <1>1, <1>2, FiniteImage
<1>5. Latest(S) \in Nat /\ (\A k \in S : k <= Latest(S)) /\ Latest(S) \in S \cup {0}
  <2> HIDE DEF S
  <2> QED BY <1>4, LatestIs
<1> QED BY <1>2, <1>3, <1>5 DEF P

(* A node fits after its prerequisites, when its units are free, and no later. *)
LEMMA EarliestIs ==
  ASSUME NEW n, NEW caps, NEW rank, Levelable(n, caps, rank), NEW s, Placing(n, caps, s),
         NEW i \in DOMAIN n, DOMAIN n[i].preds \subseteq DOMAIN s.start
  PROVE  /\ EarliestFeasible(n, s, i) \in Nat
         /\ ReadyAt(n, s, i) <= EarliestFeasible(n, s, i)
         /\ i \in Work(n) => \A r \in DOMAIN n[i].claims : \A u \in Taken(n, s, i, r) :
                                s.free[r][u] <= EarliestFeasible(n, s, i)
         /\ \/ EarliestFeasible(n, s, i) = ReadyAt(n, s, i)
            \/ i \in Work(n) /\ \E r \in DOMAIN n[i].claims : \E u \in Taken(n, s, i, r) :
                                   s.free[r][u] = EarliestFeasible(n, s, i)
<1>0. ReadyAt(n, s, i) \in Nat /\ n[i].len \in Nat
  BY ReadyIs DEF Levelable
<1>1. CASE n[i].len = 0
  <2>1. EarliestFeasible(n, s, i) = ReadyAt(n, s, i)
    BY <1>1 DEF EarliestFeasible
  <2>2. i \notin Work(n)
    BY <1>1 DEF Work
  <2> QED BY <1>0, <2>1, <2>2
<1>2. CASE n[i].len # 0
  <2>1. i \in Work(n)
    BY <1>0, <1>2 DEF Work
  <2> DEFINE Of(r) == {s.free[r][u] : u \in Taken(n, s, i, r)}
             F == UNION {Of(r) : r \in DOMAIN n[i].claims}
             S == {ReadyAt(n, s, i)} \cup F
  <2>2. EarliestFeasible(n, s, i) = Max(S)
    BY <1>2 DEF EarliestFeasible, Taken
  <2>3. ASSUME NEW r \in DOMAIN n[i].claims PROVE IsFiniteSet(Of(r)) /\ Of(r) \subseteq Nat
    <3>1. IsFiniteSet(Taken(n, s, i, r))
      BY <2>1, TakenIs
    <3>2. \A u \in Taken(n, s, i, r) : s.free[r][u] \in Nat
      BY <2>1, TakenIs DEF Placing
    <3> DEFINE f == s.free[r]
    <3> HIDE DEF f
    <3>3. IsFiniteSet({f[u] : u \in Taken(n, s, i, r)})
      BY <3>1, FiniteImage
    <3> QED BY <3>2, <3>3 DEF f
  <2>4. IsFiniteSet(F) /\ F \subseteq Nat
    <3> DEFINE o == [r \in DOMAIN n[i].claims |-> Of(r)]
               O == {o[r] : r \in DOMAIN n[i].claims}
    <3>1. \A T \in O : IsFiniteSet(T) /\ T \subseteq Nat
      BY <2>3
    <3>2. IsFiniteSet(O)
      <4>1. IsFiniteSet(DOMAIN n[i].claims)
        BY DEF Levelable
      <4> HIDE DEF o
      <4> QED BY <4>1, FiniteImage
    <3>3. O = {Of(r) : r \in DOMAIN n[i].claims}
      <4>1. \A r \in DOMAIN n[i].claims : o[r] = Of(r)
        OBVIOUS
      <4> HIDE DEF o, Of
      <4> QED BY <4>1
    <3>4. F = UNION O
      <4> HIDE DEF Of, O
      <4> QED BY <3>3
    <3> HIDE DEF O, F
    <3> QED BY <3>1, <3>2, <3>4, FS_UNION
  <2>5. \A a \in F : \E r \in DOMAIN n[i].claims : \E u \in Taken(n, s, i, r) : s.free[r][u] = a
    OBVIOUS
  <2>6. \A r \in DOMAIN n[i].claims : \A u \in Taken(n, s, i, r) : s.free[r][u] \in F
    OBVIOUS
  <2> HIDE DEF F
  <2>7. IsFiniteSet(S) /\ S \subseteq Nat /\ S # {}
    BY <1>0, <2>4, FS_Singleton, FS_Union
  <2>8. Max(S) \in S /\ \A a \in S : Max(S) >= a
    <3>1. S \subseteq Int
      BY <2>7
    <3> HIDE DEF S
    <3> QED BY <2>7, <3>1, MaxIs
  <2>9. Max(S) \in Nat
    BY <2>7, <2>8
  <2> DEFINE e == EarliestFeasible(n, s, i)
  <2>10. e \in Nat /\ (e = ReadyAt(n, s, i) \/ e \in F) /\ ReadyAt(n, s, i) <= e /\ \A a \in F : a <= e
    <3> HIDE DEF e
    <3> QED BY <1>0, <2>2, <2>4, <2>8, <2>9 DEF e
  <2> HIDE DEF S, e
  <2> QED BY <2>1, <2>5, <2>6, <2>10 DEF e
<1> QED BY <1>1, <1>2

-----------------------------------------------------------------------------
(* Candidates *)

(* One of finitely many has the least value. *)
LEMMA OneIsLeast ==
  ASSUME NEW S, IsFiniteSet(S), S # {}, NEW f, \A x \in S : f[x] \in Int
  PROVE  \E x \in S : \A y \in S : f[x] <= f[y]
<1> DEFINE T == {f[x] : x \in S}
<1>1. IsFiniteSet(T)
  BY FiniteImage
<1>2. T \subseteq Int /\ T # {}
  OBVIOUS
<1>3. Min(T) \in T /\ \A k \in T : Min(T) <= k
  <2> HIDE DEF T
  <2> QED BY <1>1, <1>2, MinIs
<1> QED BY <1>3

(* Nothing but a placed node keeps a node from being a candidate for ever. *)
LEMMA CandidatesRemain ==
  ASSUME NEW n, NEW caps, NEW rank, Levelable(n, caps, rank), NEW s, Placing(n, caps, s),
         DOMAIN s.start # DOMAIN n
  PROVE  Candidates(n, s) # {}
<1> SUFFICES ASSUME Candidates(n, s) = {} PROVE FALSE
  OBVIOUS
<1> DEFINE M == DOMAIN n
           S == DOMAIN s.start
<1>1. rank \in [M -> Nat]
  BY DEF Levelable
<1>2. ASSUME NEW x \in M, \A y \in M : rank[y] < rank[x] => y \in S
      PROVE  x \in S
  <2>1. DOMAIN n[x].preds \subseteq S
    BY <1>2 DEF Levelable
  <2> QED BY <2>1 DEF Candidates
<1>3. M \subseteq S
  <2> HIDE DEF M, S
  <2> QED BY <1>1, <1>2, Upwards
<1> QED BY <1>3 DEF Placing

(* One of the candidates goes before all of the others. *)
LEMMA NextIs ==
  ASSUME NEW n, NEW caps, NEW rank, Levelable(n, caps, rank), NEW s, Placing(n, caps, s),
         Candidates(n, s) # {}
  PROVE  /\ NextNode(n, Tails(n), s) \in Candidates(n, s)
         /\ \A d \in Candidates(n, s) :
               EarliestFeasible(n, s, NextNode(n, Tails(n), s)) <= EarliestFeasible(n, s, d)
<1> DEFINE C == Candidates(n, s)
           e == [i \in C |-> EarliestFeasible(n, s, i)]
           tail == Tails(n)
<1>1. C \subseteq DOMAIN n /\ \A i \in C : e[i] = EarliestFeasible(n, s, i) /\ e[i] \in Nat
  <2>1. \A i \in C : i \in DOMAIN n /\ DOMAIN n[i].preds \subseteq DOMAIN s.start
    BY DEF Candidates
  <2> QED BY <2>1, EarliestIs
<1>2. IsFiniteSet(C)
  <2>1. DOMAIN n = 1 .. Len(n) /\ Len(n) \in Nat
    BY DEF Levelable
  <2>2. IsFiniteSet(1 .. Len(n))
    <3>1. 1 \in Int /\ Len(n) \in Int
      BY <2>1
    <3> QED BY <3>1, FS_Interval
  <2> QED BY <1>1, <2>1, <2>2, FS_Subset
<1>3. \A i \in C : tail[i] \in Nat /\ n[i].len \in Nat /\ n[i].id \in Int
  <2>1. tail \in [DOMAIN n -> Nat]
    BY TailsAre
  <2>2. \A i \in C : i \in DOMAIN n
    BY <1>1
  <2> HIDE DEF tail, C
  <2> QED BY <2>1, <2>2 DEF Levelable
<1>4. \A i, j \in C : n[i].id = n[j].id => i = j
  BY <1>1 DEF Levelable
<1>5. \A i, j \in C : GoesBefore(n, s, tail, i, j)
         <=> \/ e[i] < e[j]
             \/ e[i] = e[j] /\ n[i].len = 0 /\ n[j].len # 0
             \/ e[i] = e[j] /\ (n[i].len = 0 <=> n[j].len = 0) /\ tail[i] > tail[j]
             \/ e[i] = e[j] /\ (n[i].len = 0 <=> n[j].len = 0) /\ tail[i] = tail[j] /\ n[i].id < n[j].id
  <2> SUFFICES ASSUME NEW i \in C, NEW j \in C
               PROVE GoesBefore(n, s, tail, i, j)
         <=> \/ e[i] < e[j]
             \/ e[i] = e[j] /\ n[i].len = 0 /\ n[j].len # 0
             \/ e[i] = e[j] /\ (n[i].len = 0 <=> n[j].len = 0) /\ tail[i] > tail[j]
             \/ e[i] = e[j] /\ (n[i].len = 0 <=> n[j].len = 0) /\ tail[i] = tail[j] /\ n[i].id < n[j].id
    OBVIOUS
  <2>1. /\ e[i] = EarliestFeasible(n, s, i) /\ e[j] = EarliestFeasible(n, s, j)
        /\ e[i] \in Nat /\ e[j] \in Nat /\ tail[i] \in Nat /\ tail[j] \in Nat
    BY <1>1, <1>3
  <2> HIDE DEF e, C, tail
  <2>2. GoesBefore(n, s, tail, i, j) <=>
          IF e[i] # e[j] THEN e[i] < e[j]
          ELSE IF (n[i].len = 0) # (n[j].len = 0) THEN n[i].len = 0
          ELSE IF tail[i] # tail[j] THEN tail[i] > tail[j]
          ELSE n[i].id < n[j].id
    BY <2>1 DEF GoesBefore
  <2>3. CASE e[i] # e[j]
    BY <2>1, <2>2, <2>3
  <2>4. CASE e[i] = e[j]
    <3>1. CASE (n[i].len = 0) # (n[j].len = 0)
      BY <2>1, <2>2, <2>4, <3>1
    <3>2. CASE (n[i].len = 0) = (n[j].len = 0)
      BY <2>1, <2>2, <2>4, <3>2
    <3> QED BY <3>1, <3>2
  <2> QED BY <2>3, <2>4
<1> HIDE DEF C, e, tail
<1>6. PICK a \in C : \A i \in C : e[a] <= e[i]
  <2>1. \A i \in C : e[i] \in Int
    BY <1>1
  <2> QED BY <1>2, <2>1, OneIsLeast DEF C
<1> DEFINE A == {i \in C : e[i] = e[a]}
           Z == {i \in A : n[i].len = 0}
           B == IF Z = {} THEN A ELSE Z
<1>7. /\ B \subseteq A /\ A \subseteq C /\ B # {}
      /\ \A i \in B, j \in A \ B : n[i].len = 0 /\ n[j].len # 0
      /\ \A i, j \in B : n[i].len = 0 <=> n[j].len = 0
  <2>1. CASE Z = {}
    BY <1>6, <2>1
  <2>2. CASE Z # {}
    BY <2>2
  <2> QED BY <2>1, <2>2
<1> HIDE DEF B
<1>8. IsFiniteSet(B)
  BY <1>2, <1>7, FS_Subset
<1>9. PICK b \in B : \A i \in B : tail[b] >= tail[i]
  <2> DEFINE f == [i \in B |-> 0 - tail[i]]
  <2>1. \A i \in B : f[i] = 0 - tail[i] /\ f[i] \in Int /\ tail[i] \in Nat
    BY <1>3, <1>7
  <2> HIDE DEF f
  <2>2. PICK b \in B : \A i \in B : f[b] <= f[i]
    BY <1>7, <1>8, <2>1, OneIsLeast
  <2>3. \A i \in B : tail[b] >= tail[i]
    BY <2>1, <2>2
  <2> QED BY <2>3
<1> DEFINE H == {i \in B : tail[i] = tail[b]}
<1>10. PICK c \in H : \A i \in H : n[c].id <= n[i].id
  <2> DEFINE f == [i \in H |-> n[i].id]
  <2>1. \A i \in H : f[i] = n[i].id /\ f[i] \in Int
    BY <1>3, <1>7
  <2>2. IsFiniteSet(H) /\ H # {}
    BY <1>8, FS_Subset
  <2> HIDE DEF f, H
  <2>3. PICK c \in H : \A i \in H : f[c] <= f[i]
    BY <2>1, <2>2, OneIsLeast
  <2> QED BY <2>1, <2>3
<1>11. ASSUME NEW d \in C PROVE c = d \/ GoesBefore(n, s, tail, c, d)
  <2>1. c \in C /\ c \in A /\ c \in B /\ e[c] = e[a] /\ e[c] \in Nat /\ e[d] \in Nat /\ tail[c] = tail[b]
    BY <1>1, <1>7
  <2>2. CASE d \notin A
    <3>1. e[c] < e[d]
      BY <1>6, <2>1, <2>2
    <3> QED BY <1>5, <2>1, <3>1
  <2>3. CASE d \in A \ B
    <3>1. e[c] = e[d] /\ n[c].len = 0 /\ n[d].len # 0
      BY <1>7, <2>1, <2>3
    <3> QED BY <1>5, <2>1, <3>1
  <2>4. CASE d \in B \ H
    <3>1. e[c] = e[d] /\ (n[c].len = 0 <=> n[d].len = 0)
      BY <1>7, <2>1, <2>4
    <3>2. tail[c] > tail[d]
      <4>1. tail[d] \in Nat /\ tail[b] \in Nat /\ tail[d] # tail[b] /\ tail[b] >= tail[d]
        BY <1>3, <1>7, <1>9, <2>4
      <4> QED BY <2>1, <4>1
    <3> QED BY <1>5, <2>1, <3>1, <3>2
  <2>5. CASE d \in H
    <3>1. e[c] = e[d] /\ (n[c].len = 0 <=> n[d].len = 0) /\ tail[c] = tail[d]
      BY <1>7, <2>1, <2>5
    <3>2. n[c].id = n[d].id \/ n[c].id < n[d].id
      <4>1. n[c].id \in Int /\ n[d].id \in Int /\ n[c].id <= n[d].id
        BY <1>3, <1>10, <2>1, <2>5
      <4> QED BY <4>1
    <3> QED BY <1>4, <1>5, <2>1, <3>1, <3>2
  <2> QED BY <2>2, <2>3, <2>4, <2>5
<1> DEFINE x == NextNode(n, tail, s)
<1>12. x \in C /\ \A d \in C : x = d \/ GoesBefore(n, s, tail, x, d)
  <2>1. \E k \in C : \A d \in C : k = d \/ GoesBefore(n, s, tail, k, d)
    <3>1. c \in C
      BY <1>7
    <3> HIDE DEF H
    <3> QED BY <1>11, <3>1
  <2> QED BY <2>1, Zenon DEF NextNode, C
<1> HIDE DEF x
<1>13. \A d \in C : e[x] <= e[d]
  BY <1>1, <1>5, <1>12
<1> QED BY <1>1, <1>12, <1>13 DEF C, e, x, tail

-----------------------------------------------------------------------------
(* A placement in order *)

(* x is placed where it fits, before which no other candidate does. *)
TakesTurn(n, s, s1, x) ==
    /\ x \in Candidates(n, s)
    /\ x \in DOMAIN n /\ x \notin DOMAIN s.start /\ DOMAIN n[x].preds \subseteq DOMAIN s.start
    /\ \A d \in Candidates(n, s) : EarliestFeasible(n, s, x) <= EarliestFeasible(n, s, d)
    /\ DOMAIN s1.start = DOMAIN s.start \cup {x}
    /\ s1.start[x] = EarliestFeasible(n, s, x)
    /\ \A j \in DOMAIN s.start : s1.start[j] = s.start[j]
    /\ DOMAIN s1.free = DOMAIN s.free
    /\ \A r \in DOMAIN s.free :
          /\ DOMAIN s1.free[r] = DOMAIN s.free[r]
          /\ \A u \in DOMAIN s.free[r] :
                s1.free[r][u] = IF x \in Work(n) /\ r \in DOMAIN n[x].claims /\ u \in Taken(n, s, x, r)
                                THEN EarliestFeasible(n, s, x) + n[x].len ELSE s.free[r][u]

(* Each turn places a candidate that can start first. *)
LEMMA PlaceIs ==
  ASSUME NEW n, NEW caps, NEW rank, Levelable(n, caps, rank), NEW s, Placing(n, caps, s),
         DOMAIN s.start # DOMAIN n
  PROVE  \E x \in DOMAIN n : TakesTurn(n, s, Place(n, Tails(n), s), x)
<1> DEFINE s1 == Place(n, Tails(n), s)
           x == NextNode(n, Tails(n), s)
           at == EarliestFeasible(n, s, x)
           taken == IF n[x].len = 0 THEN {} ELSE DOMAIN n[x].claims
           New(r) == IF r \in taken THEN Occupy(s.free[r], n[x].claims[r], at + n[x].len) ELSE s.free[r]
<1>1. x \in Candidates(n, s) /\ \A d \in Candidates(n, s) : at <= EarliestFeasible(n, s, d)
  BY CandidatesRemain, NextIs
<1>2. x \in DOMAIN n /\ x \notin DOMAIN s.start /\ DOMAIN n[x].preds \subseteq DOMAIN s.start
  BY <1>1 DEF Candidates
<1>3. s1 = [start |-> With(s.start, x, at), free |-> [r \in DOMAIN s.free |-> New(r)]]
  BY DEF Place
<1>4. taken = IF x \in Work(n) THEN DOMAIN n[x].claims ELSE {}
  <2>1. n[x].len \in Nat
    BY <1>2 DEF Levelable
  <2> QED BY <1>2, <2>1 DEF Work
<1> HIDE DEF s1, x, at, taken
<1>5. /\ DOMAIN s1.start = DOMAIN s.start \cup {x} /\ s1.start[x] = at
      /\ \A j \in DOMAIN s.start : s1.start[j] = s.start[j]
  <2>1. s1.start = With(s.start, x, at)
    BY <1>3
  <2> QED BY <1>2, <2>1 DEF With
<1>6. s1.free = [r \in DOMAIN s.free |-> New(r)]
  BY <1>3
<1>7. ASSUME NEW r \in DOMAIN s.free
      PROVE  /\ DOMAIN s1.free[r] = DOMAIN s.free[r]
             /\ \A u \in DOMAIN s.free[r] :
                   s1.free[r][u] = IF x \in Work(n) /\ r \in DOMAIN n[x].claims /\ u \in Taken(n, s, x, r)
                                   THEN at + n[x].len ELSE s.free[r][u]
  <2>0. s1.free[r] = New(r)
    BY <1>6
  <2>1. CASE r \in taken
    <3>1. x \in Work(n) /\ r \in DOMAIN n[x].claims
      BY <1>4, <2>1
    <3>2. s1.free[r] = [u \in DOMAIN s.free[r] |-> IF u \in Taken(n, s, x, r) THEN at + n[x].len ELSE s.free[r][u]]
      BY <2>0, <2>1 DEF Occupy, Taken
    <3> QED BY <3>1, <3>2
  <2>2. CASE r \notin taken
    BY <1>4, <2>0, <2>2
  <2> QED BY <2>1, <2>2
<1>8. DOMAIN s1.free = DOMAIN s.free
  BY <1>6
<1> QED BY <1>1, <1>2, <1>5, <1>7, <1>8 DEF at, s1, TakesTurn

-----------------------------------------------------------------------------
(* Who holds which units. *)

(* Who has been placed on units of r. *)
Holders(n, s, r) == {i \in DOMAIN s.start \cap Work(n) : r \in DOMAIN n[i].claims}

(* hold[r][i] are the units of r that i was given: until it finishes, by a work that no
   other work overlaps; and a unit is free when the last of its holders finishes. *)
Held(n, s, hold) ==
    \A r \in DOMAIN s.free :
       /\ \A i \in Holders(n, s, r) :
             /\ hold[r][i] \subseteq DOMAIN s.free[r] /\ Cardinality(hold[r][i]) = n[i].claims[r]
             /\ \A u \in hold[r][i] : Finish(n, s, i) <= s.free[r][u]
       /\ \A i, j \in Holders(n, s, r) :
             i # j /\ hold[r][i] \cap hold[r][j] # {} =>
                Finish(n, s, i) <= s.start[j] \/ Finish(n, s, j) <= s.start[i]
       /\ \A u \in DOMAIN s.free[r] :
             s.free[r][u] > 0 => \E i \in Holders(n, s, r) : u \in hold[r][i] /\ Finish(n, s, i) = s.free[r][u]

(* The units of r that no work begun before t holds at t. *)
Idle(n, s, hold, r, t) ==
    {u \in DOMAIN s.free[r] : \A i \in Holders(n, s, r) :
                                 u \in hold[r][i] /\ s.start[i] < t => Finish(n, s, i) < t}

(* Some pool has too few idle units for i. *)
Lacks(n, s, hold, i, t) ==
    \E r \in DOMAIN n[i].claims : Cardinality(Idle(n, s, hold, r, t)) < n[i].claims[r]

(* A candidate that was ready before the last start so far lacked units then. *)
Waiting(n, s, hold) ==
    \A i \in Candidates(n, s), j \in DOMAIN s.start :
       (ReadyAt(n, s, i) < s.start[j] /\ \A k \in DOMAIN s.start : s.start[k] <= s.start[j]) =>
          i \in Work(n) /\ Lacks(n, s, hold, i, s.start[j])

(* What a placed node waited for: nothing, a prerequisite, or units that were given
   back when it started. *)
Explained(n, s, hold, i) ==
    \/ s.start[i] = 0
    \/ \E p \in DOMAIN n[i].preds : Finish(n, s, p) + n[i].preds[p] = s.start[i]
    \/ /\ i \in Work(n)
       /\ \E r \in DOMAIN n[i].claims :
             /\ Cardinality(Idle(n, s, hold, r, s.start[i])) < n[i].claims[r]
             /\ \E j \in Holders(n, s, r) : j # i /\ Finish(n, s, j) = s.start[i]

(* The invariant of the placement. *)
Under(n, caps, s) ==
    /\ Placing(n, caps, s)
    /\ \E hold : /\ Held(n, s, hold) /\ Waiting(n, s, hold)
                 /\ \A i \in DOMAIN s.start : Explained(n, s, hold, i)

(* Before the first placement. *)
LEMMA UnplacedIs ==
  ASSUME NEW n, NEW caps, NEW rank, Levelable(n, caps, rank)
  PROVE  Under(n, caps, Unplaced(n, caps)) /\ DOMAIN Unplaced(n, caps).start = {}
<1> DEFINE s == Unplaced(n, caps)
<1>1. /\ s.start = [i \in {} |-> 0]
      /\ s.free = [r \in WorkPools(n) |-> [u \in Units(n, caps, r) |-> 0]]
  BY DEF Unplaced
<1> HIDE DEF s
<1>2. DOMAIN s.start = {} /\ DOMAIN s.free = WorkPools(n)
      /\ \A r \in WorkPools(n) : DOMAIN s.free[r] = Units(n, caps, r)
                                 /\ \A u \in DOMAIN s.free[r] : s.free[r][u] = 0
  BY <1>1
<1>3. Placing(n, caps, s)
  BY <1>2 DEF Placing
<1>4. \A r : Holders(n, s, r) = {}
  BY <1>2 DEF Holders
<1>5. Held(n, s, 0) /\ Waiting(n, s, 0) /\ \A i \in DOMAIN s.start : Explained(n, s, 0, i)
  BY <1>2, <1>4 DEF Held, Waiting
<1> QED BY <1>2, <1>3, <1>5 DEF Under, s

-----------------------------------------------------------------------------
(* A placement keeps it in order *)

(* A placement keeps what is placed in order. *)
LEMMA PlacingKept ==
  ASSUME NEW n, NEW caps, NEW rank, Levelable(n, caps, rank), NEW s, Placing(n, caps, s),
         NEW s1, NEW x, TakesTurn(n, s, s1, x)
  PROVE  Placing(n, caps, s1)
<1> DEFINE D == DOMAIN s.start
           at == EarliestFeasible(n, s, x)
<1>1. x \in DOMAIN n /\ x \notin D /\ DOMAIN n[x].preds \subseteq D /\ n[x].len \in Nat
  BY DEF TakesTurn, Levelable
<1>2. at \in Nat /\ ReadyAt(n, s, x) <= at /\ ReadyAt(n, s, x) \in Nat
  BY <1>1, EarliestIs, ReadyIs
<1>3. DOMAIN s1.start = D \cup {x} /\ s1.start[x] = at /\ \A j \in D : s1.start[j] = s.start[j]
  BY DEF TakesTurn
<1>4. \A j \in D : Finish(n, s1, j) = Finish(n, s, j)
  BY <1>3 DEF Finish
<1>5. \A i \in D : /\ i \in DOMAIN n /\ s.start[i] \in Nat
                   /\ \A p \in DOMAIN n[i].preds :
                         p \in D /\ Finish(n, s, p) + n[i].preds[p] <= s.start[i]
  BY DEF Placing
<1>6. \A p \in DOMAIN n[x].preds : Finish(n, s, p) + n[x].preds[p] <= at
  <2> SUFFICES ASSUME NEW p \in DOMAIN n[x].preds PROVE Finish(n, s, p) + n[x].preds[p] <= at
    OBVIOUS
  <2>1. Finish(n, s, p) + n[x].preds[p] <= ReadyAt(n, s, x)
    BY <1>1, ReadyIs
  <2>2. p \in D /\ n[p].len \in Nat /\ n[x].preds[p] \in Nat /\ s.start[p] \in Nat
    BY <1>1, <1>5 DEF Levelable
  <2>3. Finish(n, s, p) + n[x].preds[p] \in Nat
    BY <2>2 DEF Finish
  <2> DEFINE f == Finish(n, s, p) + n[x].preds[p]
             ready == ReadyAt(n, s, x)
  <2> HIDE DEF f, ready, at
  <2>4. f <= at
    BY <1>2, <2>1, <2>3 DEF ready, f
  <2> QED BY <2>4 DEF f
<1>7. \A i \in D \cup {x} :
         /\ i \in DOMAIN n /\ s1.start[i] \in Nat
         /\ \A p \in DOMAIN n[i].preds :
               p \in D /\ Finish(n, s1, p) + n[i].preds[p] <= s1.start[i]
  <2> HIDE DEF at, D
  <2> QED BY <1>1, <1>2, <1>3, <1>4, <1>5, <1>6
<1>8. DOMAIN s.free = WorkPools(n)
      /\ \A r \in WorkPools(n) : /\ DOMAIN s.free[r] = Units(n, caps, r)
                                 /\ \A u \in DOMAIN s.free[r] : s.free[r][u] \in Nat
  BY DEF Placing
<1>9. at + n[x].len \in Nat
  BY <1>1, <1>2
<1>10. DOMAIN s1.free = WorkPools(n)
       /\ \A r \in WorkPools(n) : /\ DOMAIN s1.free[r] = Units(n, caps, r)
                                  /\ \A u \in DOMAIN s1.free[r] : s1.free[r][u] \in Nat
  <2>1. DOMAIN s1.free = DOMAIN s.free
        /\ \A r \in DOMAIN s.free :
             /\ DOMAIN s1.free[r] = DOMAIN s.free[r]
             /\ \A u \in DOMAIN s.free[r] : s1.free[r][u] = at + n[x].len \/ s1.free[r][u] = s.free[r][u]
    BY DEF TakesTurn
  <2> HIDE DEF at
  <2> QED BY <1>8, <1>9, <2>1
<1> QED BY <1>3, <1>7, <1>10 DEF Placing

(* No candidate fits before what is already placed has started. *)
LEMMA NoneGoesBack ==
  ASSUME NEW n, NEW caps, NEW rank, Levelable(n, caps, rank), NEW s, Placing(n, caps, s),
         NEW hold, Held(n, s, hold), Waiting(n, s, hold),
         NEW d \in Candidates(n, s), NEW k \in DOMAIN s.start
  PROVE  s.start[k] <= EarliestFeasible(n, s, d)
<1> DEFINE D == DOMAIN s.start
           e == EarliestFeasible(n, s, d)
           ready == ReadyAt(n, s, d)
<1>1. d \in DOMAIN n /\ DOMAIN n[d].preds \subseteq D
  BY DEF Candidates
<1>2. e \in Nat /\ ready \in Nat /\ ready <= e
  BY <1>1, EarliestIs, ReadyIs
<1>3. \A i \in D : s.start[i] \in Nat /\ i \in DOMAIN n
  BY DEF Placing
<1>4. PICK j \in D : \A i \in D : s.start[i] <= s.start[j]
  <2>1. IsFiniteSet(D)
    <3>1. D \subseteq 1 .. Len(n) /\ Len(n) \in Nat
      BY DEF Placing, Levelable
    <3>2. IsFiniteSet(1 .. Len(n))
      <4>1. 1 \in Int /\ Len(n) \in Int
        BY <3>1
      <4> QED BY <4>1, FS_Interval
    <3> QED BY <3>1, <3>2, FS_Subset
  <2> DEFINE f == [i \in D |-> 0 - s.start[i]]
  <2>2. \A i \in D : f[i] \in Int /\ f[i] = 0 - s.start[i]
    BY <1>3
  <2> HIDE DEF f
  <2>3. PICK j \in D : \A i \in D : f[j] <= f[i]
    BY <2>1, <2>2, OneIsLeast
  <2> QED BY <1>3, <2>2, <2>3
<1> DEFINE t == s.start[j]
<1>5. t \in Nat /\ s.start[k] \in Nat /\ s.start[k] <= t
  BY <1>3, <1>4
<1>6. t <= e
  <2> SUFFICES ASSUME e < t PROVE FALSE
    BY <1>2, <1>5
  <2>1. ready < t
    BY <1>2, <1>5
  <2>2. d \in Work(n) /\ Lacks(n, s, hold, d, t)
    BY <1>4, <2>1 DEF Waiting
  <2>3. PICK r \in DOMAIN n[d].claims : Cardinality(Idle(n, s, hold, r, t)) < n[d].claims[r]
    BY <2>2 DEF Lacks
  <2> DEFINE T == Taken(n, s, d, r)
             I == Idle(n, s, hold, r, t)
  <2>4. /\ r \in WorkPools(n) /\ n[d].claims[r] \in Nat
        /\ T \subseteq DOMAIN s.free[r] /\ Cardinality(T) = n[d].claims[r] /\ IsFiniteSet(T)
    BY <2>2, TakenIs
  <2>5. \A u \in T : s.free[r][u] <= e
    BY <1>1, <2>2, EarliestIs
  <2>6. DOMAIN s.free = WorkPools(n) /\ \A u \in DOMAIN s.free[r] : s.free[r][u] \in Nat
    BY <2>4 DEF Placing
  <2>7. T \subseteq I
    <3> SUFFICES ASSUME NEW u \in T, NEW i \in Holders(n, s, r), u \in hold[r][i]
                 PROVE  Finish(n, s, i) < t
      BY <2>4 DEF Idle
    <3>1. Finish(n, s, i) <= s.free[r][u] /\ s.free[r][u] <= e /\ s.free[r][u] \in Nat
      BY <2>4, <2>5, <2>6 DEF Held
    <3>2. Finish(n, s, i) \in Nat
      BY <1>3 DEF Holders, Work, Levelable, Finish
    <3> DEFINE f == Finish(n, s, i)
               v == s.free[r][u]
    <3> HIDE DEF f, v, e, t
    <3> QED BY <1>2, <1>5, <3>1, <3>2 DEF f, v
  <2>8. IsFiniteSet(I) /\ Cardinality(I) \in Nat
    <3>1. IsFiniteSet(DOMAIN s.free[r])
      BY <2>4, UnitsAre DEF Placing
    <3>2. I \subseteq DOMAIN s.free[r]
      BY DEF Idle
    <3> QED BY <3>1, <3>2, FS_Subset, FS_CardinalityType
  <2> HIDE DEF T, I
  <2>9. Cardinality(T) <= Cardinality(I)
    BY <2>7, <2>8, FS_Subset
  <2> QED BY <2>3, <2>4, <2>8, <2>9 DEF I
<1> HIDE DEF e, t
<1> QED BY <1>2, <1>5, <1>6 DEF e

(* A candidate that is ready before at but fits no sooner lacks units until then. *)
LEMMA LacksUntil ==
  ASSUME NEW n, NEW caps, NEW rank, Levelable(n, caps, rank), NEW s, Placing(n, caps, s),
         NEW hold, Held(n, s, hold), Waiting(n, s, hold), NEW d \in Candidates(n, s),
         NEW at \in Nat, ReadyAt(n, s, d) < at, at <= EarliestFeasible(n, s, d),
         \A k \in DOMAIN s.start : s.start[k] <= at
  PROVE  d \in Work(n) /\ Lacks(n, s, hold, d, at)
<1> DEFINE D == DOMAIN s.start
           e == EarliestFeasible(n, s, d)
           ready == ReadyAt(n, s, d)
<1>1. d \in DOMAIN n /\ DOMAIN n[d].preds \subseteq D
  BY DEF Candidates
<1>2. e \in Nat /\ ready \in Nat
  BY <1>1, EarliestIs, ReadyIs
<1>3. \A i \in D : s.start[i] \in Nat /\ i \in DOMAIN n
  BY DEF Placing
<1>4. CASE \E k \in D : s.start[k] = at
  BY <1>4 DEF Waiting
<1>5. CASE \A k \in D : s.start[k] # at
  <2>1. \A k \in D : s.start[k] < at
    BY <1>3, <1>5
  <2>2. d \in Work(n) /\ \E r \in DOMAIN n[d].claims : \E u \in Taken(n, s, d, r) : s.free[r][u] = e
    <3>1. e # ready
      BY <1>2
    <3> QED BY <1>1, <3>1, EarliestIs
  <2>3. PICK r \in DOMAIN n[d].claims : \E u \in Taken(n, s, d, r) : s.free[r][u] = e
    BY <2>2
  <2>4. PICK u \in Taken(n, s, d, r) : s.free[r][u] = e
    BY <2>3
  <2> DEFINE T == Taken(n, s, d, r)
             I == Idle(n, s, hold, r, at)
             free == s.free[r]
  <2>5. /\ r \in WorkPools(n) /\ n[d].claims[r] \in Nat
        /\ T \subseteq DOMAIN free /\ Cardinality(T) = n[d].claims[r] /\ IsFiniteSet(T)
        /\ Sooner(free, T)
    BY <2>2, TakenIs
  <2>6. DOMAIN s.free = WorkPools(n) /\ \A v \in DOMAIN free : free[v] \in Nat
    BY <2>5 DEF Placing
  <2>7. ASSUME NEW v \in I PROVE v \in DOMAIN free /\ free[v] < at
    <3>1. v \in DOMAIN free /\ free[v] \in Nat
      BY <2>6 DEF Idle
    <3> SUFFICES ASSUME at <= free[v] PROVE FALSE
      BY <3>1
    <3>2. free[v] > 0
      BY <1>2, <3>1
    <3>3. PICK i \in Holders(n, s, r) : v \in hold[r][i] /\ Finish(n, s, i) = free[v]
      BY <2>5, <2>6, <3>1, <3>2 DEF Held
    <3>4. s.start[i] < at
      BY <2>1, <3>3 DEF Holders
    <3>5. Finish(n, s, i) < at
      BY <2>7, <3>3, <3>4 DEF Idle
    <3> QED BY <3>1, <3>3, <3>5
  <2>8. I \subseteq T \ {u}
    <3> SUFFICES ASSUME NEW v \in I, v \notin T \/ v = u PROVE FALSE
      OBVIOUS
    <3>1. v \in DOMAIN free /\ free[v] < at /\ free[v] \in Nat
      BY <2>6, <2>7
    <3>2. free[u] <= free[v]
      <4>1. CASE v = u
        BY <3>1, <4>1
      <4>2. CASE v \notin T
        BY <2>5, <3>1, <4>2 DEF Sooner
      <4> QED BY <4>1, <4>2
    <3> DEFINE a == free[u]
               b == free[v]
    <3>3. a = e /\ a <= b /\ b < at /\ b \in Nat /\ at <= e
      BY <2>4, <3>1, <3>2
    <3> HIDE DEF a, b, e
    <3> QED BY <1>2, <3>3
  <2>9. IsFiniteSet(T \ {u}) /\ Cardinality(T \ {u}) = n[d].claims[r] - 1
    BY <2>5, FS_RemoveElement
  <2> HIDE DEF T, I
  <2>10. IsFiniteSet(I) /\ Cardinality(I) <= n[d].claims[r] - 1
    BY <2>8, <2>9, FS_Subset
  <2>11. Cardinality(I) < n[d].claims[r]
    BY <2>5, <2>10, FS_CardinalityType
  <2> QED BY <2>2, <2>11 DEF Lacks, I
<1> QED BY <1>4, <1>5

-----------------------------------------------------------------------------
(* Who holds which units *)

(* The units of each holder once x is placed. *)
HoldWith(n, s, hold, x) ==
    [r \in DOMAIN s.free |-> [j \in DOMAIN s.start \cup {x} |->
       IF j = x THEN Taken(n, s, x, r) ELSE hold[r][j]]]

(* What a placement leaves alone, and what it adds. *)
LEMMA TurnIs ==
  ASSUME NEW n, NEW caps, NEW rank, Levelable(n, caps, rank), NEW s, Placing(n, caps, s),
         NEW s1, NEW x, TakesTurn(n, s, s1, x), NEW hold, NEW r \in DOMAIN s.free
  PROVE  /\ \A j \in DOMAIN s.start : Finish(n, s1, j) = Finish(n, s, j) /\ Finish(n, s, j) \in Nat
         /\ Finish(n, s1, x) = EarliestFeasible(n, s, x) + n[x].len
         /\ Holders(n, s1, r) = Holders(n, s, r)
                                \cup IF x \in Work(n) /\ r \in DOMAIN n[x].claims THEN {x} ELSE {}
         /\ x \notin Holders(n, s, r) /\ Holders(n, s, r) \subseteq DOMAIN s.start
         /\ \A j \in Holders(n, s, r) : HoldWith(n, s, hold, x)[r][j] = hold[r][j]
         /\ HoldWith(n, s, hold, x)[r][x] = Taken(n, s, x, r)
<1> DEFINE D == DOMAIN s.start
<1>1. /\ x \in DOMAIN n /\ x \notin D /\ DOMAIN s1.start = D \cup {x}
      /\ s1.start[x] = EarliestFeasible(n, s, x) /\ \A j \in D : s1.start[j] = s.start[j]
  BY DEF TakesTurn
<1>2. \A j \in D : s.start[j] \in Nat /\ j \in DOMAIN n /\ n[j].len \in Nat
  BY DEF Placing, Levelable
<1>3. \A j \in D : Finish(n, s1, j) = Finish(n, s, j) /\ Finish(n, s, j) \in Nat
  BY <1>1, <1>2 DEF Finish
<1>4. Finish(n, s1, x) = EarliestFeasible(n, s, x) + n[x].len
  BY <1>1 DEF Finish
<1>5. Holders(n, s1, r) = Holders(n, s, r)
                          \cup IF x \in Work(n) /\ r \in DOMAIN n[x].claims THEN {x} ELSE {}
  BY <1>1 DEF Holders
<1>6. x \notin Holders(n, s, r) /\ Holders(n, s, r) \subseteq D
  BY <1>1 DEF Holders
<1> DEFINE h == HoldWith(n, s, hold, x)[r]
<1>7. h = [j \in D \cup {x} |-> IF j = x THEN Taken(n, s, x, r) ELSE hold[r][j]]
  BY DEF HoldWith
<1>8. \A j \in Holders(n, s, r) : h[j] = hold[r][j]
  BY <1>6, <1>7
<1>9. h[x] = Taken(n, s, x, r)
  BY <1>7
<1> QED BY <1>3, <1>4, <1>5, <1>6, <1>8, <1>9

(* A placement leaves fewer idle units, and never more. *)
LEMMA IdleShrinks ==
  ASSUME NEW n, NEW caps, NEW rank, Levelable(n, caps, rank), NEW s, Placing(n, caps, s),
         NEW s1, NEW x, TakesTurn(n, s, s1, x), NEW hold, NEW r \in DOMAIN s.free, NEW t
  PROVE  Cardinality(Idle(n, s1, HoldWith(n, s, hold, x), r, t)) <= Cardinality(Idle(n, s, hold, r, t))
         /\ Cardinality(Idle(n, s1, HoldWith(n, s, hold, x), r, t)) \in Nat
         /\ Cardinality(Idle(n, s, hold, r, t)) \in Nat
<1> DEFINE h == HoldWith(n, s, hold, x)
<1>1. \A j \in Holders(n, s, r) :
         /\ j \in Holders(n, s1, r) /\ s1.start[j] = s.start[j]
         /\ Finish(n, s1, j) = Finish(n, s, j) /\ h[r][j] = hold[r][j]
  <2>1. \A j \in DOMAIN s.start : s1.start[j] = s.start[j]
    BY DEF TakesTurn
  <2> HIDE DEF h
  <2> QED BY <2>1, TurnIs DEF h
<1>2. DOMAIN s1.free[r] = DOMAIN s.free[r]
  BY DEF TakesTurn
<1> HIDE DEF h
<1>3. Idle(n, s1, h, r, t) \subseteq Idle(n, s, hold, r, t)
  <2> SUFFICES ASSUME NEW u \in Idle(n, s1, h, r, t), NEW i \in Holders(n, s, r),
                      u \in hold[r][i], s.start[i] < t
               PROVE  Finish(n, s, i) < t
    BY <1>2 DEF Idle
  <2>1. i \in Holders(n, s1, r) /\ u \in h[r][i] /\ s1.start[i] < t
    BY <1>1
  <2>2. Finish(n, s1, i) < t
    BY <2>1 DEF Idle
  <2> QED BY <1>1, <2>2
<1>4. IsFiniteSet(Idle(n, s, hold, r, t))
  <2>1. r \in WorkPools(n) /\ DOMAIN s.free[r] = Units(n, caps, r)
    BY DEF Placing
  <2>2. IsFiniteSet(DOMAIN s.free[r])
    BY <2>1, UnitsAre
  <2>3. Idle(n, s, hold, r, t) \subseteq DOMAIN s.free[r]
    BY DEF Idle
  <2> QED BY <2>2, <2>3, FS_Subset
<1>5. IsFiniteSet(Idle(n, s1, h, r, t))
      /\ Cardinality(Idle(n, s1, h, r, t)) <= Cardinality(Idle(n, s, hold, r, t))
  BY <1>3, <1>4, FS_Subset
<1> QED BY <1>4, <1>5, FS_CardinalityType DEF h

(* A placement keeps the works that share a unit apart. *)
LEMMA HeldKept ==
  ASSUME NEW n, NEW caps, NEW rank, Levelable(n, caps, rank), NEW s, Placing(n, caps, s),
         NEW s1, NEW x, TakesTurn(n, s, s1, x), NEW hold, Held(n, s, hold)
  PROVE  Held(n, s1, HoldWith(n, s, hold, x))
<1> DEFINE h == HoldWith(n, s, hold, x)
           at == EarliestFeasible(n, s, x)
           D == DOMAIN s.start
<1>0. x \in DOMAIN n /\ x \notin D /\ DOMAIN n[x].preds \subseteq D /\ n[x].len \in Nat
  BY DEF TakesTurn, Levelable
<1>1. at \in Nat
  BY <1>0, EarliestIs
<1>2. DOMAIN s1.free = DOMAIN s.free
  BY DEF TakesTurn
<1> SUFFICES ASSUME NEW r \in DOMAIN s.free
             PROVE
       /\ \A i \in Holders(n, s1, r) :
             /\ h[r][i] \subseteq DOMAIN s1.free[r] /\ Cardinality(h[r][i]) = n[i].claims[r]
             /\ \A u \in h[r][i] : Finish(n, s1, i) <= s1.free[r][u]
       /\ \A i, j \in Holders(n, s1, r) :
             i # j /\ h[r][i] \cap h[r][j] # {} =>
                Finish(n, s1, i) <= s1.start[j] \/ Finish(n, s1, j) <= s1.start[i]
       /\ \A u \in DOMAIN s1.free[r] :
             s1.free[r][u] > 0 => \E i \in Holders(n, s1, r) : u \in h[r][i] /\ Finish(n, s1, i) = s1.free[r][u]
  BY <1>2 DEF Held
<1> DEFINE T == Taken(n, s, x, r)
           H == Holders(n, s, r)
           Mine == x \in Work(n) /\ r \in DOMAIN n[x].claims
           free == s.free[r]
           free1 == s1.free[r]
<1>3. r \in WorkPools(n) /\ \A u \in DOMAIN free : free[u] \in Nat
  BY DEF Placing
<1>4. DOMAIN free1 = DOMAIN free
      /\ \A u \in DOMAIN free : free1[u] = IF Mine /\ u \in T THEN at + n[x].len ELSE free[u]
  BY DEF TakesTurn
<1>5. /\ \A j \in D : s1.start[j] = s.start[j] /\ s.start[j] \in Nat
      /\ s1.start[x] = at
  BY DEF TakesTurn, Placing
<1>6. /\ \A j \in D : Finish(n, s1, j) = Finish(n, s, j) /\ Finish(n, s, j) \in Nat
      /\ Finish(n, s1, x) = at + n[x].len
      /\ Holders(n, s1, r) = H \cup IF Mine THEN {x} ELSE {}
      /\ x \notin H /\ H \subseteq D
      /\ \A j \in H : h[r][j] = hold[r][j]
      /\ h[r][x] = T
  <2>1. DOMAIN s.free = WorkPools(n)
    BY DEF Placing
  <2> HIDE DEF h
  <2> QED BY TurnIs DEF h
<1>7. Mine => /\ T \subseteq DOMAIN free /\ Cardinality(T) = n[x].claims[r]
              /\ \A u \in T : free[u] <= at
  <2> SUFFICES ASSUME Mine PROVE /\ T \subseteq DOMAIN free /\ Cardinality(T) = n[x].claims[r]
                                 /\ \A u \in T : free[u] <= at
    OBVIOUS
  <2>1. T \subseteq DOMAIN free /\ Cardinality(T) = n[x].claims[r]
    BY TakenIs
  <2>2. \A u \in T : free[u] <= at
    BY <1>0, EarliestIs
  <2> QED BY <2>1, <2>2
<1>8. /\ \A i \in H : /\ hold[r][i] \subseteq DOMAIN free /\ Cardinality(hold[r][i]) = n[i].claims[r]
                      /\ \A u \in hold[r][i] : Finish(n, s, i) <= free[u]
      /\ \A i, j \in H : i # j /\ hold[r][i] \cap hold[r][j] # {} =>
            Finish(n, s, i) <= s.start[j] \/ Finish(n, s, j) <= s.start[i]
      /\ \A u \in DOMAIN free : free[u] > 0 => \E i \in H : u \in hold[r][i] /\ Finish(n, s, i) = free[u]
  BY DEF Held
<1>9. \A u \in DOMAIN free : free1[u] \in Nat /\ free[u] <= free1[u]
  <2> SUFFICES ASSUME NEW u \in DOMAIN free PROVE free1[u] \in Nat /\ free[u] <= free1[u]
    OBVIOUS
  <2>1. CASE Mine /\ u \in T
    <3>1. free1[u] = at + n[x].len /\ free[u] <= at /\ free[u] \in Nat
      BY <1>3, <1>4, <1>7, <2>1
    <3> HIDE DEF at, free1, free
    <3> QED BY <1>0, <1>1, <3>1
  <2>2. CASE ~ (Mine /\ u \in T)
    <3>1. free1[u] = free[u]
      BY <1>4, <2>2
    <3> QED BY <1>3, <3>1
  <2> QED BY <2>1, <2>2
<1>10. \A i \in Holders(n, s1, r) : i \in H \/ (i = x /\ Mine)
  BY <1>6
<1>11. Mine => x \in Holders(n, s1, r)
  BY <1>6
<1>12. H \subseteq Holders(n, s1, r)
  BY <1>6
<1> HIDE DEF h, at, T, H, Mine, free, free1, D
<1>13. ASSUME NEW i \in Holders(n, s1, r)
       PROVE  /\ h[r][i] \subseteq DOMAIN free1 /\ Cardinality(h[r][i]) = n[i].claims[r]
              /\ \A u \in h[r][i] : Finish(n, s1, i) <= free1[u]
  <2>1. CASE i \in H
    <3>1. h[r][i] = hold[r][i] /\ Finish(n, s1, i) = Finish(n, s, i) /\ Finish(n, s, i) \in Nat
      BY <1>6, <2>1
    <3>2. \A u \in hold[r][i] : u \in DOMAIN free /\ Finish(n, s, i) <= free[u] /\ free[u] \in Nat
      BY <1>3, <1>8, <2>1
    <3>3. \A u \in hold[r][i] : Finish(n, s, i) <= free1[u]
      BY <1>9, <3>1, <3>2
    <3> QED BY <1>4, <1>8, <2>1, <3>1, <3>3
  <2>2. CASE i = x /\ Mine
    <3>1. \A u \in T : free1[u] = at + n[x].len
      BY <1>4, <1>7, <2>2
    <3>2. at + n[x].len <= at + n[x].len
      BY <1>0, <1>1
    <3> QED BY <1>4, <1>6, <1>7, <2>2, <3>1, <3>2
  <2> QED BY <1>10, <2>1, <2>2
<1>14. ASSUME NEW j \in H, NEW u \in T, u \in hold[r][j], Mine
       PROVE  Finish(n, s1, j) <= s1.start[x]
  <2>1. Finish(n, s, j) <= free[u] /\ free[u] <= at /\ free[u] \in Nat
    BY <1>3, <1>7, <1>8, <1>14
  <2>2. Finish(n, s, j) \in Nat /\ Finish(n, s1, j) = Finish(n, s, j)
    BY <1>6
  <2> QED BY <1>1, <1>5, <2>1, <2>2
<1>15. ASSUME NEW i \in Holders(n, s1, r), NEW j \in Holders(n, s1, r), i # j,
              h[r][i] \cap h[r][j] # {}
       PROVE  Finish(n, s1, i) <= s1.start[j] \/ Finish(n, s1, j) <= s1.start[i]
  <2>1. CASE i \in H /\ j \in H
    <3>1. hold[r][i] \cap hold[r][j] # {}
      BY <1>6, <1>15, <2>1
    <3>2. Finish(n, s, i) <= s.start[j] \/ Finish(n, s, j) <= s.start[i]
      BY <1>8, <1>15, <2>1, <3>1
    <3>3. Finish(n, s1, i) = Finish(n, s, i) /\ Finish(n, s1, j) = Finish(n, s, j)
          /\ s1.start[i] = s.start[i] /\ s1.start[j] = s.start[j]
      BY <1>5, <1>6, <2>1
    <3> QED BY <3>2, <3>3
  <2>2. CASE i \in H /\ j = x /\ Mine
    <3>1. \E u : u \in hold[r][i] /\ u \in T
      BY <1>6, <1>15, <2>2
    <3> QED BY <1>14, <2>2, <3>1
  <2>3. CASE j \in H /\ i = x /\ Mine
    <3>1. \E u : u \in hold[r][j] /\ u \in T
      BY <1>6, <1>15, <2>3
    <3> QED BY <1>14, <2>3, <3>1
  <2> QED BY <1>10, <1>15, <2>1, <2>2, <2>3
<1>16. ASSUME NEW u \in DOMAIN free1, free1[u] > 0
       PROVE  \E i \in Holders(n, s1, r) : u \in h[r][i] /\ Finish(n, s1, i) = free1[u]
  <2>1. CASE Mine /\ u \in T
    <3>1. free1[u] = at + n[x].len
      BY <1>4, <2>1
    <3> QED BY <1>6, <1>11, <2>1, <3>1
  <2>2. CASE ~ (Mine /\ u \in T)
    <3>1. free1[u] = free[u]
      BY <1>4, <2>2
    <3>2. PICK i \in H : u \in hold[r][i] /\ Finish(n, s, i) = free[u]
      BY <1>4, <1>8, <1>16, <3>1
    <3> QED BY <1>6, <1>12, <3>1, <3>2
  <2> QED BY <2>1, <2>2
<1> QED BY <1>13, <1>15, <1>16 DEF free1

-----------------------------------------------------------------------------
(* The scheduler keeps it in order *)

(* Who is a candidate after a placement was one before it, or waits for what was placed. *)
LEMMA NewCandidate ==
  ASSUME NEW n, NEW caps, NEW rank, Levelable(n, caps, rank), NEW s, Placing(n, caps, s),
         NEW s1, NEW x, TakesTurn(n, s, s1, x), NEW i \in Candidates(n, s1)
  PROVE  \/ i \in Candidates(n, s) /\ ReadyAt(n, s1, i) = ReadyAt(n, s, i)
         \/ EarliestFeasible(n, s, x) <= ReadyAt(n, s1, i)
<1> DEFINE D == DOMAIN s.start
           P == DOMAIN n[i].preds
<1>1. i \in DOMAIN n /\ i \notin DOMAIN s1.start /\ P \subseteq DOMAIN s1.start
  BY DEF Candidates
<1>2. DOMAIN s1.start = D \cup {x} /\ x \in DOMAIN n /\ \A j \in D : s1.start[j] = s.start[j]
  BY DEF TakesTurn
<1>3. CASE x \in P
  <2>1. Placing(n, caps, s1)
    BY PlacingKept
  <2>2. Finish(n, s1, x) + n[i].preds[x] <= ReadyAt(n, s1, i) /\ ReadyAt(n, s1, i) \in Nat
    BY <1>1, <1>3, <2>1, ReadyIs
  <2>3. EarliestFeasible(n, s, x) \in Nat
    BY EarliestIs DEF TakesTurn
  <2>4. Finish(n, s1, x) = EarliestFeasible(n, s, x) + n[x].len
    BY DEF TakesTurn, Finish
  <2>5. n[x].len \in Nat /\ n[i].preds[x] \in Nat
    BY <1>1, <1>2, <1>3 DEF Levelable
  <2> DEFINE e == EarliestFeasible(n, s, x)
             ready == ReadyAt(n, s1, i)
  <2>6. e + n[x].len + n[i].preds[x] <= ready /\ e \in Nat /\ ready \in Nat
    BY <2>2, <2>3, <2>4
  <2> HIDE DEF e, ready
  <2>7. e <= ready
    BY <2>5, <2>6
  <2> QED BY <2>7 DEF e, ready
<1>4. CASE x \notin P
  <2>1. P \subseteq D
    BY <1>1, <1>2, <1>4
  <2>2. i \in Candidates(n, s)
    BY <1>1, <1>2, <2>1 DEF Candidates
  <2>3. \A p \in P : Finish(n, s1, p) = Finish(n, s, p)
    BY <1>2, <2>1 DEF Finish
  <2>4. {Finish(n, s1, p) + n[i].preds[p] : p \in P} = {Finish(n, s, p) + n[i].preds[p] : p \in P}
    BY <2>3
  <2>5. ReadyAt(n, s1, i) = ReadyAt(n, s, i)
    BY <2>4 DEF ReadyAt
  <2> QED BY <2>2, <2>5
<1> QED BY <1>3, <1>4

(* What x waited for is explained when it is placed. *)
LEMMA NewExplained ==
  ASSUME NEW n, NEW caps, NEW rank, Levelable(n, caps, rank), NEW s, Placing(n, caps, s),
         NEW s1, NEW x, TakesTurn(n, s, s1, x), NEW hold, Held(n, s, hold), Waiting(n, s, hold)
  PROVE  Explained(n, s1, HoldWith(n, s, hold, x), x)
<1> DEFINE at == EarliestFeasible(n, s, x)
           ready == ReadyAt(n, s, x)
           h == HoldWith(n, s, hold, x)
           D == DOMAIN s.start
<1>1. x \in Candidates(n, s) /\ x \in DOMAIN n /\ x \notin D /\ DOMAIN n[x].preds \subseteq D
      /\ s1.start[x] = at /\ \A j \in D : s1.start[j] = s.start[j]
  BY DEF TakesTurn
<1>2. at \in Nat /\ ready \in Nat /\ ready <= at
  BY <1>1, EarliestIs, ReadyIs
<1>3. \A k \in D : s.start[k] <= at
  BY <1>1, NoneGoesBack
<1>4. CASE at = ready
  <2>1. ready = 0 \/ \E p \in DOMAIN n[x].preds : Finish(n, s, p) + n[x].preds[p] = ready
    BY <1>1, ReadyIs
  <2>2. \A p \in DOMAIN n[x].preds : Finish(n, s1, p) = Finish(n, s, p)
    BY <1>1 DEF Finish
  <2> HIDE DEF h, at, ready
  <2>3. s1.start[x] = 0 \/ \E p \in DOMAIN n[x].preds : Finish(n, s1, p) + n[x].preds[p] = s1.start[x]
    <3>1. s1.start[x] = ready
      BY <1>1, <1>4
    <3>2. CASE ready = 0
      BY <3>1, <3>2
    <3>3. CASE \E p \in DOMAIN n[x].preds : Finish(n, s, p) + n[x].preds[p] = ready
      <4>1. PICK p \in DOMAIN n[x].preds : Finish(n, s, p) + n[x].preds[p] = ready
        BY <3>3
      <4>2. Finish(n, s1, p) + n[x].preds[p] = s1.start[x]
        BY <2>2, <3>1, <4>1
      <4> QED BY <4>2
    <3> QED BY <2>1, <3>2, <3>3 DEF ready
  <2> QED BY <2>3, Zenon DEF Explained
<1>5. CASE at # ready
  <2>1. ready < at
    BY <1>2, <1>5
  <2>2. at <= EarliestFeasible(n, s, x)
    <3> HIDE DEF at
    <3>1. at <= at
      BY <1>2
    <3> QED BY <3>1 DEF at
  <2>3. x \in Work(n) /\ Lacks(n, s, hold, x, at)
    <3> HIDE DEF at, ready
    <3> QED BY <1>1, <1>2, <1>3, <2>1, <2>2, LacksUntil DEF ready
  <2>4. PICK r \in DOMAIN n[x].claims : Cardinality(Idle(n, s, hold, r, at)) < n[x].claims[r]
    BY <2>3 DEF Lacks
  <2> DEFINE T == Taken(n, s, x, r)
             I == Idle(n, s, hold, r, at)
  <2>5. /\ r \in WorkPools(n) /\ n[x].claims[r] \in Nat
        /\ T \subseteq DOMAIN s.free[r] /\ Cardinality(T) = n[x].claims[r]
    BY <2>3, TakenIs
  <2>6. DOMAIN s.free = WorkPools(n) /\ \A u \in DOMAIN s.free[r] : s.free[r][u] \in Nat
    BY <2>5 DEF Placing
  <2>7. Cardinality(Idle(n, s1, h, r, at)) < n[x].claims[r]
    <3>1. /\ Cardinality(Idle(n, s1, h, r, at)) <= Cardinality(I)
          /\ Cardinality(Idle(n, s1, h, r, at)) \in Nat /\ Cardinality(I) \in Nat
      BY <2>5, <2>6, IdleShrinks
    <3> DEFINE a == Cardinality(Idle(n, s1, h, r, at))
               b == Cardinality(I)
    <3>2. a <= b /\ a \in Nat /\ b \in Nat /\ b < n[x].claims[r]
      BY <2>4, <3>1
    <3> HIDE DEF a, b
    <3>3. a < n[x].claims[r]
      BY <2>5, <3>2
    <3> QED BY <3>3 DEF a
  <2>8. PICK u \in T : u \notin I
    <3> SUFFICES ASSUME T \subseteq I PROVE FALSE
      OBVIOUS
    <3>1. IsFiniteSet(DOMAIN s.free[r])
      BY <2>5, UnitsAre DEF Placing
    <3>2. I \subseteq DOMAIN s.free[r]
      BY DEF Idle
    <3>3. IsFiniteSet(I)
      BY <3>1, <3>2, FS_Subset
    <3>4. Cardinality(T) <= Cardinality(I) /\ Cardinality(I) \in Nat
      BY <3>3, FS_Subset, FS_CardinalityType
    <3> HIDE DEF T, I
    <3> QED BY <2>4, <2>5, <3>4 DEF I
  <2>9. PICK j \in Holders(n, s, r) : u \in hold[r][j] /\ s.start[j] < at /\ ~ Finish(n, s, j) < at
    BY <2>5, <2>8 DEF Idle
  <2>10. Finish(n, s, j) <= s.free[r][u] /\ s.free[r][u] <= at /\ s.free[r][u] \in Nat
    <3>1. s.free[r][u] <= at
      BY <1>1, <2>3, EarliestIs
    <3> QED BY <2>5, <2>6, <2>9, <3>1 DEF Held
  <2>11. /\ Finish(n, s1, j) = Finish(n, s, j) /\ Finish(n, s, j) \in Nat
         /\ j \in Holders(n, s1, r) /\ j # x
    BY <2>5, <2>6, TurnIs
  <2>12. Finish(n, s1, j) = at
    <3> DEFINE f == Finish(n, s, j)
               v == s.free[r][u]
    <3>1. f <= v /\ v <= at /\ v \in Nat /\ f \in Nat /\ ~ f < at
      BY <2>9, <2>10, <2>11
    <3> HIDE DEF f, v, at
    <3>2. f = at
      BY <1>2, <3>1
    <3> QED BY <2>11, <3>2 DEF f
  <2>13. s1.start[x] = at
    BY <1>1
  <2> HIDE DEF h, at
  <2>14. Cardinality(Idle(n, s1, h, r, s1.start[x])) < n[x].claims[r]
    BY <2>7, <2>13
  <2>15. j \in Holders(n, s1, r) /\ j # x /\ Finish(n, s1, j) = s1.start[x]
    BY <2>11, <2>12, <2>13
  <2>16. x \in Work(n) /\ r \in DOMAIN n[x].claims
    BY <2>3, <2>4
  <2> QED BY <2>14, <2>15, <2>16, Zenon DEF Explained, h
<1> QED BY <1>4, <1>5

(* The invariant of the placement is one. *)
LEMMA UnderKept ==
  ASSUME NEW n, NEW caps, NEW rank, Levelable(n, caps, rank), NEW s, Under(n, caps, s),
         NEW s1, NEW x, TakesTurn(n, s, s1, x)
  PROVE  Under(n, caps, s1)
<1>1. Placing(n, caps, s) /\ Placing(n, caps, s1)
  BY PlacingKept DEF Under
<1>2. PICK hold : /\ Held(n, s, hold) /\ Waiting(n, s, hold)
                  /\ \A i \in DOMAIN s.start : Explained(n, s, hold, i)
  BY DEF Under
<1> DEFINE h == HoldWith(n, s, hold, x)
           at == EarliestFeasible(n, s, x)
           D == DOMAIN s.start
<1>3. Held(n, s1, h)
  BY <1>1, <1>2, HeldKept
<1>4. /\ x \in Candidates(n, s) /\ x \in DOMAIN n /\ x \notin D /\ DOMAIN n[x].preds \subseteq D
      /\ DOMAIN s1.start = D \cup {x} /\ s1.start[x] = at /\ \A j \in D : s1.start[j] = s.start[j]
      /\ \A d \in Candidates(n, s) : at <= EarliestFeasible(n, s, d)
  BY DEF TakesTurn
<1>5. at \in Nat /\ \A k \in D : s.start[k] <= at /\ s.start[k] \in Nat
  <2>1. at \in Nat
    BY <1>1, <1>4, EarliestIs
  <2>2. \A k \in D : s.start[k] <= at
    BY <1>1, <1>2, <1>4, NoneGoesBack
  <2> QED BY <1>1, <2>1, <2>2 DEF Placing
<1>6. \A i \in DOMAIN n : \A r \in DOMAIN n[i].claims : i \in Work(n) => r \in DOMAIN s.free
  BY <1>1 DEF Placing, WorkPools
<1>7. Waiting(n, s1, h)
  <2> SUFFICES ASSUME NEW i \in Candidates(n, s1), NEW j \in DOMAIN s1.start,
                      ReadyAt(n, s1, i) < s1.start[j],
                      \A k \in DOMAIN s1.start : s1.start[k] <= s1.start[j]
               PROVE  i \in Work(n) /\ Lacks(n, s1, h, i, s1.start[j])
    BY DEF Waiting
  <2>1. s1.start[j] = at
    <3>1. at <= s1.start[j]
      BY <1>4
    <3>2. j = x \/ (s1.start[j] <= at /\ s1.start[j] \in Nat)
      BY <1>4, <1>5
    <3> HIDE DEF at
    <3> QED BY <1>4, <1>5, <3>1, <3>2
  <2>2. i \in Candidates(n, s) /\ ReadyAt(n, s1, i) = ReadyAt(n, s, i)
    <3>1. ReadyAt(n, s1, i) \in Nat
      BY <1>1, ReadyIs DEF Candidates
    <3>2. ~ at <= ReadyAt(n, s1, i)
      <4> DEFINE ready == ReadyAt(n, s1, i)
      <4>1. ready < at /\ ready \in Nat
        BY <2>1, <3>1
      <4> HIDE DEF ready, at
      <4> QED BY <1>5, <4>1 DEF ready
    <3> HIDE DEF h
    <3> QED BY <1>1, <3>2, NewCandidate
  <2>3. i \in Work(n) /\ Lacks(n, s, hold, i, at)
    <3>1. ReadyAt(n, s, i) < at /\ at <= EarliestFeasible(n, s, i)
      BY <1>4, <2>1, <2>2
    <3> HIDE DEF at, h
    <3> QED BY <1>1, <1>2, <1>5, <2>2, <3>1, LacksUntil
  <2>4. PICK r \in DOMAIN n[i].claims : Cardinality(Idle(n, s, hold, r, at)) < n[i].claims[r]
    BY <2>3 DEF Lacks
  <2>5. r \in DOMAIN s.free /\ n[i].claims[r] \in Nat
    BY <1>6, <2>3 DEF Work, Levelable
  <2> DEFINE a == Cardinality(Idle(n, s1, h, r, at))
             b == Cardinality(Idle(n, s, hold, r, at))
  <2>6. a <= b /\ a \in Nat /\ b \in Nat /\ b < n[i].claims[r]
    BY <1>1, <2>4, <2>5, IdleShrinks
  <2> HIDE DEF a, b, at
  <2>7. a < n[i].claims[r]
    BY <2>5, <2>6
  <2> QED BY <2>1, <2>3, <2>7 DEF Lacks, a
<1>8. ASSUME NEW i \in D PROVE Explained(n, s1, h, i)
  <2>1. s1.start[i] = s.start[i] /\ \A p \in DOMAIN n[i].preds : p \in D
    BY <1>1, <1>4 DEF Placing
  <2>2. \A p \in D : Finish(n, s1, p) = Finish(n, s, p)
    BY <1>4 DEF Finish
  <2>3. Explained(n, s, hold, i)
    BY <1>2
  <2>4. CASE s.start[i] = 0
    BY <2>1, <2>4 DEF Explained
  <2>5. CASE \E p \in DOMAIN n[i].preds : Finish(n, s, p) + n[i].preds[p] = s.start[i]
    <3>1. \E p \in DOMAIN n[i].preds : Finish(n, s1, p) + n[i].preds[p] = s1.start[i]
      BY <2>1, <2>2, <2>5
    <3> QED BY <3>1 DEF Explained
  <2>6. CASE /\ i \in Work(n)
             /\ \E r \in DOMAIN n[i].claims :
                   /\ Cardinality(Idle(n, s, hold, r, s.start[i])) < n[i].claims[r]
                   /\ \E j \in Holders(n, s, r) : j # i /\ Finish(n, s, j) = s.start[i]
    <3>1. PICK r \in DOMAIN n[i].claims :
                   /\ Cardinality(Idle(n, s, hold, r, s.start[i])) < n[i].claims[r]
                   /\ \E j \in Holders(n, s, r) : j # i /\ Finish(n, s, j) = s.start[i]
      BY <2>6
    <3>2. PICK j \in Holders(n, s, r) : j # i /\ Finish(n, s, j) = s.start[i]
      BY <3>1
    <3>3. r \in DOMAIN s.free /\ n[i].claims[r] \in Nat
      BY <1>6, <2>6 DEF Work, Levelable
    <3>4. j \in Holders(n, s1, r) /\ Finish(n, s1, j) = s1.start[i]
      <4>1. j \in Holders(n, s1, r)
        <5>1. Holders(n, s1, r) = Holders(n, s, r)
                                  \cup IF x \in Work(n) /\ r \in DOMAIN n[x].claims THEN {x} ELSE {}
          BY <1>1, <3>3, TurnIs
        <5>2. j \in Holders(n, s, r)
          BY <3>2
        <5> QED BY <5>1, <5>2
      <4>2. j \in D
        BY DEF Holders
      <4> QED BY <2>1, <2>2, <3>2, <4>1, <4>2
    <3> DEFINE t == s.start[i]
               a == Cardinality(Idle(n, s1, h, r, t))
               b == Cardinality(Idle(n, s, hold, r, t))
    <3>5. a <= b /\ a \in Nat /\ b \in Nat /\ b < n[i].claims[r]
      BY <1>1, <3>1, <3>3, IdleShrinks
    <3> HIDE DEF a, b, h
    <3>6. a < n[i].claims[r]
      BY <3>3, <3>5
    <3> QED BY <2>1, <2>6, <3>2, <3>4, <3>6 DEF Explained, a
  <2> HIDE DEF h
  <2> QED BY <2>3, <2>4, <2>5, <2>6 DEF Explained
<1>9. Explained(n, s1, h, x)
  BY <1>1, <1>2, NewExplained
<1>10. \A i \in DOMAIN s1.start : Explained(n, s1, h, i)
  <2> HIDE DEF h
  <2> QED BY <1>4, <1>8, <1>9
<1> HIDE DEF h
<1> QED BY <1>1, <1>3, <1>7, <1>10 DEF Under

-----------------------------------------------------------------------------
(* All of the nodes are placed. *)

(* The scheduler takes one step after the other. *)
LEMMA PlacedUnfolds ==
  ASSUME NEW n, NEW caps, Len(n) \in Nat
  PROVE  \E after : /\ Placed(n, caps) = after[Len(n)] /\ after[0] = Unplaced(n, caps)
                    /\ \A k \in 1 .. Len(n) : after[k] = Place(n, Tails(n), after[k - 1])
<1> DEFINE first == Unplaced(n, caps)
           Step(s) == Place(n, Tails(n), s)
           Is(f, m) == f = [k \in 0 .. m |-> IF k = 0 THEN first ELSE Step(f[k - 1])]
           G == {m \in Nat : \E f : Is(f, m)}
<1>1. 0 \in G
  <2>1. Is([k \in 0 .. 0 |-> first], 0)
    <3> HIDE DEF Step, first
    <3> QED OBVIOUS
  <2> QED BY <2>1
<1>2. ASSUME NEW m \in Nat, m \in G PROVE m + 1 \in G
  <2> HIDE DEF Step, first
  <2>1. PICK f : Is(f, m)
    BY <1>2
  <2> DEFINE h == [k \in 0 .. m + 1 |-> IF k = m + 1 THEN Step(f[m]) ELSE f[k]]
  <2>2. Is(h, m + 1)
    BY <2>1
  <2> HIDE DEF h, Is
  <2> QED BY <2>2
<1>3. PICK f : Is(f, Len(n))
  <2> HIDE DEF Is
  <2>1. Len(n) \in G
    <3> HIDE DEF G
    <3> QED BY <1>1, <1>2, Upward
  <2> QED BY <2>1
<1> DEFINE after[k \in 0 .. Len(n)] ==
             IF k = 0 THEN Unplaced(n, caps) ELSE Place(n, Tails(n), after[k - 1])
<1>4. after = [k \in 0 .. Len(n) |-> IF k = 0 THEN Unplaced(n, caps) ELSE Place(n, Tails(n), after[k - 1])]
  BY <1>3, Zenon
<1>5. Placed(n, caps) = after[Len(n)]
  BY Zenon DEF Placed
<1> HIDE DEF after
<1>6. after[0] = Unplaced(n, caps) /\ \A k \in 1 .. Len(n) : after[k] = Place(n, Tails(n), after[k - 1])
  <2>1. after = [k \in 0 .. Len(n) |-> IF k = 0 THEN first ELSE Step(after[k - 1])]
    BY <1>4, Zenon
  <2> HIDE DEF Step, first
  <2>2. after[0] = first /\ \A k \in 1 .. Len(n) : after[k] = Step(after[k - 1])
    BY <2>1
  <2> QED BY <2>2, Zenon DEF Step, first
<1> QED BY <1>5, <1>6

(* The scheduler places every node, and every placement on the way is in order: precedences hold, no two nodes share a unit at a time, and nothing waits that could have started. *)
THEOREM PlacedIs ==
  ASSUME NEW n, NEW caps, NEW rank, Levelable(n, caps, rank)
  PROVE  Under(n, caps, Placed(n, caps)) /\ DOMAIN Placed(n, caps).start = DOMAIN n
<1> DEFINE N == Len(n)
<1>0. N \in Nat /\ DOMAIN n = 1 .. N
  BY DEF Levelable
<1>1. PICK after : /\ Placed(n, caps) = after[N] /\ after[0] = Unplaced(n, caps)
                   /\ \A k \in 1 .. N : after[k] = Place(n, Tails(n), after[k - 1])
  BY <1>0, PlacedUnfolds
<1>a. IsFiniteSet(DOMAIN n) /\ Cardinality(DOMAIN n) = N
  <2>1. 1 \in Int /\ N \in Int
    BY <1>0
  <2>2. IsFiniteSet(1 .. N) /\ Cardinality(1 .. N) = IF 1 > N THEN 0 ELSE N - 1 + 1
    BY <2>1, FS_Interval
  <2> HIDE DEF N
  <2> QED BY <1>0, <2>2
<1> HIDE DEF N
<1> DEFINE G == {k \in Nat : k <= N => /\ Under(n, caps, after[k])
                                       /\ IsFiniteSet(DOMAIN after[k].start)
                                       /\ Cardinality(DOMAIN after[k].start) = k}
<1>2. 0 \in G
  <2>1. Under(n, caps, after[0]) /\ DOMAIN after[0].start = {}
    BY <1>1, UnplacedIs
  <2> QED BY <2>1, FS_EmptySet
<1>3. ASSUME NEW k \in Nat, k \in G PROVE k + 1 \in G
  <2> SUFFICES ASSUME k + 1 <= N
               PROVE  /\ Under(n, caps, after[k + 1])
                      /\ IsFiniteSet(DOMAIN after[k + 1].start)
                      /\ Cardinality(DOMAIN after[k + 1].start) = k + 1
    OBVIOUS
  <2> DEFINE s == after[k]
             s1 == after[k + 1]
  <2>1. Under(n, caps, s) /\ IsFiniteSet(DOMAIN s.start) /\ Cardinality(DOMAIN s.start) = k
    BY <1>0, <1>3
  <2>2. s1 = Place(n, Tails(n), s)
    <3>1. k + 1 \in 1 .. N /\ k + 1 - 1 = k
      BY <1>0
    <3> QED BY <1>1, <3>1
  <2> HIDE DEF s, s1
  <2>3. DOMAIN s.start # DOMAIN n
    BY <1>0, <1>a, <2>1
  <2>4. PICK x \in DOMAIN n : TakesTurn(n, s, s1, x)
    BY <2>1, <2>2, <2>3, PlaceIs DEF Under
  <2>5. Under(n, caps, s1)
    BY <2>1, <2>4, UnderKept
  <2>6. DOMAIN s1.start = DOMAIN s.start \cup {x} /\ x \notin DOMAIN s.start
    BY <2>4 DEF TakesTurn
  <2>7. IsFiniteSet(DOMAIN s1.start) /\ Cardinality(DOMAIN s1.start) = k + 1
    <3> DEFINE S == DOMAIN s.start
    <3>1. IsFiniteSet(S) /\ Cardinality(S) = k /\ x \notin S /\ DOMAIN s1.start = S \cup {x}
      BY <2>1, <2>6
    <3> HIDE DEF S
    <3>2. IsFiniteSet(S \cup {x}) /\ Cardinality(S \cup {x}) = Cardinality(S) + 1
      BY <3>1, FS_AddElement
    <3> QED BY <3>1, <3>2
  <2> QED BY <2>5, <2>7 DEF s1
<1>4. N \in G
  <2> HIDE DEF G
  <2> QED BY <1>0, <1>2, <1>3, Upward
<1> DEFINE s == after[N]
<1>5. Under(n, caps, s) /\ Cardinality(DOMAIN s.start) = N
  BY <1>0, <1>4
<1> HIDE DEF s
<1>6. DOMAIN s.start \subseteq DOMAIN n
  BY <1>5 DEF Under, Placing
<1>7. DOMAIN s.start = DOMAIN n
  BY <1>a, <1>5, <1>6, FS_Subset
<1> QED BY <1>1, <1>5, <1>7 DEF s

-----------------------------------------------------------------------------
(* The nodes of an accepted graph *)

(* What a deliverable claims, once its resources are in order. *)
LEMMA ResourcesAre ==
  ASSUME NEW d, IsDeliverable(d), ~ BadResources(d)
  PROVE  IsFiniteSet(DOMAIN ResourcesOf(d)) /\ \A r \in DOMAIN ResourcesOf(d) : ResourcesOf(d)[r] \in Nat \ {0}
<1> DEFINE c == ResourcesOf(d)
<1>1. CASE d.wallClock
  <2>1. c = [r \in {} |-> 0]
    BY <1>1 DEF ResourcesOf
  <2> HIDE DEF c
  <2>2. DOMAIN c = {}
    BY <2>1
  <2> QED BY <2>2, FS_EmptySet DEF c
<1>2. CASE ~ d.wallClock /\ d.claims # None
  <2>1. c = d.claims
    BY <1>2 DEF ResourcesOf
  <2>2. IsFiniteSet(DOMAIN d.claims) /\ \A r \in DOMAIN d.claims : d.claims[r] \in Nat
    BY <1>2 DEF IsDeliverable, IsClaims
  <2>3. \A r \in DOMAIN d.claims : d.claims[r] # 0
    BY <1>2 DEF BadResources
  <2> HIDE DEF c
  <2>4. \A r \in DOMAIN c : c[r] \in Nat \ {0}
    BY <2>1, <2>2, <2>3
  <2> QED BY <2>1, <2>2, <2>4 DEF c
<1>3. CASE ~ d.wallClock /\ d.claims = None
  <2> DEFINE pool == IF d.owner = None THEN Unassigned ELSE d.owner
  <2>1. c = [r \in {pool} |-> 1]
    BY <1>3 DEF ResourcesOf
  <2> HIDE DEF c, pool
  <2>2. DOMAIN c = {pool} /\ \A r \in DOMAIN c : c[r] = 1
    BY <2>1
  <2>3. IsFiniteSet(DOMAIN c)
    BY <2>2, FS_Singleton
  <2> QED BY <2>2, <2>3 DEF c
<1> QED BY <1>1, <1>2, <1>3

(* The nodes of a graph, by position. *)
LEMMA NodeIs ==
  ASSUME NEW g, IsGraph(g)
  PROVE  /\ DOMAIN Nodes(g) = DOMAIN g /\ Len(Nodes(g)) = Len(g) /\ Len(g) \in Nat
         /\ DOMAIN g = 1 .. Len(g)
         /\ \A i \in DOMAIN g :
               /\ Nodes(g)[i].id = g[i].id /\ Nodes(g)[i].len = ScheduledLength(g[i])
               /\ Nodes(g)[i].claims = ResourcesOf(g[i])
               /\ DOMAIN Nodes(g)[i].preds = {j \in DOMAIN g : g[j].id \in Prerequisites(g[i])}
               /\ \A j \in DOMAIN Nodes(g)[i].preds : Nodes(g)[i].preds[j] = g[i].pre[g[j].id].lag
<1> DEFINE D == DOMAIN g
           Deps(i) == {j \in D : g[j].id \in Prerequisites(g[i])}
           Node(i) == [id |-> g[i].id, len |-> ScheduledLength(g[i]), claims |-> ResourcesOf(g[i]),
                       preds |-> [j \in Deps(i) |-> g[i].pre[g[j].id].lag]]
<1>1. Nodes(g) = [i \in D |-> Node(i)]
  BY Zenon DEF Nodes
<1>2. Len(g) \in Nat /\ D = 1 .. Len(g)
  BY GraphIs
<1>3. DOMAIN Nodes(g) = 1 .. Len(g)
  BY <1>1, <1>2
<1>4. Len(Nodes(g)) = Len(g)
  <2> DEFINE nodes == Nodes(g)
             N == Len(g)
  <2>1. DOMAIN nodes = 1 .. N /\ N \in Nat
    BY <1>2, <1>3
  <2>2. nodes = [i \in 1 .. N |-> nodes[i]]
    BY <1>1, <1>2
  <2>3. nodes \in Seq({nodes[i] : i \in 1 .. N})
    <3> HIDE DEF nodes, N
    <3>1. nodes \in [1 .. N -> {nodes[i] : i \in 1 .. N}]
      BY <2>2
    <3>2. nodes \in UNION {[1 .. k -> {nodes[i] : i \in 1 .. N}] : k \in Nat}
      BY <2>1, <3>1
    <3> QED BY <3>2, SeqDef
  <2>4. Len(nodes) \in Nat /\ DOMAIN nodes = 1 .. Len(nodes)
    <3> HIDE DEF nodes, N
    <3> QED BY <2>3, LenProperties
  <2> HIDE DEF nodes, N
  <2>5. Len(nodes) = N
    BY <2>1, <2>4
  <2> QED BY <2>5 DEF nodes, N
<1>5. ASSUME NEW i \in D
      PROVE  /\ Nodes(g)[i].id = g[i].id /\ Nodes(g)[i].len = ScheduledLength(g[i])
             /\ Nodes(g)[i].claims = ResourcesOf(g[i])
             /\ DOMAIN Nodes(g)[i].preds = {j \in D : g[j].id \in Prerequisites(g[i])}
             /\ \A j \in DOMAIN Nodes(g)[i].preds : Nodes(g)[i].preds[j] = g[i].pre[g[j].id].lag
  <2> DEFINE node == Node(i)
  <2>1. Nodes(g)[i] = node
    BY <1>1
  <2>2. /\ node.id = g[i].id /\ node.len = ScheduledLength(g[i]) /\ node.claims = ResourcesOf(g[i])
        /\ node.preds = [j \in Deps(i) |-> g[i].pre[g[j].id].lag]
    BY Zenon
  <2>3. DOMAIN node.preds = Deps(i) /\ \A j \in Deps(i) : node.preds[j] = g[i].pre[g[j].id].lag
    BY <2>2
  <2> HIDE DEF node
  <2> QED BY <2>1, <2>2, <2>3
<1> QED BY <1>2, <1>3, <1>4, <1>5

(* A valid graph whose resources and capacities are in order can be leveled. *)
LEMMA NodesAre ==
  ASSUME NEW g, IsGraph(g), Valid(g), NEW caps, caps # None, IsClaims(caps), Schedulable(g, caps)
  PROVE  \E rank : Levelable(Nodes(g), caps, rank)
<1> DEFINE n == Nodes(g)
           D == DOMAIN g
<1>1. PICK depth : Plannable(g, depth)
  BY ValidIsPlannable
<1>2. DOMAIN n = D /\ Len(n) = Len(g) /\ Len(g) \in Nat /\ D = 1 .. Len(g)
  BY NodeIs
<1>3. ASSUME NEW i \in D
      PROVE  /\ n[i].id = g[i].id /\ n[i].len = ScheduledLength(g[i]) /\ n[i].claims = ResourcesOf(g[i])
             /\ DOMAIN n[i].preds = {j \in D : g[j].id \in Prerequisites(g[i])}
             /\ \A j \in DOMAIN n[i].preds : n[i].preds[j] = g[i].pre[g[j].id].lag
  BY NodeIs
<1> HIDE DEF n
<1> DEFINE rank == [i \in D |-> depth[g[i].id]]
<1>4. rank \in [D -> Nat] /\ \A i \in D : \A p \in DOMAIN n[i].preds : rank[p] < rank[i]
  <2>1. Ranks(g, depth) /\ UniqueIds(g)
    BY <1>1 DEF Plannable
  <2>2. ASSUME NEW i \in D PROVE depth[g[i].id] \in Nat
    BY <2>1, GraphIs DEF Ranks
  <2>3. ASSUME NEW i \in D, NEW p \in DOMAIN n[i].preds PROVE depth[g[p].id] < depth[g[i].id]
    <3>1. p \in D /\ g[p].id \in Prerequisites(g[i])
      BY <1>3
    <3>2. Find(g, g[i].id) = g[i] /\ g[i].id \in IdSet(g)
      BY <2>1, FindIs, GraphIs
    <3> QED BY <2>1, <3>1, <3>2 DEF Ranks
  <2>4. \A i \in D : \A p \in DOMAIN n[i].preds : p \in D
    BY <1>3
  <2> QED BY <2>2, <2>3, <2>4
<1>5. ASSUME NEW i \in D
      PROVE  /\ n[i].len \in Nat /\ n[i].id \in Int
             /\ DOMAIN n[i].preds \subseteq D
             /\ \A p \in DOMAIN n[i].preds : n[i].preds[p] \in Nat
             /\ IsFiniteSet(DOMAIN n[i].claims)
             /\ \A r \in DOMAIN n[i].claims : n[i].claims[r] \in Nat \ {0}
  <2>1. ~ ValueProblem(g[i]) /\ IsDeliverable(g[i]) /\ ~ BadResources(g[i])
    BY <1>1 DEF Plannable, IsGraph, Schedulable
  <2>2. ScheduledLength(g[i]) \in Nat /\ \A p \in Prerequisites(g[i]) : g[i].pre[p].lag \in Nat
    BY <2>1, ValuesOk, NetworkAssumption
  <2>3. g[i].id \in Int
    BY <2>1 DEF IsDeliverable
  <2>4. IsFiniteSet(DOMAIN ResourcesOf(g[i]))
        /\ \A r \in DOMAIN ResourcesOf(g[i]) : ResourcesOf(g[i])[r] \in Nat \ {0}
    BY <2>1, ResourcesAre
  <2> QED BY <1>3, <2>2, <2>3, <2>4
<1>6. \A i, j \in D : n[i].id = n[j].id => i = j
  BY <1>1, <1>3, FindIs DEF Plannable
<1>7. \A r : Capacity(caps, r) \in Nat
  BY DEF Capacity, IsClaims
<1>8. ASSUME NEW i \in Work(n), NEW r \in DOMAIN n[i].claims PROVE n[i].claims[r] <= Capacity(caps, r)
  <2>1. i \in D /\ n[i].len > 0
    BY <1>2 DEF Work
  <2>2. Missing(n, caps) = {}
    BY DEF Schedulable, n
  <2>3. ~ Capacity(caps, r) < n[i].claims[r]
    BY <1>2, <2>1, <2>2 DEF Missing
  <2> QED BY <1>5, <1>7, <2>1, <2>3
<1> HIDE DEF rank, D
<1>9. Levelable(n, caps, rank)
  BY <1>2, <1>4, <1>5, <1>6, <1>7, <1>8 DEF Levelable
<1> QED BY <1>9 DEF n

-----------------------------------------------------------------------------
(* No pool is claimed beyond its capacity *)

(* Who is at work at a time. *)
Running(n, s, at) == {i \in DOMAIN n : s.start[i] <= at /\ at < s.start[i] + n[i].len}

(* No pool is claimed beyond its capacity, at any time. *)
THEOREM RunningFits ==
  ASSUME NEW n, NEW caps, NEW rank, Levelable(n, caps, rank), NEW r \in WorkPools(n), NEW at \in Int
  PROVE  Claimed(n, Running(n, Placed(n, caps), at), r) <= Capacity(caps, r)
<1> DEFINE s == Placed(n, caps)
           D == DOMAIN n
           S == Running(n, s, at)
           U == Units(n, caps, r)
<1>1. Under(n, caps, s) /\ DOMAIN s.start = D
  BY PlacedIs
<1> HIDE DEF s
<1>2. Placing(n, caps, s)
  BY <1>1 DEF Under
<1>3. PICK hold : Held(n, s, hold)
  BY <1>1 DEF Under
<1>4. r \in DOMAIN s.free /\ DOMAIN s.free[r] = U
  BY <1>2 DEF Placing
<1>5. \A i \in D : s.start[i] \in Nat /\ n[i].len \in Nat
  BY <1>1, <1>2 DEF Placing, Levelable
<1>6. ASSUME NEW i \in S PROVE i \in D /\ i \in Work(n) /\ s.start[i] <= at /\ at < Finish(n, s, i)
  <2>1. i \in D /\ s.start[i] <= at /\ at < s.start[i] + n[i].len
    BY DEF Running
  <2>2. n[i].len > 0
    BY <1>5, <2>1
  <2> QED BY <2>1, <2>2 DEF Work, Finish
<1>7. ASSUME NEW i \in S, r \in DOMAIN n[i].claims PROVE i \in Holders(n, s, r)
  BY <1>1, <1>6, <1>7 DEF Holders
<1>8. \A i \in S \cap D : r \in DOMAIN n[i].claims =>
         hold[r][i] \subseteq U /\ Cardinality(hold[r][i]) = n[i].claims[r]
  BY <1>3, <1>4, <1>7 DEF Held
<1>9. ASSUME NEW i \in S, NEW j \in S, i # j, r \in DOMAIN n[i].claims, r \in DOMAIN n[j].claims
      PROVE  hold[r][i] \cap hold[r][j] = {}
  <2> SUFFICES ASSUME hold[r][i] \cap hold[r][j] # {} PROVE FALSE
    OBVIOUS
  <2>1. i \in Holders(n, s, r) /\ j \in Holders(n, s, r)
    BY <1>7, <1>9
  <2>2. Finish(n, s, i) <= s.start[j] \/ Finish(n, s, j) <= s.start[i]
    BY <1>3, <1>4, <1>9, <2>1 DEF Held
  <2> DEFINE fi == Finish(n, s, i)
             fj == Finish(n, s, j)
             si == s.start[i]
             sj == s.start[j]
  <2>3. si \in Nat /\ sj \in Nat /\ fi \in Nat /\ fj \in Nat
    BY <1>5, <1>6 DEF Finish
  <2>4. si <= at /\ at < fi /\ sj <= at /\ at < fj /\ (fi <= sj \/ fj <= si)
    BY <1>6, <2>2
  <2> HIDE DEF fi, fj, si, sj
  <2> QED BY <2>3, <2>4
<1>10. IsFiniteSet(U) /\ Cardinality(U) \in Nat /\ Cardinality(U) <= Capacity(caps, r)
  BY UnitsAre
<1> DEFINE h == hold[r]
<1>11. Claimed(n, S, r) <= Cardinality(U)
  <2>1. \A i \in S \cap D : r \in DOMAIN n[i].claims => h[i] \subseteq U /\ Cardinality(h[i]) = n[i].claims[r]
    BY <1>8
  <2>2. \A i, j \in S \cap D :
            (i # j /\ r \in DOMAIN n[i].claims /\ r \in DOMAIN n[j].claims) => h[i] \cap h[j] = {}
    BY <1>9
  <2> HIDE DEF h, S, U
  <2> QED BY <1>10, <2>1, <2>2, ClaimsFit
<1>12. Claimed(n, S, r) \in Nat
  BY ClaimedIs
<1>13. Capacity(caps, r) \in Nat
  BY DEF Levelable
<1> HIDE DEF S, U
<1>14. Claimed(n, S, r) <= Capacity(caps, r)
  BY <1>10, <1>11, <1>12, <1>13
<1> QED BY <1>14 DEF S, s

(* Nothing starts before its dependencies are done and their lags have passed. *)
LEMMA PrecedenceHolds ==
  ASSUME NEW n, NEW caps, NEW rank, Levelable(n, caps, rank)
  PROVE  \A i \in DOMAIN n :
            /\ Placed(n, caps).start[i] \in Nat
            /\ \A p \in DOMAIN n[i].preds :
                  Placed(n, caps).start[i] >= Placed(n, caps).start[p] + n[p].len + n[i].preds[p]
<1> DEFINE s == Placed(n, caps)
<1>1. Placing(n, caps, s) /\ DOMAIN s.start = DOMAIN n
  BY PlacedIs DEF Under
<1> HIDE DEF s
<1>2. ASSUME NEW i \in DOMAIN n PROVE s.start[i] \in Nat
  BY <1>1 DEF Placing
<1>3. ASSUME NEW i \in DOMAIN n, NEW p \in DOMAIN n[i].preds
      PROVE  s.start[i] >= s.start[p] + n[p].len + n[i].preds[p]
  <2>1. Finish(n, s, p) + n[i].preds[p] <= s.start[i] /\ p \in DOMAIN n
    BY <1>1 DEF Placing
  <2>2. n[p].len \in Nat /\ n[i].preds[p] \in Nat /\ s.start[p] \in Nat /\ s.start[i] \in Nat
    BY <1>2, <2>1 DEF Levelable
  <2> QED BY <2>1, <2>2 DEF Finish
<1> QED BY <1>2, <1>3 DEF s

-----------------------------------------------------------------------------
(* More claimants claim more *)

(* One more claimant claims its units on top. *)
LEMMA ClaimsGrow ==
  ASSUME NEW n, NEW caps, NEW rank, Levelable(n, caps, rank), NEW r, NEW S, NEW T,
         S \subseteq T, NEW i \in DOMAIN n, i \in T, i \notin S, r \in DOMAIN n[i].claims
  PROVE  Claimed(n, S, r) + n[i].claims[r] <= Claimed(n, T, r)
<1> DEFINE AddS(k) == Added(n, S, r, k)
           AddT(k) == Added(n, T, r, k)
           N == Len(n)
           c == n[i].claims[r]
<1>0. N \in Nat /\ DOMAIN n = 1 .. N /\ i \in 1 .. N /\ c \in Nat
  BY DEF Levelable
<1>1. PICK s : /\ Claimed(n, S, r) = s[N] /\ s[0] = 0 /\ \A k \in 1 .. N : s[k] = s[k - 1] + AddS(k)
  BY <1>0, ClaimedUnfolds
<1>2. PICK t : /\ Claimed(n, T, r) = t[N] /\ t[0] = 0 /\ \A k \in 1 .. N : t[k] = t[k - 1] + AddT(k)
  BY <1>0, ClaimedUnfolds
<1>3. \A k \in 1 .. N : AddS(k) \in Nat /\ AddT(k) \in Nat
  BY <1>0 DEF Levelable, Added
<1>4. AddS(i) = 0 /\ AddT(i) = c
  BY DEF Added
<1>5. ASSUME NEW k \in 1 .. N PROVE AddS(k) <= AddT(k)
  <2>1. AddS(k) = AddT(k) \/ AddS(k) = 0
    BY DEF Added
  <2> HIDE DEF AddS, AddT
  <2> QED BY <1>3, <2>1
<1> HIDE DEF AddS, AddT, N, c
<1> DEFINE more(k) == IF i <= k THEN c ELSE 0
           G == {k \in Nat : k <= N => s[k] \in Nat /\ t[k] \in Nat /\ s[k] + more(k) <= t[k]}
<1>6. 0 \in G
  BY <1>0, <1>1, <1>2
<1>7. ASSUME NEW k \in Nat, k \in G PROVE k + 1 \in G
  <2> SUFFICES ASSUME k + 1 <= N
               PROVE  s[k + 1] \in Nat /\ t[k + 1] \in Nat /\ s[k + 1] + more(k + 1) <= t[k + 1]
    OBVIOUS
  <2>1. s[k] \in Nat /\ t[k] \in Nat /\ s[k] + more(k) <= t[k]
    BY <1>0, <1>7
  <2>2. k + 1 \in 1 .. N /\ s[k + 1] = s[k] + AddS(k + 1) /\ t[k + 1] = t[k] + AddT(k + 1)
    BY <1>0, <1>1, <1>2
  <2>3. AddS(k + 1) \in Nat /\ AddT(k + 1) \in Nat /\ AddS(k + 1) <= AddT(k + 1)
    BY <1>3, <1>5, <2>2
  <2>4. CASE i = k + 1
    <3>1. AddS(k + 1) = 0 /\ AddT(k + 1) = c
      BY <1>4, <2>4
    <3>2. more(k) = 0 /\ more(k + 1) = c
      BY <1>0, <2>4
    <3> HIDE DEF more
    <3> QED BY <1>0, <2>1, <2>2, <3>1, <3>2
  <2>5. CASE i # k + 1
    <3>1. more(k) = more(k + 1) /\ more(k) \in Nat
      BY <1>0, <2>5
    <3> HIDE DEF more
    <3> QED BY <2>1, <2>2, <2>3, <3>1
  <2> QED BY <2>4, <2>5
<1>8. N \in G
  <2> HIDE DEF G
  <2> QED BY <1>0, <1>6, <1>7, Upward
<1>9. s[N] + c <= t[N]
  BY <1>0, <1>8
<1> QED BY <1>1, <1>2, <1>9 DEF c

(* What the claimants hold is no more than they claim. *)
LEMMA ClaimsCover ==
  ASSUME NEW n, NEW caps, NEW rank, Levelable(n, caps, rank), NEW S, NEW r, NEW hold, NEW V,
         \A i \in S \cap DOMAIN n : r \in DOMAIN n[i].claims =>
            IsFiniteSet(hold[i]) /\ Cardinality(hold[i]) = n[i].claims[r],
         \A u \in V : \E i \in S \cap DOMAIN n : r \in DOMAIN n[i].claims /\ u \in hold[i]
  PROVE  IsFiniteSet(V) /\ Cardinality(V) <= Claimed(n, S, r)
<1> DEFINE Add(k) == Added(n, S, r, k)
           Has(k) == IF k \in S /\ r \in DOMAIN n[k].claims THEN hold[k] ELSE {}
           N == Len(n)
<1>0. N \in Nat /\ DOMAIN n = 1 .. N
  BY DEF Levelable
<1>1. PICK upTo : /\ Claimed(n, S, r) = upTo[N] /\ upTo[0] = 0
                  /\ \A k \in 1 .. N : upTo[k] = upTo[k - 1] + Add(k)
  BY <1>0, ClaimedUnfolds
<1>2. \A k \in 1 .. N : IsFiniteSet(Has(k)) /\ Cardinality(Has(k)) = Add(k)
  BY <1>0, FS_EmptySet DEF Added
<1>3. \A u \in V : \E k \in 1 .. N : u \in Has(k)
  BY <1>0
<1> HIDE DEF Add, N, Has
<1> DEFINE All(k) == UNION {Has(i) : i \in 1 .. k}
           G == {k \in Nat : k <= N => /\ IsFiniteSet(All(k)) /\ upTo[k] \in Nat
                                       /\ Cardinality(All(k)) <= upTo[k]}
<1>5. 0 \in G
  <2>1. All(0) = {}
    OBVIOUS
  <2>2. IsFiniteSet(All(0)) /\ Cardinality(All(0)) = 0
    <3> HIDE DEF All
    <3> QED BY <2>1, FS_EmptySet
  <2> HIDE DEF All
  <2> QED BY <1>1, <2>2
<1>6. ASSUME NEW k \in Nat, k \in G PROVE k + 1 \in G
  <2> SUFFICES ASSUME k + 1 <= N
               PROVE  /\ IsFiniteSet(All(k + 1)) /\ upTo[k + 1] \in Nat
                      /\ Cardinality(All(k + 1)) <= upTo[k + 1]
    OBVIOUS
  <2>1. IsFiniteSet(All(k)) /\ upTo[k] \in Nat /\ Cardinality(All(k)) <= upTo[k]
    BY <1>0, <1>6
  <2>2. k + 1 \in 1 .. N /\ upTo[k + 1] = upTo[k] + Add(k + 1)
    BY <1>0, <1>1
  <2>3. All(k + 1) = All(k) \cup Has(k + 1)
    <3>1. \A i \in 1 .. k + 1 : i \in 1 .. k \/ i = k + 1
      OBVIOUS
    <3>2. \A i \in 1 .. k : i \in 1 .. k + 1
      OBVIOUS
    <3>3. k + 1 \in 1 .. k + 1
      OBVIOUS
    <3> QED BY <3>1, <3>2, <3>3
  <2>4. IsFiniteSet(Has(k + 1)) /\ Cardinality(Has(k + 1)) = Add(k + 1)
    BY <1>2, <2>2
  <2> DEFINE A == All(k)
             B == Has(k + 1)
  <2>5. IsFiniteSet(A) /\ IsFiniteSet(B) /\ All(k + 1) = A \cup B /\ Cardinality(A) <= upTo[k]
        /\ Cardinality(B) = Add(k + 1)
    BY <2>1, <2>3, <2>4
  <2> HIDE DEF A, B, All
  <2>6. /\ IsFiniteSet(A \cup B) /\ IsFiniteSet(A \cap B)
        /\ Cardinality(A \cup B) = Cardinality(A) + Cardinality(B) - Cardinality(A \cap B)
    <3>1. IsFiniteSet(A \cup B) /\ Cardinality(A \cup B) = Cardinality(A) + Cardinality(B) - Cardinality(A \cap B)
      BY <2>5, FS_Union
    <3>2. IsFiniteSet(A \cap B)
      BY <2>5, FS_Subset
    <3> QED BY <3>1, <3>2
  <2>7. Cardinality(A \cap B) \in Nat /\ Cardinality(A) \in Nat /\ Cardinality(B) \in Nat
    BY <2>5, <2>6, FS_CardinalityType
  <2>8. Cardinality(A \cup B) <= upTo[k + 1] /\ upTo[k + 1] \in Nat
    BY <2>1, <2>2, <2>5, <2>6, <2>7
  <2> QED BY <2>5, <2>6, <2>8
<1>7. N \in G
  <2> HIDE DEF G
  <2> QED BY <1>0, <1>5, <1>6, Upward
<1>8. IsFiniteSet(All(N)) /\ upTo[N] \in Nat /\ Cardinality(All(N)) <= upTo[N]
  BY <1>0, <1>7
<1>9. V \subseteq All(N)
  BY <1>3
<1> DEFINE W == All(N)
<1>10. IsFiniteSet(W) /\ Cardinality(W) <= upTo[N] /\ V \subseteq W
  BY <1>8, <1>9
<1> HIDE DEF All, W
<1>11. IsFiniteSet(V) /\ Cardinality(V) <= Cardinality(W) /\ Cardinality(V) \in Nat /\ Cardinality(W) \in Nat
  BY <1>10, FS_Subset, FS_CardinalityType
<1>12. Cardinality(V) <= upTo[N]
  BY <1>8, <1>10, <1>11
<1> QED BY <1>1, <1>11, <1>12

-----------------------------------------------------------------------------
(* What a node waited for *)

(* Who holds units when i starts, as the driving chain looks them up. *)
Before(n, s, i) ==
    {j \in DOMAIN n \ {i} : s.start[j] < s.start[i] /\ Finish(n, s, j) >= s.start[i]}

(* A pool with fewer idle units than i claims is one that the chain finds full. *)
THEOREM LackIsFull ==
  ASSUME NEW n, NEW caps, NEW rank, Levelable(n, caps, rank), NEW s, Placing(n, caps, s),
         DOMAIN s.start = DOMAIN n, NEW hold, Held(n, s, hold), NEW i \in Work(n),
         NEW r \in DOMAIN n[i].claims, Cardinality(Idle(n, s, hold, r, s.start[i])) < n[i].claims[r]
  PROVE  r \in Saturated(n, s, caps, i)
<1> DEFINE D == DOMAIN n
           t == s.start[i]
           H == Before(n, s, i)
           U == DOMAIN s.free[r]
           I == Idle(n, s, hold, r, t)
           V == U \ I
           h == hold[r]
           c == n[i].claims[r]
           W == Claimed(n, Work(n), r)
           C == Claimed(n, H, r)
<1>1. r \in WorkPools(n) /\ r \in DOMAIN s.free /\ U = Units(n, caps, r) /\ i \in D /\ c \in Nat
  BY DEF WorkPools, Placing, Work, Levelable
<1>2. \A j \in D : s.start[j] \in Nat /\ n[j].len \in Nat /\ Finish(n, s, j) \in Nat
  BY DEF Placing, Levelable, Finish
<1>3. IsFiniteSet(U) /\ Cardinality(U) \in Nat /\ (Cardinality(U) = Capacity(caps, r) \/ Cardinality(U) = W)
  BY <1>1, UnitsAre
<1>4. ASSUME NEW j \in Holders(n, s, r)
      PROVE  h[j] \subseteq U /\ Cardinality(h[j]) = n[j].claims[r] /\ IsFiniteSet(h[j]) /\ j \in D
             /\ r \in DOMAIN n[j].claims
  <2>1. h[j] \subseteq U /\ Cardinality(h[j]) = n[j].claims[r]
    BY <1>1 DEF Held
  <2>2. IsFiniteSet(h[j])
    <3> DEFINE X == h[j]
    <3>1. X \subseteq U
      BY <2>1
    <3> HIDE DEF X, U
    <3>2. IsFiniteSet(X)
      BY <1>3, <3>1, FS_Subset
    <3> QED BY <3>2 DEF X
  <2> QED BY <2>1, <2>2 DEF Holders
<1>5. ASSUME NEW j \in H PROVE j \in Work(n) /\ j \in D /\ j # i
  <2>1. j \in D /\ j # i /\ s.start[j] < s.start[i] /\ s.start[j] + n[j].len >= s.start[i]
    BY DEF Before, Finish
  <2>2. n[j].len > 0
    BY <1>1, <1>2, <2>1
  <2> QED BY <2>1, <2>2 DEF Work
<1>6. \A j \in H \cap D : r \in DOMAIN n[j].claims => IsFiniteSet(h[j]) /\ Cardinality(h[j]) = n[j].claims[r]
  <2> SUFFICES ASSUME NEW j \in H, r \in DOMAIN n[j].claims
               PROVE  IsFiniteSet(h[j]) /\ Cardinality(h[j]) = n[j].claims[r]
    OBVIOUS
  <2>1. j \in Holders(n, s, r)
    BY <1>5 DEF Holders
  <2> HIDE DEF h
  <2> QED BY <1>4, <2>1
<1>7. \A u \in V : \E j \in H \cap D : r \in DOMAIN n[j].claims /\ u \in h[j]
  <2> SUFFICES ASSUME NEW u \in V PROVE \E j \in H \cap D : r \in DOMAIN n[j].claims /\ u \in h[j]
    OBVIOUS
  <2>1. PICK j \in Holders(n, s, r) : u \in h[j] /\ s.start[j] < t /\ ~ Finish(n, s, j) < t
    BY DEF Idle
  <2>2. j \in D /\ j # i /\ Finish(n, s, j) >= t
    <3>1. j \in D
      BY <1>4
    <3>2. t \in Nat /\ Finish(n, s, j) \in Nat
      BY <1>1, <1>2, <3>1
    <3>3. j # i
      BY <2>1, <3>2
    <3>4. Finish(n, s, j) >= t
      <4> HIDE DEF t
      <4> QED BY <2>1, <3>2
    <3> QED BY <3>1, <3>3, <3>4
  <2>3. j \in H
    BY <2>1, <2>2 DEF Before
  <2> QED BY <1>4, <2>1, <2>2, <2>3
<1>8. IsFiniteSet(V) /\ Cardinality(V) <= C
  <2> HIDE DEF V, H, h
  <2> QED BY <1>6, <1>7, ClaimsCover
<1>9. I \subseteq U
  BY DEF Idle
<1> HIDE DEF I
<1>10. Cardinality(U) = Cardinality(I) + Cardinality(V) /\ Cardinality(I) \in Nat /\ Cardinality(V) \in Nat
  <2> HIDE DEF U
  <2>1. IsFiniteSet(I) /\ IsFiniteSet(V)
    BY <1>3, <1>9, FS_Subset
  <2>2. I \cup V = U /\ I \cap V = {}
    BY <1>9
  <2> HIDE DEF V
  <2>3. Cardinality(I \cup V) = Cardinality(I) + Cardinality(V) - Cardinality(I \cap V)
    BY <2>1, FS_Union
  <2>4. Cardinality(I \cap V) = 0
    BY <2>2, FS_EmptySet
  <2>5. Cardinality(I) \in Nat /\ Cardinality(V) \in Nat
    BY <2>1, FS_CardinalityType
  <2>6. Cardinality(I \cup V) = Cardinality(U)
    BY <2>2
  <2> DEFINE x == Cardinality(I \cup V)
             y == Cardinality(I \cap V)
             a == Cardinality(I)
             b == Cardinality(V)
             d == Cardinality(U)
  <2>7. x = a + b - y /\ y = 0 /\ a \in Nat /\ b \in Nat /\ x = d
    BY <2>3, <2>4, <2>5, <2>6
  <2> HIDE DEF x, y, a, b, d
  <2>8. d = a + b
    BY <2>7
  <2> QED BY <2>5, <2>8 DEF a, b, d
<1>11. C \in Nat /\ W \in Nat
  BY ClaimedIs
<1>12. C + c <= W
  <2>1. H \subseteq Work(n) /\ i \notin H /\ i \in Work(n) /\ i \in D
    BY <1>1, <1>5
  <2> HIDE DEF H, D
  <2> QED BY <2>1, ClaimsGrow DEF D
<1>13. C + c > Capacity(caps, r)
  <2>1. Capacity(caps, r) \in Nat
    BY <1>1 DEF Levelable
  <2>2. Cardinality(I) < c
    BY DEF I
  <2> DEFINE a == Cardinality(I)
             b == Cardinality(V)
             d == Cardinality(U)
             k == Capacity(caps, r)
  <2>3. d = a + b /\ b <= C /\ a < c /\ (d = k \/ d = W) /\ a \in Nat /\ b \in Nat /\ d \in Nat /\ k \in Nat
    BY <1>3, <1>8, <1>10, <2>1, <2>2
  <2> HIDE DEF a, b, d, k, C, W, c
  <2>4. C + c > k
    BY <1>1, <1>11, <1>12, <2>3
  <2> QED BY <2>4 DEF k
<1>14. H = {j \in DOMAIN n \ {i} : /\ s.start[j] < s.start[i]
                                   /\ Finish(n, s, j) >= s.start[i]}
  BY DEF Before
<1>15. Claimed(n, H, r) + n[i].claims[r] > Capacity(caps, r)
  BY <1>13
<1> HIDE DEF H
<1> QED BY <1>14, <1>15, Zenon DEF Saturated

(* The smallest id of a set. *)
LEMMA ByIdIs ==
  ASSUME NEW n, NEW caps, NEW rank, Levelable(n, caps, rank), NEW S, S \subseteq DOMAIN n, S # {}
  PROVE  ById(n, S) \in S
<1>1. IsFiniteSet(S)
  <2>1. IsFiniteSet(1 .. Len(n))
    <3> DEFINE N == Len(n)
    <3>1. 1 \in Int /\ N \in Int
      BY DEF Levelable
    <3> HIDE DEF N
    <3>2. IsFiniteSet(1 .. N)
      BY <3>1, FS_Interval
    <3> QED BY <3>2 DEF N
  <2>2. IsFiniteSet(DOMAIN n)
    BY <2>1 DEF Levelable
  <2> QED BY <2>2, FS_Subset
<1> DEFINE f == [i \in S |-> n[i].id]
<1>2. \A i \in S : f[i] \in Int
  BY DEF Levelable
<1>3. \E x \in S : \A y \in S : f[x] <= f[y]
  <2> HIDE DEF f
  <2> QED BY <1>1, <1>2, OneIsLeast
<1>4. \E x \in S : \A y \in S : n[x].id <= n[y].id
  BY <1>3
<1> QED BY <1>4, Zenon DEF ById

(* What is before in the schedule, or as early and before in the graph. *)
Earlier(s, rank, p, i) == s.start[p] < s.start[i] \/ (s.start[p] = s.start[i] /\ rank[p] < rank[i])

(* What a node waited on is what set its start. *)
LEMMA WaitedIs ==
  ASSUME NEW n, NEW caps, NEW rank, Levelable(n, caps, rank), NEW i \in DOMAIN n
  PROVE  LET s == Placed(n, caps)
             w == Waited(n, s, caps, i)
         IN  \/ w.on = "start" /\ s.start[i] = 0
             \/ /\ w.on = "dependency" /\ w.next \in DOMAIN n[i].preds
                /\ Finish(n, s, w.next) + n[i].preds[w.next] = s.start[i]
                /\ w.next \in DOMAIN n /\ Earlier(s, rank, w.next, i)
             \/ /\ w.on = "resource" /\ Finish(n, s, w.next) = s.start[i]
                /\ w.next \in DOMAIN n /\ Earlier(s, rank, w.next, i)
<1> DEFINE s == Placed(n, caps)
           D == DOMAIN n
           deps == DrivingDeps(n, s, i)
           work == DrivingWork(n, s, caps, i)
           w == Waited(n, s, caps, i)
<1>1. Under(n, caps, s) /\ DOMAIN s.start = D
  BY PlacedIs
<1>2. w = IF s.start[i] = 0 THEN [on |-> "start", next |-> i]
          ELSE IF deps # {} THEN [on |-> "dependency", next |-> ById(n, deps)]
          ELSE IF work # {} THEN [on |-> "resource", next |-> ById(n, work)]
          ELSE [on |-> "start", next |-> i]
  BY Zenon DEF Waited
<1> HIDE DEF s, w
<1>3. Placing(n, caps, s)
  BY <1>1 DEF Under
<1>4. \A j \in D : s.start[j] \in Nat /\ n[j].len \in Nat
  BY <1>1, <1>3 DEF Placing, Levelable
<1>5. CASE s.start[i] = 0
  <2>1. w.on = "start"
    BY <1>2, <1>5
  <2> QED BY <1>5, <2>1, Zenon DEF s, w
<1>6. CASE s.start[i] # 0 /\ deps # {}
  <2>1. deps \subseteq D /\ \A p \in deps : p \in DOMAIN n[i].preds /\ Finish(n, s, p) + n[i].preds[p] = s.start[i]
    BY DEF DrivingDeps, Levelable
  <2> HIDE DEF deps
  <2>2. w.on = "dependency" /\ w.next = ById(n, deps)
    BY <1>2, <1>6
  <2>3. w.next \in deps
    BY <1>6, <2>1, <2>2, ByIdIs
  <2> DEFINE p == w.next
  <2>4. p \in D /\ p \in DOMAIN n[i].preds /\ Finish(n, s, p) + n[i].preds[p] = s.start[i]
    BY <2>1, <2>3
  <2> HIDE DEF p
  <2>5. n[i].preds[p] \in Nat /\ rank[p] < rank[i]
    BY <2>4 DEF Levelable
  <2>6. Earlier(s, rank, p, i)
    BY <1>4, <2>4, <2>5 DEF Earlier, Finish
  <2> QED BY <2>2, <2>4, <2>6, Zenon DEF s, w, p
<1>7. CASE s.start[i] # 0 /\ deps = {}
  <2>1. PICK hold : Held(n, s, hold) /\ Explained(n, s, hold, i)
    BY <1>1 DEF Under
  <2>2. ~ \E p \in DOMAIN n[i].preds : Finish(n, s, p) + n[i].preds[p] = s.start[i]
    BY <1>7 DEF DrivingDeps
  <2>3. i \in Work(n) /\ \E r \in DOMAIN n[i].claims :
             /\ Cardinality(Idle(n, s, hold, r, s.start[i])) < n[i].claims[r]
             /\ \E j \in Holders(n, s, r) : j # i /\ Finish(n, s, j) = s.start[i]
    BY <1>7, <2>1, <2>2, Zenon DEF Explained
  <2>4. PICK r \in DOMAIN n[i].claims :
             /\ Cardinality(Idle(n, s, hold, r, s.start[i])) < n[i].claims[r]
             /\ \E j \in Holders(n, s, r) : j # i /\ Finish(n, s, j) = s.start[i]
    BY <2>3
  <2>5. PICK j \in Holders(n, s, r) : j # i /\ Finish(n, s, j) = s.start[i]
    BY <2>4
  <2>6. r \in Saturated(n, s, caps, i)
    BY <1>1, <1>3, <2>1, <2>3, <2>4, LackIsFull
  <2>7. j \in work
    BY <2>5, <2>6 DEF DrivingWork, Holders
  <2>8. work \subseteq D /\ \A q \in work : q \in Work(n) /\ Finish(n, s, q) = s.start[i]
    BY DEF DrivingWork, Work
  <2> HIDE DEF deps, work
  <2>9. w.on = "resource" /\ w.next = ById(n, work)
    BY <1>2, <1>7, <2>7
  <2>10. w.next \in work
    BY <2>7, <2>8, <2>9, ByIdIs
  <2> DEFINE p == w.next
  <2>11. p \in D /\ n[p].len > 0 /\ Finish(n, s, p) = s.start[i]
    BY <2>8, <2>10 DEF Work
  <2> HIDE DEF p
  <2>12. Earlier(s, rank, p, i)
    BY <1>4, <2>11 DEF Earlier, Finish
  <2> QED BY <2>9, <2>11, <2>12, Zenon DEF s, w, p
<1> QED BY <1>5, <1>6, <1>7

-----------------------------------------------------------------------------
(* The driving chain *)

(* A node of the chain, with what it waited for. *)
ChainLink(n, s, caps, i) == [node |-> i, on |-> Waited(n, s, caps, i).on]

(* The link before the first one. *)
NextLink(n, s, caps, chain) == ChainLink(n, s, caps, Waited(n, s, caps, Head(chain).node).next)

(* One step back along what was waited for. *)
ChainTurn(n, s, caps, chain) ==
    IF Head(chain).on = "start" THEN chain ELSE <<NextLink(n, s, caps, chain)>> \o chain

(* The node that the chain ends with. *)
LastOf(n, s) == ById(n, {i \in DOMAIN n : Finish(n, s, i) = Makespan(n, s)})

(* back is the chain after each number of steps. *)
FollowSteps(n, s, caps, back) ==
    back = [k \in 1 .. Len(n) |->
              IF k = 1 THEN <<ChainLink(n, s, caps, LastOf(n, s))>> ELSE ChainTurn(n, s, caps, back[k - 1])]

(* The driving chain takes one step after the other. *)
LEMMA DrivingUnfolds ==
  ASSUME NEW n, NEW s, NEW caps, Len(n) \in Nat, n # <<>>
  PROVE  \E back : DrivingChain(n, s, caps) = back[Len(n)] /\ FollowSteps(n, s, caps, back)
<1> DEFINE first == <<ChainLink(n, s, caps, LastOf(n, s))>>
           Step(c) == ChainTurn(n, s, caps, c)
           Is(f, m) == f = [k \in 1 .. m |-> IF k = 1 THEN first ELSE Step(f[k - 1])]
           G == {m \in Nat : \E f : Is(f, m)}
<1>1. 0 \in G
  <2>1. Is([k \in 1 .. 0 |-> first], 0)
    <3> HIDE DEF Step, first
    <3> QED OBVIOUS
  <2> QED BY <2>1
<1>2. ASSUME NEW m \in Nat, m \in G PROVE m + 1 \in G
  <2> HIDE DEF Step, first
  <2>1. PICK f : Is(f, m)
    BY <1>2
  <2> DEFINE h == [k \in 1 .. m + 1 |->
                     IF k = m + 1 THEN (IF k = 1 THEN first ELSE Step(f[m])) ELSE f[k]]
  <2>2. Is(h, m + 1)
    BY <2>1
  <2> HIDE DEF h, Is
  <2> QED BY <2>2
<1>3. PICK f : Is(f, Len(n))
  <2> HIDE DEF Is
  <2>1. Len(n) \in G
    <3> HIDE DEF G
    <3> QED BY <1>1, <1>2, Upward
  <2> QED BY <2>1
<1> DEFINE back[k \in 1 .. Len(n)] ==
             IF k = 1
             THEN <<[node |-> ById(n, {i \in DOMAIN n : Finish(n, s, i) = Makespan(n, s)}),
                     on |-> Waited(n, s, caps, ById(n, {i \in DOMAIN n : Finish(n, s, i) = Makespan(n, s)})).on]>>
             ELSE IF Head(back[k - 1]).on = "start" THEN back[k - 1]
             ELSE <<[node |-> Waited(n, s, caps, Head(back[k - 1]).node).next,
                     on |-> Waited(n, s, caps, Waited(n, s, caps, Head(back[k - 1]).node).next).on]>>
                  \o back[k - 1]
<1>4. back = [k \in 1 .. Len(n) |->
                IF k = 1 THEN <<ChainLink(n, s, caps, LastOf(n, s))>>
                ELSE ChainTurn(n, s, caps, back[k - 1])]
  BY <1>3, Zenon DEF ChainTurn, ChainLink, NextLink, LastOf
<1>5. DrivingChain(n, s, caps) = back[Len(n)]
  BY Zenon DEF DrivingChain
<1>6. FollowSteps(n, s, caps, back)
  BY <1>4, Zenon DEF FollowSteps
<1> HIDE DEF back
<1> QED BY <1>5, <1>6

-----------------------------------------------------------------------------
(* What the chain keeps while it is followed back. *)
Chained(n, s, caps, rank, chain) ==
    /\ chain \in Seq({ChainLink(n, s, caps, i) : i \in DOMAIN n}) /\ chain # <<>>
    /\ chain[Len(chain)].node = LastOf(n, s)
    /\ \A q \in 2 .. Len(chain) :
          /\ chain[q].on # "start"
          /\ chain[q - 1].node = Waited(n, s, caps, chain[q].node).next
    /\ \A p, q \in 1 .. Len(chain) : p < q => Earlier(s, rank, chain[p].node, chain[q].node)

(* A chain is not empty, and its links are what their nodes waited for. *)
LEMMA ChainedIs ==
  ASSUME NEW n, NEW s, NEW caps, NEW rank, NEW chain, Chained(n, s, caps, rank, chain)
  PROVE  /\ Len(chain) \in Nat \ {0} /\ DOMAIN chain = 1 .. Len(chain) /\ Head(chain) = chain[1]
         /\ \A q \in 1 .. Len(chain) : /\ chain[q].node \in DOMAIN n
                                       /\ chain[q].on = Waited(n, s, caps, chain[q].node).on
<1> DEFINE T == {ChainLink(n, s, caps, i) : i \in DOMAIN n}
<1>1. chain \in Seq(T) /\ chain # <<>>
  BY DEF Chained
<1> HIDE DEF T
<1>2. Len(chain) \in Nat \ {0} /\ DOMAIN chain = 1 .. Len(chain) /\ Head(chain) = chain[1]
  BY <1>1, EmptySeq, LenProperties
<1>3. ASSUME NEW q \in 1 .. Len(chain)
      PROVE  chain[q].node \in DOMAIN n /\ chain[q].on = Waited(n, s, caps, chain[q].node).on
  <2>1. chain[q] \in T
    BY <1>1, <1>2, ElementOfSeq
  <2>2. PICK i \in DOMAIN n : chain[q] = ChainLink(n, s, caps, i)
    BY <2>1 DEF T
  <2>3. chain[q].node = i /\ chain[q].on = Waited(n, s, caps, i).on
    BY <2>2 DEF ChainLink
  <2> QED BY <2>3
<1> QED BY <1>2, <1>3

(* The nodes of the chain differ: it is no longer than the plan. *)
LEMMA ChainIsShort ==
  ASSUME NEW n, NEW caps, NEW rank, Levelable(n, caps, rank), NEW s, Placing(n, caps, s),
         DOMAIN s.start = DOMAIN n, NEW chain, Chained(n, s, caps, rank, chain)
  PROVE  Len(chain) <= Len(n)
<1> DEFINE L == Len(chain)
           N == Len(n)
           D == DOMAIN n
           f == [q \in 1 .. L |-> chain[q].node]
<1>1. L \in Nat /\ N \in Nat /\ D = 1 .. N /\ \A q \in 1 .. L : chain[q].node \in D
  BY ChainedIs DEF Levelable
<1>2. \A i \in D : s.start[i] \in Nat /\ rank[i] \in Nat
  BY DEF Placing, Levelable
<1>3. \A p, q \in 1 .. L : p < q => chain[p].node # chain[q].node
  <2> SUFFICES ASSUME NEW p \in 1 .. L, NEW q \in 1 .. L, p < q PROVE chain[p].node # chain[q].node
    OBVIOUS
  <2> DEFINE a == chain[p].node
             b == chain[q].node
  <2>1. Earlier(s, rank, a, b) /\ a \in D
    BY <1>1 DEF Chained
  <2> HIDE DEF a, b
  <2>2. a # b
    BY <1>2, <2>1 DEF Earlier
  <2> QED BY <2>2 DEF a, b
<1> HIDE DEF L, N, D
<1>4. f \in Injection(1 .. L, D)
  <2>1. f \in [1 .. L -> D] /\ DOMAIN f = 1 .. L
    BY <1>1
  <2>2. \A p, q \in 1 .. L : f[p] = f[q] => p = q
    <3> SUFFICES ASSUME NEW p \in 1 .. L, NEW q \in 1 .. L, f[p] = f[q], p # q PROVE FALSE
      OBVIOUS
    <3>1. p < q \/ q < p
      BY <1>1
    <3> QED BY <1>3, <3>1
  <2> HIDE DEF f
  <2> QED BY <2>1, <2>2 DEF Injection, IsInjective
<1> HIDE DEF f
<1>5. IsFiniteSet(1 .. N) /\ Cardinality(1 .. N) = N
  <2>1. 1 \in Int /\ N \in Int
    BY <1>1
  <2>2. IsFiniteSet(1 .. N) /\ Cardinality(1 .. N) = IF 1 > N THEN 0 ELSE N - 1 + 1
    BY <2>1, FS_Interval
  <2> QED BY <1>1, <2>2
<1>6. Cardinality(1 .. L) = L
  <2>1. 1 \in Int /\ L \in Int
    BY <1>1
  <2>2. Cardinality(1 .. L) = IF 1 > L THEN 0 ELSE L - 1 + 1
    BY <2>1, FS_Interval
  <2> QED BY <1>1, <2>2
<1>7. Cardinality(1 .. L) <= Cardinality(D)
  <2>1. IsFiniteSet(D)
    BY <1>1, <1>5
  <2> QED BY <1>4, <2>1, FS_Injection
<1>8. L <= N
  BY <1>1, <1>5, <1>6, <1>7
<1> QED BY <1>8 DEF L, N

-----------------------------------------------------------------------------
(* The chain is followed back from a node that waited. *)
LEMMA ChainTurnKeeps ==
  ASSUME NEW n, NEW caps, NEW rank, Levelable(n, caps, rank), NEW chain,
         Chained(n, Placed(n, caps), caps, rank, chain), chain[1].on # "start"
  PROVE  /\ Chained(n, Placed(n, caps), caps, rank, ChainTurn(n, Placed(n, caps), caps, chain))
         /\ Len(ChainTurn(n, Placed(n, caps), caps, chain)) = Len(chain) + 1
<1> DEFINE s == Placed(n, caps)
           D == DOMAIN n
           i == chain[1].node
           W(j) == Waited(n, s, caps, j)
           x == W(i).next
           T == {ChainLink(n, s, caps, j) : j \in D}
           L == Len(chain)
           e == <<ChainLink(n, s, caps, x)>>
           c == e \o chain
<1>1. Placing(n, caps, s) /\ DOMAIN s.start = D
  BY PlacedIs DEF Under
<1>2. /\ L \in Nat \ {0} /\ Head(chain) = chain[1] /\ \A q \in 1 .. L : chain[q].node \in D
      /\ chain[1].on = W(i).on /\ i \in D
  <2>1. L \in Nat \ {0} /\ Head(chain) = chain[1]
        /\ \A q \in 1 .. L : chain[q].node \in D /\ chain[q].on = W(chain[q].node).on
    BY ChainedIs
  <2>2. 1 \in 1 .. L
    BY <2>1
  <2> QED BY <2>1, <2>2
<1>3. W(i).on # "start"
  BY <1>2
<1>4. x \in D /\ Earlier(s, rank, x, i)
  BY <1>2, <1>3, WaitedIs
<1>5. ChainTurn(n, s, caps, chain) = c
  BY <1>2 DEF ChainTurn, NextLink
<1>6. \A j \in D : s.start[j] \in Nat /\ rank[j] \in Nat
  BY <1>1 DEF Placing, Levelable
<1>7. /\ chain \in Seq(T) /\ chain # <<>> /\ chain[L].node = LastOf(n, s)
      /\ \A q \in 2 .. L : chain[q].on # "start" /\ chain[q - 1].node = W(chain[q].node).next
      /\ \A p, q \in 1 .. L : p < q => Earlier(s, rank, chain[p].node, chain[q].node)
  BY DEF Chained
<1> DEFINE link == ChainLink(n, s, caps, x)
<1>8. link \in T /\ link.node = x
  BY <1>4 DEF ChainLink
<1> HIDE DEF s, x, W, T, L, link, i
<1>9. e \in Seq(T) /\ Len(e) = 1 /\ e[1] = link
  BY <1>8 DEF link
<1> HIDE DEF e
<1>10. /\ c \in Seq(T) /\ Len(c) = 1 + L /\ c[1] = link
       /\ \A q \in 2 .. 1 + L : c[q] = chain[q - 1]
  <2>1. e \o chain \in Seq(T) /\ Len(e \o chain) = Len(e) + Len(chain)
        /\ \A q \in 1 .. Len(e) + Len(chain) :
              (e \o chain)[q] = IF q <= Len(e) THEN e[q] ELSE chain[q - Len(e)]
    BY <1>7, <1>9, ConcatProperties
  <2> HIDE DEF c
  <2>2. c \in Seq(T) /\ Len(c) = 1 + L /\ \A q \in 1 .. 1 + L : c[q] = IF q <= 1 THEN e[q] ELSE chain[q - 1]
    BY <1>9, <2>1 DEF c, L
  <2>3. c[1] = e[1]
    <3>1. 1 \in 1 .. 1 + L /\ 1 <= 1
      BY <1>2
    <3> QED BY <2>2, <3>1
  <2>4. \A q \in 2 .. 1 + L : q \in 1 .. 1 + L /\ ~ (q <= 1)
    BY <1>2
  <2> QED BY <1>9, <2>2, <2>3, <2>4
<1> HIDE DEF c
<1>11. c # <<>> /\ c[Len(c)].node = LastOf(n, s)
  <2>1. c # <<>>
    BY <1>2, <1>10
  <2>2. c[1 + L] = chain[L]
    <3>1. 1 + L \in 2 .. 1 + L /\ (1 + L) - 1 = L
      BY <1>2
    <3> QED BY <1>10, <3>1
  <2> QED BY <1>7, <1>10, <2>1, <2>2
<1>12. ASSUME NEW q \in 2 .. 1 + L
       PROVE  c[q].on # "start" /\ c[q - 1].node = W(c[q].node).next
  <2>1. CASE q = 2
    <3>1. c[2] = chain[1] /\ q - 1 = 1
      <4>1. 2 \in 2 .. 1 + L
        BY <1>2
      <4> QED BY <1>10, <2>1, <4>1
    <3>2. c[1].node = x /\ chain[1].node = i
      BY <1>8, <1>10 DEF i
    <3>3. x = W(i).next
      BY DEF x
    <3> QED BY <2>1, <3>1, <3>2, <3>3
  <2>2. CASE q # 2
    <3>1. q - 1 \in 2 .. L /\ q - 1 \in 2 .. 1 + L
      BY <1>2, <2>2
    <3>2. c[q] = chain[q - 1] /\ c[q - 1] = chain[(q - 1) - 1]
      BY <1>10, <3>1
    <3> QED BY <1>7, <3>1, <3>2
  <2> QED BY <2>1, <2>2
<1>13. ASSUME NEW p \in 1 .. 1 + L, NEW q \in 1 .. 1 + L, p < q
       PROVE  Earlier(s, rank, c[p].node, c[q].node)
  <2>1. q \in 2 .. 1 + L /\ q - 1 \in 1 .. L
    BY <1>2, <1>13
  <2>2. c[q] = chain[q - 1] /\ chain[q - 1].node \in D
    BY <1>2, <1>10, <2>1
  <2>3. CASE p = 1
    <3>1. c[1].node = x
      BY <1>8, <1>10
    <3>2. chain[q - 1].node = i \/ Earlier(s, rank, i, chain[q - 1].node)
      <4>1. CASE q - 1 = 1
        BY <4>1 DEF i
      <4>2. CASE q - 1 # 1
        <5>1. 1 \in 1 .. L /\ 1 < q - 1
          BY <1>2, <2>1, <4>2
        <5> QED BY <1>7, <2>1, <5>1 DEF i
      <4> QED BY <4>1, <4>2
    <3> DEFINE b == chain[q - 1].node
    <3>3. b \in D /\ (b = i \/ Earlier(s, rank, i, b))
      BY <2>2, <3>2
    <3> HIDE DEF b
    <3>4. Earlier(s, rank, x, b)
      BY <1>2, <1>4, <1>6, <3>3 DEF Earlier
    <3> QED BY <2>2, <2>3, <3>1, <3>4 DEF b
  <2>4. CASE p # 1
    <3>1. p \in 2 .. 1 + L /\ p - 1 \in 1 .. L /\ p - 1 < q - 1
      BY <1>2, <1>13, <2>4
    <3>2. c[p] = chain[p - 1]
      BY <1>10, <3>1
    <3> QED BY <1>7, <2>1, <2>2, <3>1, <3>2
  <2> QED BY <2>3, <2>4
<1>14. Chained(n, s, caps, rank, c)
  BY <1>10, <1>11, <1>12, <1>13 DEF Chained, W, T
<1>15. Len(c) = Len(chain) + 1
  BY <1>2, <1>10 DEF L
<1> QED BY <1>5, <1>14, <1>15 DEF s

-----------------------------------------------------------------------------
(* The driving chain ends with the makespan *)

(* The makespan is the latest finish. *)
LEMMA MakespanIs ==
  ASSUME NEW n, NEW caps, NEW rank, Levelable(n, caps, rank), NEW s, Placing(n, caps, s),
         DOMAIN s.start = DOMAIN n
  PROVE  /\ Makespan(n, s) \in Nat /\ \A i \in DOMAIN n : Finish(n, s, i) <= Makespan(n, s)
         /\ DOMAIN n # {} => LastOf(n, s) \in DOMAIN n /\ Finish(n, s, LastOf(n, s)) = Makespan(n, s)
<1> DEFINE D == DOMAIN n
           f == [i \in D |-> Finish(n, s, i)]
           F == {f[i] : i \in D}
           S == {i \in D : Finish(n, s, i) = Makespan(n, s)}
<1>1. \A i \in D : f[i] \in Nat
  BY DEF Placing, Levelable, Finish
<1>2. IsFiniteSet(D)
  <2> DEFINE N == Len(n)
  <2>1. 1 \in Int /\ N \in Int
    BY DEF Levelable
  <2> HIDE DEF N
  <2>2. IsFiniteSet(1 .. N)
    BY <2>1, FS_Interval
  <2> QED BY <2>2 DEF N, Levelable
<1>3. Makespan(n, s) = Latest(F)
  <2>1. {Finish(n, s, i) : i \in DOMAIN n} = F
    OBVIOUS
  <2> HIDE DEF F
  <2> QED BY <2>1 DEF Makespan
<1>4. \A i \in D : Finish(n, s, i) = f[i]
  OBVIOUS
<1> HIDE DEF f, D
<1>5. IsFiniteSet(F) /\ F \subseteq Nat
  BY <1>1, <1>2, FiniteImage
<1>6. \A i \in D : f[i] \in F
  OBVIOUS
<1>7. Latest(F) \in Nat /\ (\A v \in F : v <= Latest(F)) /\ (F # {} => Latest(F) \in F)
  <2> HIDE DEF F
  <2> QED BY <1>5, LatestIs
<1>8. Makespan(n, s) \in Nat /\ \A i \in D : Finish(n, s, i) <= Makespan(n, s)
  <2> HIDE DEF F
  <2> QED BY <1>3, <1>4, <1>6, <1>7
<1>9. ASSUME D # {} PROVE LastOf(n, s) \in D /\ Finish(n, s, LastOf(n, s)) = Makespan(n, s)
  <2>1. F # {}
    BY <1>9
  <2>2. PICK i \in D : Latest(F) = f[i]
    BY <1>7, <2>1
  <2>3. i \in S
    <3> HIDE DEF F
    <3> QED BY <1>3, <1>4, <2>2
  <2>4. LastOf(n, s) = ById(n, S)
    BY DEF LastOf, D
  <2>5. S \subseteq DOMAIN n
    BY DEF D
  <2>6. ById(n, S) \in S
    <3> HIDE DEF S
    <3> QED BY <2>3, <2>5, ByIdIs
  <2> QED BY <2>4, <2>6
<1> QED BY <1>8, <1>9 DEF D

(* The driving chain leads from the last finisher back to a node that waited on
   nothing: it is never longer than the plan. *)
THEOREM DrivingChainIs ==
  ASSUME NEW n, NEW caps, NEW rank, Levelable(n, caps, rank), n # <<>>, DOMAIN n # {}
  PROVE  LET s == Placed(n, caps)
             chain == DrivingChain(n, s, caps)
         IN  Chained(n, s, caps, rank, chain) /\ chain[1].on = "start"
<1> DEFINE s == Placed(n, caps)
           N == Len(n)
           Ok(c) == Chained(n, s, caps, rank, c)
           Turned(c) == ChainTurn(n, s, caps, c)
<1>0. N \in Nat /\ DOMAIN n = 1 .. N /\ N >= 1
  BY DEF Levelable
<1>1. Placing(n, caps, s) /\ DOMAIN s.start = DOMAIN n
  BY PlacedIs DEF Under
<1>2. PICK back : DrivingChain(n, s, caps) = back[N] /\ FollowSteps(n, s, caps, back)
  BY <1>0, DrivingUnfolds
<1> DEFINE first == <<ChainLink(n, s, caps, LastOf(n, s))>>
<1>3. back[1] = first /\ \A k \in 2 .. N : back[k] = Turned(back[k - 1])
  <2>1. back = [k \in 1 .. N |-> IF k = 1 THEN first ELSE Turned(back[k - 1])]
    BY <1>2, Zenon DEF FollowSteps
  <2> HIDE DEF Turned, first, N
  <2>2. back[1] = first
    <3>1. 1 \in 1 .. N
      BY <1>0
    <3> QED BY <2>1, <3>1
  <2>3. \A k \in 2 .. N : k \in 1 .. N /\ k # 1
    BY <1>0
  <2> QED BY <2>1, <2>2, <2>3
<1>4. Ok(first) /\ Len(first) = 1
  <2> DEFINE T == {ChainLink(n, s, caps, i) : i \in DOMAIN n}
             link == ChainLink(n, s, caps, LastOf(n, s))
  <2>1. LastOf(n, s) \in DOMAIN n
    BY <1>1, MakespanIs
  <2>2. link \in T /\ link.node = LastOf(n, s)
    BY <2>1 DEF ChainLink
  <2> HIDE DEF T, link
  <2>3. <<link>> \in Seq(T) /\ Len(<<link>>) = 1 /\ <<link>>[1] = link /\ <<link>> # <<>>
    BY <2>2
  <2>4. first = <<link>>
    BY DEF link
  <2> HIDE DEF first
  <2>5. first \in Seq(T) /\ Len(first) = 1 /\ first[1] = link /\ first # <<>>
    BY <2>3, <2>4
  <2>6. first[Len(first)].node = LastOf(n, s)
    BY <2>2, <2>5
  <2>7. ~ \E q : q \in 2 .. Len(first)
    BY <2>5
  <2>8. ~ \E p, q \in 1 .. Len(first) : p < q
    BY <2>5
  <2> QED BY <2>5, <2>6, <2>7, <2>8, Zenon DEF Chained, T
<1>5. \A c : Ok(c) => Len(c) <= N
  BY <1>1, ChainIsShort
<1>6. \A c : Ok(c) /\ c[1].on # "start" => Ok(Turned(c)) /\ Len(Turned(c)) = Len(c) + 1
  BY ChainTurnKeeps
<1>7. \A c : Ok(c) /\ c[1].on = "start" => Turned(c) = c
  BY ChainedIs DEF ChainTurn
<1>8. \A c : Ok(c) => Len(c) \in Nat
  BY ChainedIs
<1> HIDE DEF Ok, Turned, first, N
<1> DEFINE G == {k \in Nat : k + 1 <= N =>
                   /\ Ok(back[k + 1])
                   /\ back[k + 1][1].on # "start" => Len(back[k + 1]) = k + 1}
<1>9. 0 \in G
  <2>1. back[0 + 1] = first
    BY <1>3
  <2> QED BY <1>4, <2>1
<1>10. ASSUME NEW k \in Nat, k \in G PROVE k + 1 \in G
  <2> SUFFICES ASSUME (k + 1) + 1 <= N
               PROVE  /\ Ok(back[(k + 1) + 1])
                      /\ back[(k + 1) + 1][1].on # "start" => Len(back[(k + 1) + 1]) = (k + 1) + 1
    OBVIOUS
  <2>0. (k + 1) + 1 = k + 2 /\ k + 2 <= N
    <3>1. (k + 1) + 1 = k + 2
      OBVIOUS
    <3> QED BY <3>1
  <2> DEFINE c == back[k + 1]
  <2>1. Ok(c) /\ (c[1].on # "start" => Len(c) = k + 1)
    BY <1>0, <1>10
  <2>2. back[k + 2] = Turned(c)
    <3>1. k + 2 \in 2 .. N /\ (k + 2) - 1 = k + 1
      BY <1>0, <2>0
    <3> QED BY <1>3, <3>1
  <2> HIDE DEF c
  <2>3. ASSUME c[1].on = "start"
        PROVE  Ok(back[k + 2]) /\ (back[k + 2][1].on # "start" => Len(back[k + 2]) = k + 2)
    BY <1>7, <2>1, <2>2, <2>3
  <2>4. ASSUME c[1].on # "start"
        PROVE  Ok(back[k + 2]) /\ (back[k + 2][1].on # "start" => Len(back[k + 2]) = k + 2)
    <3>1. Ok(Turned(c)) /\ Len(Turned(c)) = Len(c) + 1 /\ Len(c) = k + 1
      BY <1>6, <2>1, <2>4
    <3>2. Len(Turned(c)) = k + 2
      BY <3>1
    <3> QED BY <2>2, <3>1, <3>2
  <2>5. Ok(back[k + 2]) /\ (back[k + 2][1].on # "start" => Len(back[k + 2]) = k + 2)
    BY <2>3, <2>4
  <2> QED BY <2>0, <2>5
<1>11. N - 1 \in G
  <2>1. N - 1 \in Nat
    BY <1>0
  <2> HIDE DEF G
  <2> QED BY <1>9, <1>10, <2>1, Upward
<1> DEFINE c == back[N]
<1>12. Ok(c) /\ (c[1].on # "start" => Len(c) = N)
  <2>1. (N - 1) + 1 = N
    BY <1>0
  <2> QED BY <1>11, <2>1
<1> HIDE DEF c
<1>13. c[1].on = "start"
  <2> SUFFICES ASSUME c[1].on # "start" PROVE FALSE
    OBVIOUS
  <2>1. Ok(Turned(c)) /\ Len(Turned(c)) = Len(c) + 1 /\ Len(c) = N
    BY <1>6, <1>12
  <2>2. Len(Turned(c)) <= N
    BY <1>5, <2>1
  <2> QED BY <1>0, <2>1, <2>2
<1>14. DrivingChain(n, s, caps) = c
  BY <1>2 DEF c
<1> QED BY <1>12, <1>13, <1>14 DEF Ok

-----------------------------------------------------------------------------
(* Nodes and tasks *)

(* The nodes of the scheduler and the tasks of the kernel are the same graph. *)
LEMMA NodesAreTasks ==
  ASSUME NEW g, NEW depth, Plannable(g, depth)
  PROVE  /\ \A i \in DOMAIN g :
              /\ g[i].id \in Members(Tasks(g)) /\ Tasks(g).len[g[i].id] = Nodes(g)[i].len
              /\ \A p \in DOMAIN Nodes(g)[i].preds :
                    /\ p \in DOMAIN g /\ g[p].id \in Tasks(g).deps[g[i].id]
                    /\ Tasks(g).lag[g[i].id][g[p].id] = Nodes(g)[i].preds[p]
              /\ \A y \in Tasks(g).deps[g[i].id] :
                    y = START \/ \E p \in DOMAIN Nodes(g)[i].preds : g[p].id = y
         /\ \A y \in Tasks(g).deps[FINISH] :
              Tasks(g).lag[FINISH][y] = 0 /\ (y = START \/ \E i \in DOMAIN g : g[i].id = y)
<1> DEFINE t == Tasks(g)
           n == Nodes(g)
           I == IdSet(g)
           M == I \cup {START, FINISH}
           Pre(x) == Prerequisites(Find(g, x))
<1>1. IsGraph(g) /\ UniqueIds(g) /\ KnownPrerequisites(g) /\ START \notin I /\ FINISH \notin I
  BY DEF Plannable
<1>2. /\ t.deps[FINISH] = IF Sinks(g) = {} THEN {START} ELSE Sinks(g)
      /\ \A x \in I : t.deps[x] = IF Pre(x) = {} THEN {START} ELSE Pre(x)
      /\ t.len = [x \in M |-> IF x \in {START, FINISH} THEN 0 ELSE ScheduledLength(Find(g, x))]
      /\ \A x \in M : \A p \in t.deps[x] :
            t.lag[x][p] = IF {x, p} \cap {START, FINISH} # {} THEN 0 ELSE Find(g, x).pre[p].lag
  BY <1>1, TaskFields DEF Plannable
<1>3. Members(t) = M
  BY <1>1, TasksAre
<1> HIDE DEF t, M
<1>4. ASSUME NEW i \in DOMAIN g
      PROVE  /\ g[i].id \in I /\ g[i].id \in M /\ Find(g, g[i].id) = g[i]
             /\ n[i].len = ScheduledLength(g[i])
             /\ DOMAIN n[i].preds = {j \in DOMAIN g : g[j].id \in Prerequisites(g[i])}
             /\ \A j \in DOMAIN n[i].preds : n[i].preds[j] = g[i].pre[g[j].id].lag
  BY <1>1, GraphIs, FindIs, NodeIs DEF M
<1> HIDE DEF n
<1>5. ASSUME NEW i \in DOMAIN g PROVE t.len[g[i].id] = n[i].len
  <2>1. g[i].id \notin {START, FINISH}
    BY <1>1, <1>4
  <2> QED BY <1>2, <1>4, <2>1
<1>6. ASSUME NEW i \in DOMAIN g, NEW p \in DOMAIN n[i].preds
      PROVE  /\ p \in DOMAIN g /\ g[p].id \in t.deps[g[i].id]
             /\ t.lag[g[i].id][g[p].id] = n[i].preds[p]
  <2>1. p \in DOMAIN g /\ g[p].id \in Prerequisites(g[i]) /\ n[i].preds[p] = g[i].pre[g[p].id].lag
    BY <1>4
  <2>2. g[p].id \in t.deps[g[i].id]
    BY <1>2, <1>4, <2>1
  <2>3. {g[i].id, g[p].id} \cap {START, FINISH} = {}
    BY <1>1, <1>4, <2>1
  <2> QED BY <1>2, <1>4, <2>1, <2>2, <2>3
<1>7. ASSUME NEW i \in DOMAIN g, NEW y \in t.deps[g[i].id]
      PROVE  y = START \/ \E p \in DOMAIN n[i].preds : g[p].id = y
  <2> SUFFICES ASSUME y # START PROVE \E p \in DOMAIN n[i].preds : g[p].id = y
    OBVIOUS
  <2>1. y \in Prerequisites(g[i])
    BY <1>2, <1>4
  <2>2. y \in I
    BY <1>1, <2>1 DEF KnownPrerequisites
  <2>3. PICK p \in DOMAIN g : g[p].id = y
    BY <2>2 DEF IdSet
  <2> QED BY <1>4, <2>1, <2>3
<1>8. ASSUME NEW y \in t.deps[FINISH]
      PROVE  t.lag[FINISH][y] = 0 /\ (y = START \/ \E i \in DOMAIN g : g[i].id = y)
  <2>1. FINISH \in M /\ {FINISH, y} \cap {START, FINISH} # {}
    BY DEF M
  <2>2. t.lag[FINISH][y] = 0
    BY <1>2, <2>1
  <2>3. y = START \/ y \in I
    BY <1>2 DEF Sinks
  <2> QED BY <2>2, <2>3 DEF IdSet
<1> QED BY <1>3, <1>4, <1>5, <1>6, <1>7, <1>8 DEF t, n

(* The longest chains, over the nodes. *)
LEMMA BeforeNodes ==
  ASSUME NEW g, NEW depth, Plannable(g, depth)
  PROVE  LET B == LongestBefore(Tasks(g))
             n == Nodes(g)
         IN  /\ B[FINISH] \in Nat
             /\ \A i \in DOMAIN g :
                   /\ B[g[i].id] \in Nat /\ n[i].len \in Nat /\ B[g[i].id] + n[i].len <= B[FINISH]
                   /\ \A p \in DOMAIN n[i].preds :
                         /\ p \in DOMAIN g /\ n[i].preds[p] \in Nat
                         /\ B[g[p].id] + n[p].len + n[i].preds[p] <= B[g[i].id]
                   /\ \/ B[g[i].id] = 0
                      \/ \E p \in DOMAIN n[i].preds : B[g[i].id] = B[g[p].id] + n[p].len + n[i].preds[p]
             /\ B[FINISH] = 0 \/ \E i \in DOMAIN g : B[FINISH] = B[g[i].id] + n[i].len
<1> DEFINE t == Tasks(g)
           n == Nodes(g)
           B == LongestBefore(t)
           F == LongestFrom(t)
           rank == TaskRank(g, depth)
<1>1. Sound(t, rank) /\ Bounded(t)
  BY TasksSound, TasksBounded
<1>2. /\ \A i \in DOMAIN g :
              /\ g[i].id \in Members(t) /\ t.len[g[i].id] = n[i].len
              /\ \A p \in DOMAIN n[i].preds :
                    /\ p \in DOMAIN g /\ g[p].id \in t.deps[g[i].id]
                    /\ t.lag[g[i].id][g[p].id] = n[i].preds[p]
              /\ \A y \in t.deps[g[i].id] : y = START \/ \E p \in DOMAIN n[i].preds : g[p].id = y
      /\ \A y \in t.deps[FINISH] : t.lag[FINISH][y] = 0 /\ (y = START \/ \E i \in DOMAIN g : g[i].id = y)
  BY NodesAreTasks
<1> HIDE DEF t, n, rank
<1>3. B \in [Members(t) -> Nat] /\ F \in [Members(t) -> Nat]
  BY <1>1, BeforeIs, FromIs
<1>4. /\ START \in Members(t) /\ FINISH \in Members(t) /\ t.len[START] = 0 /\ t.deps[START] = {}
      /\ t.deps[FINISH] # {}
  BY <1>1, NetworkAssumption DEF Bounded
<1>5. B[START] = 0
  BY <1>1, <1>4, BeforeTight
<1>6. ASSUME NEW x \in Members(t), t.deps[x] # {}
      PROVE  \E y \in t.deps[x] : B[x] = B[y] + t.len[y] + t.lag[x][y]
  BY <1>1, <1>6, BeforeTight
<1>7. ASSUME NEW x \in Members(t) PROVE B[x] + F[x] <= B[FINISH] /\ F[x] >= t.len[x] /\ t.len[x] \in Nat
  <2>1. B[x] + F[x] <= B[FINISH]
    BY <1>1, ChainsFit
  <2>2. F[x] >= t.len[x]
    BY <1>1, FromTight
  <2>3. t.len[x] \in Nat
    BY <1>1 DEF Sound
  <2> QED BY <2>1, <2>2, <2>3
<1>8. ASSUME NEW x \in Members(t), NEW y \in t.deps[x]
      PROVE  B[y] + t.len[y] + t.lag[x][y] <= B[x] /\ t.lag[x][y] \in Nat
  BY <1>1, BeforeEdge DEF Sound
<1> HIDE DEF B, F
<1>9. ASSUME NEW i \in DOMAIN g
      PROVE  /\ B[g[i].id] \in Nat /\ n[i].len \in Nat /\ B[g[i].id] + n[i].len <= B[FINISH]
             /\ \A p \in DOMAIN n[i].preds :
                   /\ p \in DOMAIN g /\ n[i].preds[p] \in Nat
                   /\ B[g[p].id] + n[p].len + n[i].preds[p] <= B[g[i].id]
             /\ \/ B[g[i].id] = 0
                \/ \E p \in DOMAIN n[i].preds : B[g[i].id] = B[g[p].id] + n[p].len + n[i].preds[p]
  <2> DEFINE x == g[i].id
  <2>1. x \in Members(t) /\ t.len[x] = n[i].len
    BY <1>2
  <2>2. B[x] \in Nat /\ n[i].len \in Nat /\ B[x] + n[i].len <= B[FINISH]
    <3>1. B[x] + F[x] <= B[FINISH] /\ F[x] >= t.len[x] /\ t.len[x] \in Nat
      BY <1>7, <2>1
    <3>2. B[x] \in Nat /\ F[x] \in Nat /\ B[FINISH] \in Nat
      BY <1>3, <1>4, <2>1
    <3> HIDE DEF x
    <3> QED BY <2>1, <3>1, <3>2
  <2>3. ASSUME NEW p \in DOMAIN n[i].preds
        PROVE  /\ p \in DOMAIN g /\ n[i].preds[p] \in Nat
               /\ B[g[p].id] + n[p].len + n[i].preds[p] <= B[x]
    <3>1. /\ p \in DOMAIN g /\ g[p].id \in t.deps[x] /\ t.lag[x][g[p].id] = n[i].preds[p]
          /\ t.len[g[p].id] = n[p].len
      BY <1>2
    <3>2. B[g[p].id] + t.len[g[p].id] + t.lag[x][g[p].id] <= B[x] /\ t.lag[x][g[p].id] \in Nat
      BY <1>8, <2>1, <3>1
    <3> QED BY <3>1, <3>2
  <2>4. B[x] = 0 \/ \E p \in DOMAIN n[i].preds : B[x] = B[g[p].id] + n[p].len + n[i].preds[p]
    <3>1. t.deps[x] # {} => \E y \in t.deps[x] : B[x] = B[y] + t.len[y] + t.lag[x][y]
      BY <1>6, <2>1
    <3>2. CASE t.deps[x] = {}
      <4>1. B[x] = 0
        BY <1>1, <2>1, <3>2, BeforeTight DEF B
      <4> QED BY <4>1
    <3>3. CASE t.deps[x] # {}
      <4>1. PICK y \in t.deps[x] : B[x] = B[y] + t.len[y] + t.lag[x][y]
        BY <3>1, <3>3
      <4>2. CASE y = START
        <5>1. t.lag[x][START] = 0
          <6>1. x \in IdSet(g) /\ x \in IdSet(g) \cup {START, FINISH}
            BY DEF IdSet
          <6>2. {x, START} \cap {START, FINISH} # {}
            OBVIOUS
          <6>3. \A z \in IdSet(g) \cup {START, FINISH} : \A q \in t.deps[z] :
                   t.lag[z][q] = IF {z, q} \cap {START, FINISH} # {} THEN 0 ELSE Find(g, z).pre[q].lag
            BY TaskFields DEF Plannable, t
          <6> QED BY <4>1, <4>2, <6>1, <6>2, <6>3
        <5>2. B[x] = 0
          BY <1>4, <1>5, <4>1, <4>2, <5>1
        <5> QED BY <5>2
      <4>3. CASE y # START
        <5>1. PICK p \in DOMAIN n[i].preds : g[p].id = y
          BY <1>2, <4>1, <4>3
        <5>2. p \in DOMAIN g /\ t.lag[x][y] = n[i].preds[p] /\ t.len[y] = n[p].len
          BY <1>2, <5>1
        <5>3. B[x] = B[g[p].id] + n[p].len + n[i].preds[p]
          BY <4>1, <5>1, <5>2
        <5> QED BY <5>3
      <4> QED BY <4>2, <4>3
    <3> QED BY <3>2, <3>3
  <2> QED BY <2>2, <2>3, <2>4
<1>10. B[FINISH] = 0 \/ \E i \in DOMAIN g : B[FINISH] = B[g[i].id] + n[i].len
  <2>1. PICK y \in t.deps[FINISH] : B[FINISH] = B[y] + t.len[y] + t.lag[FINISH][y]
    BY <1>4, <1>6
  <2>2. t.lag[FINISH][y] = 0 /\ (y = START \/ \E i \in DOMAIN g : g[i].id = y)
    BY <1>2, <2>1
  <2>3. CASE y = START
    BY <1>4, <1>5, <2>1, <2>2, <2>3
  <2>4. CASE \E i \in DOMAIN g : g[i].id = y
    <3>1. PICK i \in DOMAIN g : g[i].id = y
      BY <2>4
    <3>2. t.len[y] = n[i].len /\ B[y] \in Nat /\ n[i].len \in Nat
      BY <1>2, <1>9, <3>1
    <3>3. B[FINISH] = B[g[i].id] + n[i].len
      BY <2>1, <2>2, <3>1, <3>2
    <3> QED BY <3>3
  <2> QED BY <2>2, <2>3, <2>4
<1>11. B[FINISH] \in Nat
  BY <1>3, <1>4
<1> QED BY <1>9, <1>10, <1>11 DEF B, t, n

-----------------------------------------------------------------------------
(* Against the longest chains *)

(* No node starts before its longest chain, and the project is no shorter. *)
LEMMA StartsAreLate ==
  ASSUME NEW g, NEW depth, Plannable(g, depth), NEW caps, NEW rank, Levelable(Nodes(g), caps, rank)
  PROVE  LET n == Nodes(g)
             s == Placed(n, caps)
             B == LongestBefore(Tasks(g))
         IN  /\ \A i \in DOMAIN n : B[g[i].id] <= s.start[i]
             /\ B[FINISH] <= Makespan(n, s)
<1> DEFINE n == Nodes(g)
           s == Placed(n, caps)
           B == LongestBefore(Tasks(g))
           W == {i \in DOMAIN n : B[g[i].id] <= s.start[i]}
<1>1. DOMAIN n = DOMAIN g
  BY NodeIs DEF Plannable
<1>2. /\ B[FINISH] \in Nat
      /\ \A i \in DOMAIN g :
            /\ B[g[i].id] \in Nat /\ n[i].len \in Nat
            /\ \/ B[g[i].id] = 0
               \/ \E p \in DOMAIN n[i].preds : B[g[i].id] = B[g[p].id] + n[p].len + n[i].preds[p]
            /\ \A p \in DOMAIN n[i].preds : p \in DOMAIN g /\ n[i].preds[p] \in Nat
      /\ B[FINISH] = 0 \/ \E i \in DOMAIN g : B[FINISH] = B[g[i].id] + n[i].len
  BY BeforeNodes
<1>3. \A i \in DOMAIN n :
         /\ s.start[i] \in Nat
         /\ \A p \in DOMAIN n[i].preds : s.start[i] >= s.start[p] + n[p].len + n[i].preds[p]
  BY PrecedenceHolds
<1>4. Placing(n, caps, s) /\ DOMAIN s.start = DOMAIN n
  BY PlacedIs DEF Under
<1>5. rank \in [DOMAIN n -> Nat] /\ \A i \in DOMAIN n : \A p \in DOMAIN n[i].preds : rank[p] < rank[i]
  BY DEF Levelable
<1>6. Makespan(n, s) \in Nat /\ \A i \in DOMAIN n : Finish(n, s, i) <= Makespan(n, s)
  BY <1>4, MakespanIs
<1> HIDE DEF n, s, B
<1>7. ASSUME NEW i \in DOMAIN n, \A j \in DOMAIN n : rank[j] < rank[i] => j \in W
      PROVE  i \in W
  <2>1. CASE B[g[i].id] = 0
    BY <1>3, <2>1
  <2>2. CASE \E p \in DOMAIN n[i].preds : B[g[i].id] = B[g[p].id] + n[p].len + n[i].preds[p]
    <3>1. PICK p \in DOMAIN n[i].preds : B[g[i].id] = B[g[p].id] + n[p].len + n[i].preds[p]
      BY <2>2
    <3>2. p \in DOMAIN n /\ n[i].preds[p] \in Nat /\ n[p].len \in Nat /\ B[g[p].id] \in Nat
      BY <1>1, <1>2
    <3>3. B[g[p].id] <= s.start[p] /\ s.start[p] \in Nat
      BY <1>3, <1>5, <1>7, <3>2
    <3>4. s.start[i] >= s.start[p] + n[p].len + n[i].preds[p] /\ s.start[i] \in Nat
      BY <1>3
    <3> DEFINE bi == B[g[i].id]
               bp == B[g[p].id]
               si == s.start[i]
               sp == s.start[p]
               len == n[p].len
               lag == n[i].preds[p]
    <3>5. bi = bp + len + lag /\ bp <= sp /\ si >= sp + len + lag
          /\ bp \in Nat /\ len \in Nat /\ lag \in Nat /\ si \in Nat /\ sp \in Nat
      BY <3>1, <3>2, <3>3, <3>4
    <3> HIDE DEF bi, bp, si, sp, len, lag
    <3>6. bi <= si
      BY <3>5
    <3> QED BY <3>6 DEF bi, si
  <2> QED BY <1>1, <1>2, <2>1, <2>2
<1>8. DOMAIN n \subseteq W
  <2> HIDE DEF W
  <2> QED BY <1>5, <1>7, Upwards
<1>9. B[FINISH] <= Makespan(n, s)
  <2>1. CASE B[FINISH] = 0
    BY <1>6, <2>1
  <2>2. CASE \E i \in DOMAIN g : B[FINISH] = B[g[i].id] + n[i].len
    <3>1. PICK i \in DOMAIN g : B[FINISH] = B[g[i].id] + n[i].len
      BY <2>2
    <3>2. B[g[i].id] <= s.start[i] /\ s.start[i] \in Nat /\ B[g[i].id] \in Nat /\ n[i].len \in Nat
      BY <1>1, <1>2, <1>3, <1>8
    <3>3. s.start[i] + n[i].len <= Makespan(n, s)
      BY <1>1, <1>6 DEF Finish
    <3> QED BY <1>2, <1>6, <3>1, <3>2, <3>3
  <2> QED BY <1>2, <2>1, <2>2
<1> QED BY <1>8, <1>9 DEF n, s, B

(* The links of the chain: each begins when the one before it lets it, and the first
   at time 0. *)
LEMMA LinksAre ==
  ASSUME NEW n, NEW caps, NEW rank, Levelable(n, caps, rank), n # <<>>, DOMAIN n # {}
  PROVE  LET s == Placed(n, caps)
             chain == DrivingChain(n, s, caps)
         IN  /\ Len(chain) \in Nat \ {0} /\ DOMAIN chain = 1 .. Len(chain)
             /\ \A k \in 1 .. Len(chain) : chain[k].node \in DOMAIN n
             /\ s.start[chain[1].node] = 0
             /\ chain[Len(chain)].node = LastOf(n, s)
             /\ \A k \in 2 .. Len(chain) :
                   \/ /\ chain[k].on = "dependency"
                      /\ chain[k - 1].node \in DOMAIN n[chain[k].node].preds
                      /\ Finish(n, s, chain[k - 1].node) + n[chain[k].node].preds[chain[k - 1].node]
                           = s.start[chain[k].node]
                   \/ /\ chain[k].on = "resource"
                      /\ Finish(n, s, chain[k - 1].node) = s.start[chain[k].node]
<1> DEFINE s == Placed(n, caps)
           chain == DrivingChain(n, s, caps)
           W(i) == Waited(n, s, caps, i)
<1>1. Chained(n, s, caps, rank, chain) /\ chain[1].on = "start"
  BY DrivingChainIs
<1>2. /\ Len(chain) \in Nat \ {0} /\ DOMAIN chain = 1 .. Len(chain)
      /\ \A k \in 1 .. Len(chain) : chain[k].node \in DOMAIN n /\ chain[k].on = W(chain[k].node).on
  BY <1>1, ChainedIs
<1>3. chain[Len(chain)].node = LastOf(n, s)
      /\ \A k \in 2 .. Len(chain) : chain[k].on # "start" /\ chain[k - 1].node = W(chain[k].node).next
  BY <1>1 DEF Chained
<1>4. \A i \in DOMAIN n :
         \/ W(i).on = "start" /\ s.start[i] = 0
         \/ /\ W(i).on = "dependency" /\ W(i).next \in DOMAIN n[i].preds
            /\ Finish(n, s, W(i).next) + n[i].preds[W(i).next] = s.start[i]
         \/ W(i).on = "resource" /\ Finish(n, s, W(i).next) = s.start[i]
  BY WaitedIs
<1> HIDE DEF s, chain, W
<1>5. s.start[chain[1].node] = 0
  <2>1. 1 \in 1 .. Len(chain)
    BY <1>2
  <2>2. chain[1].node \in DOMAIN n /\ W(chain[1].node).on = "start"
    BY <1>1, <1>2, <2>1
  <2> QED BY <1>4, <2>2
<1>6. ASSUME NEW k \in 2 .. Len(chain)
      PROVE  \/ /\ chain[k].on = "dependency"
                /\ chain[k - 1].node \in DOMAIN n[chain[k].node].preds
                /\ Finish(n, s, chain[k - 1].node) + n[chain[k].node].preds[chain[k - 1].node]
                     = s.start[chain[k].node]
             \/ chain[k].on = "resource" /\ Finish(n, s, chain[k - 1].node) = s.start[chain[k].node]
  <2> DEFINE i == chain[k].node
             p == chain[k - 1].node
  <2>1. k \in 1 .. Len(chain)
    BY <1>2
  <2>2. i \in DOMAIN n /\ chain[k].on = W(i).on /\ chain[k].on # "start" /\ p = W(i).next
    BY <1>2, <1>3, <2>1
  <2> HIDE DEF i, p
  <2>3. \/ chain[k].on = "dependency" /\ p \in DOMAIN n[i].preds /\ Finish(n, s, p) + n[i].preds[p] = s.start[i]
        \/ chain[k].on = "resource" /\ Finish(n, s, p) = s.start[i]
    BY <1>4, <2>2
  <2> QED BY <2>3 DEF i, p
<1> QED BY <1>2, <1>3, <1>5, <1>6 DEF s, chain

(* Without contention the chain is a longest one. *)
LEMMA WithoutContention ==
  ASSUME NEW g, NEW depth, Plannable(g, depth), NEW caps, NEW rank, Levelable(Nodes(g), caps, rank),
         Nodes(g) # <<>>, DOMAIN Nodes(g) # {},
         \A k \in DOMAIN DrivingChain(Nodes(g), Placed(Nodes(g), caps), caps) :
            DrivingChain(Nodes(g), Placed(Nodes(g), caps), caps)[k].on # "resource"
  PROVE  Makespan(Nodes(g), Placed(Nodes(g), caps)) = LongestBefore(Tasks(g))[FINISH]
<1> DEFINE n == Nodes(g)
           s == Placed(n, caps)
           B == LongestBefore(Tasks(g))
           chain == DrivingChain(n, s, caps)
           L == Len(chain)
<1>1. DOMAIN n = DOMAIN g
  BY NodeIs DEF Plannable
<1>2. /\ B[FINISH] \in Nat
      /\ \A i \in DOMAIN g :
            /\ B[g[i].id] \in Nat /\ n[i].len \in Nat /\ B[g[i].id] + n[i].len <= B[FINISH]
            /\ \A p \in DOMAIN n[i].preds : /\ p \in DOMAIN g /\ n[i].preds[p] \in Nat
                                            /\ B[g[p].id] + n[p].len + n[i].preds[p] <= B[g[i].id]
  BY BeforeNodes
<1>3. B[FINISH] <= Makespan(n, s)
  BY StartsAreLate
<1>4. Placing(n, caps, s) /\ DOMAIN s.start = DOMAIN n
  BY PlacedIs DEF Under
<1>5. Makespan(n, s) \in Nat /\ Finish(n, s, LastOf(n, s)) = Makespan(n, s) /\ LastOf(n, s) \in DOMAIN n
  BY <1>4, MakespanIs
<1>6. \A i \in DOMAIN n : s.start[i] \in Nat
  BY PrecedenceHolds
<1>7. /\ L \in Nat \ {0} /\ DOMAIN chain = 1 .. L
      /\ \A k \in 1 .. L : chain[k].node \in DOMAIN n
      /\ s.start[chain[1].node] = 0 /\ chain[L].node = LastOf(n, s)
      /\ \A k \in 2 .. L :
            \/ /\ chain[k].on = "dependency"
               /\ chain[k - 1].node \in DOMAIN n[chain[k].node].preds
               /\ Finish(n, s, chain[k - 1].node) + n[chain[k].node].preds[chain[k - 1].node]
                    = s.start[chain[k].node]
            \/ chain[k].on = "resource"
  BY LinksAre
<1>8. \A k \in 1 .. L : chain[k].on # "resource"
  BY <1>7
<1> HIDE DEF n, s, B, chain, L
<1> DEFINE G == {k \in Nat : k + 1 <= L => s.start[chain[k + 1].node] <= B[g[chain[k + 1].node].id]}
<1>9. 0 \in G
  <2>1. 1 \in 1 .. L /\ 0 + 1 = 1
    BY <1>7
  <2>2. B[g[chain[1].node].id] \in Nat
    BY <1>1, <1>2, <1>7, <2>1
  <2> QED BY <1>7, <2>1, <2>2
<1>10. ASSUME NEW k \in Nat, k \in G PROVE k + 1 \in G
  <2> SUFFICES ASSUME (k + 1) + 1 <= L
               PROVE  s.start[chain[(k + 1) + 1].node] <= B[g[chain[(k + 1) + 1].node].id]
    OBVIOUS
  <2> DEFINE q == (k + 1) + 1
             i == chain[q].node
             p == chain[k + 1].node
  <2>1. q \in 2 .. L /\ q - 1 = k + 1 /\ q \in 1 .. L /\ k + 1 \in 1 .. L /\ k + 1 <= L
    BY <1>7
  <2>2. s.start[p] <= B[g[p].id]
    BY <1>10, <2>1
  <2> HIDE DEF q
  <2>3. i \in DOMAIN n /\ p \in DOMAIN n[i].preds /\ Finish(n, s, p) + n[i].preds[p] = s.start[i]
    BY <1>7, <1>8, <2>1
  <2> HIDE DEF i, p
  <2>4. /\ p \in DOMAIN n /\ n[i].preds[p] \in Nat /\ n[p].len \in Nat /\ s.start[p] \in Nat
        /\ B[g[p].id] \in Nat /\ B[g[i].id] \in Nat /\ s.start[i] \in Nat
        /\ B[g[p].id] + n[p].len + n[i].preds[p] <= B[g[i].id]
    BY <1>1, <1>2, <1>6, <2>3
  <2> DEFINE bi == B[g[i].id]
             bp == B[g[p].id]
             si == s.start[i]
             sp == s.start[p]
             len == n[p].len
             lag == n[i].preds[p]
  <2>5. sp <= bp /\ sp + len + lag = si /\ bp + len + lag <= bi
        /\ {sp, bp, si, bi, len, lag} \subseteq Nat
    BY <2>2, <2>3, <2>4 DEF Finish
  <2> HIDE DEF bi, bp, si, sp, len, lag
  <2>6. si <= bi
    BY <2>5
  <2> QED BY <2>6 DEF si, bi, i, q
<1>11. L - 1 \in G
  <2>1. L - 1 \in Nat
    BY <1>7
  <2> HIDE DEF G
  <2> QED BY <1>9, <1>10, <2>1, Upward
<1> DEFINE last == chain[L].node
<1>12. s.start[last] <= B[g[last].id]
  <2>1. (L - 1) + 1 = L
    BY <1>7
  <2> QED BY <1>11, <2>1
<1>13. last \in DOMAIN n /\ s.start[last] + n[last].len = Makespan(n, s)
  <2>1. last = LastOf(n, s)
    BY <1>7
  <2> QED BY <1>5, <2>1 DEF Finish
<1> HIDE DEF last
<1>14. Makespan(n, s) <= B[FINISH]
  <2>1. /\ s.start[last] \in Nat /\ B[g[last].id] \in Nat /\ n[last].len \in Nat
        /\ B[g[last].id] + n[last].len <= B[FINISH]
    BY <1>1, <1>2, <1>6, <1>13
  <2> QED BY <1>2, <1>5, <1>12, <1>13, <2>1
<1>15. Makespan(n, s) = B[FINISH]
  BY <1>2, <1>3, <1>5, <1>14
<1> QED BY <1>15 DEF n, s, B

=============================================================================
