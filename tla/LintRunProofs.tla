---------------------------- MODULE LintRunProofs ----------------------------
(***************************************************************************)
(* Theorems about LintRun, for any files, linters and configurations.      *)
(***************************************************************************)
EXTENDS LintRun, FiniteSetTheorems, SequenceTheorems, TLAPS

-----------------------------------------------------------------------------
(* Induction over the natural numbers, stated of sets.                     *)

Less == {ss \in Nat \X Nat : ss[1] < ss[2]}

LEMMA LeastNat ==
    ASSUME NEW T \in SUBSET Nat, T # {}
    PROVE  \E x \in T : \A y \in T : x <= y
<1>1. IsWellFoundedOn(Less, Nat)
  BY NatLessThanWellFounded, Zenon DEF OpToRel, Less
<1>2. PICK x \in T : \A y \in T : ~(<<y, x>> \in Less)
  BY <1>1, WFMin
<1>3. ASSUME NEW y \in T
      PROVE  x <= y
  <2>1. ~(<<y, x>> \in Less)
    BY <1>2
  <2>2. <<y, x>> \in Nat \X Nat
    OBVIOUS
  <2>3. ~(y < x)
    BY <2>1, <2>2 DEF Less
  <2> QED
    BY <2>3
<1> QED
  BY <1>3

LEMMA Induct ==
    ASSUME NEW n \in Nat, NEW T, 0 \in T, \A k \in 1..n : k - 1 \in T => k \in T
    PROVE  \A k \in 0..n : k \in T
<1> SUFFICES ASSUME {k \in 0..n : k \notin T} # {}
             PROVE  FALSE
  OBVIOUS
<1>1. PICK x \in {k \in 0..n : k \notin T} : \A y \in {k \in 0..n : k \notin T} : x <= y
  <2>1. {k \in 0..n : k \notin T} \in SUBSET Nat
    OBVIOUS
  <2> QED
    BY <2>1, LeastNat
<1>2. x \in 1..n /\ x - 1 \in 0..n /\ ~(x <= x - 1)
  BY <1>1
<1> QED
  BY <1>1, <1>2

LEMMA MinIn ==
    ASSUME NEW T \in SUBSET Nat, T # {}
    PROVE  Min(T) \in T /\ \A y \in T : Min(T) <= y
BY LeastNat DEF Min

LEMMA MaxIn ==
    ASSUME NEW T \in SUBSET Int, T # {}, NEW b \in Int, \A y \in T : y <= b
    PROVE  Max(T) \in T /\ \A y \in T : Max(T) >= y
<1> DEFINE U == {n \in Nat : b - n \in T}
<1>1. U # {}
  <2>1. PICK y \in T : TRUE
    OBVIOUS
  <2>2. y \in Int /\ b - y \in Nat /\ b - (b - y) = y
    BY <2>1
  <2> QED
    BY <2>1, <2>2
<1>2. PICK x \in U : \A y \in U : x <= y
  BY <1>1, LeastNat
<1>3. b - x \in T
  BY <1>2
<1>4. ASSUME NEW y \in T
      PROVE  b - x >= y
  <2>1. y \in Int /\ b - y \in Nat /\ b - (b - y) = y
    OBVIOUS
  <2>2. x <= b - y
    BY <1>2, <2>1
  <2> QED
    BY <1>2, <2>1, <2>2
<1>5. \E m \in T : \A y \in T : m >= y
  BY <1>3, <1>4
<1> QED
  BY <1>5 DEF Max

(* A function that is defined by recursion exists.                         *)
Follows(f, n, start, round) ==
    \A k \in 0..n : f[k] = IF k = 0 THEN start ELSE round[<<k, f[k - 1]>>]

LEMMA Recursion ==
    ASSUME NEW n \in Nat, NEW V, NEW start \in V, NEW round \in [(1..n) \X V -> V]
    PROVE  \E f \in [0..n -> V] : Follows(f, n, start, round)
<1> DEFINE T == {m \in Nat : \E f \in [0..m -> V] :
                     \A k \in 0..m : k <= n => f[k] = IF k = 0 THEN start ELSE round[<<k, f[k - 1]>>]}
<1>1. 0 \in T
  <2>1. [k \in 0..0 |-> start] \in [0..0 -> V]
    OBVIOUS
  <2>2. \A k \in 0..0 : [j \in 0..0 |-> start][k] = IF k = 0 THEN start ELSE round[<<k, [j \in 0..0 |-> start][k - 1]>>]
    OBVIOUS
  <2> QED
    BY <2>1, <2>2
<1>2. ASSUME NEW m \in 1..n, m - 1 \in T
      PROVE  m \in T
  <2>1. PICK f \in [0..(m - 1) -> V] :
            \A k \in 0..(m - 1) : k <= n => f[k] = IF k = 0 THEN start ELSE round[<<k, f[k - 1]>>]
    BY <1>2
  <2> DEFINE g == [k \in 0..m |-> IF k = m THEN round[<<m, f[m - 1]>>] ELSE f[k]]
  <2>2. f[m - 1] \in V
    BY <2>1
  <2>3. round[<<m, f[m - 1]>>] \in V
    BY <2>2
  <2>4. g \in [0..m -> V]
    BY <2>1, <2>3
  <2>5. ASSUME NEW k \in 0..m, k <= n
        PROVE  g[k] = IF k = 0 THEN start ELSE round[<<k, g[k - 1]>>]
    <3>1. CASE k = m
      <4>1. k # 0 /\ k - 1 \in 0..m /\ k - 1 # m
        BY <3>1
      <4>2. g[k] = round[<<m, f[m - 1]>>] /\ g[k - 1] = f[k - 1]
        BY <3>1, <4>1
      <4> HIDE DEF g
      <4> QED
        BY <3>1, <4>1, <4>2
    <3>2. CASE k # m
      <4>1. k \in 0..(m - 1) /\ (k # 0 => k - 1 \in 0..(m - 1) /\ k - 1 # m)
        BY <3>2
      <4>2. g[k] = f[k] /\ (k # 0 => g[k - 1] = f[k - 1])
        BY <4>1, <3>2
      <4> HIDE DEF g
      <4> QED
        BY <2>1, <2>5, <4>1, <4>2
    <3> QED
      BY <3>1, <3>2
  <2> HIDE DEF g
  <2> QED
    BY <2>4, <2>5
<1>3. n \in T
  <2> HIDE DEF T
  <2> QED
    BY <1>1, <1>2, Induct
<1>4. PICK f \in [0..n -> V] :
          \A k \in 0..n : k <= n => f[k] = IF k = 0 THEN start ELSE round[<<k, f[k - 1]>>]
  BY <1>3
<1>5. \A k \in 0..n : k <= n
  OBVIOUS
<1> QED
  BY <1>4, <1>5 DEF Follows

-----------------------------------------------------------------------------
(* Lists                                                                   *)

LEMMA InOrderFact ==
    ASSUME NEW S, IsFiniteSet(S), NEW rank,
           \A x \in S : rank[x] \in Int,
           \A x, y \in S : rank[x] = rank[y] => x = y
    PROVE  /\ Cardinality(S) \in Nat
           /\ InOrder(S, rank) \in [1..Cardinality(S) -> S]
           /\ InOrder(S, rank) \in Seq(S)
           /\ Len(InOrder(S, rank)) = Cardinality(S)
           /\ \A x \in S : \E n \in 1..Cardinality(S) : InOrder(S, rank)[n] = x
<1> DEFINE Below(x) == {y \in S : rank[y] < rank[x]}
           N == Cardinality(S)
           place == [x \in S |-> Cardinality(Below(x)) + 1]
<1>1. N \in Nat /\ IsFiniteSet(1..N) /\ Cardinality(1..N) = N
  BY FS_CardinalityType, FS_Interval
<1>2. ASSUME NEW x \in S
      PROVE  IsFiniteSet(Below(x)) /\ Cardinality(Below(x)) \in 0..(N - 1)
  <2>1. IsFiniteSet(S \ {x}) /\ Cardinality(S \ {x}) = N - 1
    BY FS_RemoveElement
  <2>2. Below(x) \in SUBSET (S \ {x})
    OBVIOUS
  <2> HIDE DEF Below
  <2>3. IsFiniteSet(Below(x)) /\ Cardinality(Below(x)) <= Cardinality(S \ {x})
    BY <2>1, <2>2, FS_Subset
  <2>4. Cardinality(Below(x)) \in Nat
    BY <2>3, FS_CardinalityType
  <2> QED
    BY <1>1, <2>1, <2>3, <2>4
<1>3. place \in [S -> 1..N]
  <2> HIDE DEF Below
  <2> QED
    BY <1>1, <1>2
<1>4. ASSUME NEW x \in S, NEW y \in S, rank[x] < rank[y]
      PROVE  place[x] < place[y]
  <2>1. Below(x) \cup {x} \in SUBSET Below(y) /\ x \notin Below(x)
    BY <1>4
  <2> HIDE DEF Below
  <2>2. IsFiniteSet(Below(x) \cup {x}) /\ Cardinality(Below(x) \cup {x}) = Cardinality(Below(x)) + 1
    BY <1>2, <2>1, FS_AddElement
  <2>3. Cardinality(Below(x) \cup {x}) <= Cardinality(Below(y))
    BY <1>2, <2>1, FS_Subset
  <2> QED
    BY <1>2, <2>2, <2>3
<1>5. \A x, y \in S : place[x] = place[y] => x = y
  <2> SUFFICES ASSUME NEW x \in S, NEW y \in S, place[x] = place[y]
               PROVE  x = y
    OBVIOUS
  <2>1. place[x] \in Int /\ ~(place[x] < place[y]) /\ ~(place[y] < place[x])
    <3> HIDE DEF place
    <3> QED
      BY <1>1, <1>3
  <2>2. ~(rank[x] < rank[y]) /\ ~(rank[y] < rank[x])
    BY <1>4, <2>1
  <2> QED
    BY <2>2
<1>6. \A n \in 1..N : \E x \in S : place[x] = n
  <2> HIDE DEF place
  <2>1. place \in Injection(S, 1..N)
    BY <1>3, <1>5 DEF Injection, IsInjective
  <2>2. place \in Surjection(S, 1..N)
    BY <1>1, <2>1, FS_Injection
  <2> QED
    BY <2>2 DEF Surjection
<1>7. \A n \in 1..N : \A x \in S : Cardinality(Below(x)) = n - 1 <=> place[x] = n
  <2> HIDE DEF Below
  <2> QED
    BY <1>1, <1>2
<1>8. ASSUME NEW n \in 1..N
      PROVE  InOrder(S, rank)[n] \in S /\ place[InOrder(S, rank)[n]] = n
  <2>1. InOrder(S, rank)[n] = CHOOSE x \in S : Cardinality(Below(x)) = n - 1
    BY DEF InOrder
  <2> HIDE DEF Below, place
  <2>2. \E x \in S : Cardinality(Below(x)) = n - 1
    BY <1>6, <1>7
  <2> QED
    BY <1>7, <2>1, <2>2
<1>9. InOrder(S, rank) = [n \in 1..N |-> InOrder(S, rank)[n]]
  <2> DEFINE e(n) == CHOOSE x \in S : Cardinality(Below(x)) = n - 1
             order == [n \in 1..N |-> e(n)]
  <2>1. InOrder(S, rank) = order
    BY DEF InOrder
  <2>2. order = [n \in 1..N |-> order[n]]
    <3> HIDE DEF e, N
    <3> QED
      OBVIOUS
  <2> HIDE DEF order
  <2> QED
    BY <2>1, <2>2
<1>10. InOrder(S, rank) \in [1..N -> S]
  <2> HIDE DEF place
  <2> QED
    BY <1>8, <1>9
<1>11. \A x \in S : \E n \in 1..N : InOrder(S, rank)[n] = x
  <2> HIDE DEF place
  <2> QED
    BY <1>3, <1>5, <1>8
<1>12. InOrder(S, rank) \in Seq(S) /\ Len(InOrder(S, rank)) = N
  <2> HIDE DEF N
  <2> QED
    BY <1>1, <1>10
<1> QED
  BY <1>1, <1>10, <1>11, <1>12

(* The elements of s at K, and nothing else.                               *)
LEMMA KeptFact ==
    ASSUME NEW T, NEW s \in Seq(T), NEW K \in SUBSET (DOMAIN s)
    PROVE  /\ Kept(s, K) \in Seq({s[k] : k \in K})
           /\ Kept(s, K) \in Seq(T)
           /\ \A n \in DOMAIN Kept(s, K) : \E k \in K : Kept(s, K)[n] = s[k]
           /\ \A k \in K : \E n \in DOMAIN Kept(s, K) : Kept(s, K)[n] = s[k]
<1> DEFINE rank == [k \in K |-> k]
           place == InOrder(K, rank)
<1>1. Len(s) \in Nat /\ DOMAIN s = 1..Len(s) /\ \A k \in K : s[k] \in T /\ k \in Int
  OBVIOUS
<1>2. IsFiniteSet(K)
  <2>1. IsFiniteSet(1..Len(s))
    BY <1>1, FS_Interval
  <2> QED
    BY <1>1, <2>1, FS_Subset
<1>3. /\ \A x \in K : rank[x] \in Int
      /\ \A x, y \in K : rank[x] = rank[y] => x = y
  BY <1>1
<1> HIDE DEF rank
<1>4. /\ place \in Seq(K) /\ DOMAIN place = 1..Len(place) /\ Len(place) \in Nat
      /\ \A x \in K : \E n \in DOMAIN place : place[n] = x
  <2>1. /\ Cardinality(K) \in Nat
        /\ InOrder(K, rank) \in Seq(K)
        /\ Len(InOrder(K, rank)) = Cardinality(K)
        /\ \A x \in K : \E n \in 1..Cardinality(K) : InOrder(K, rank)[n] = x
    BY <1>2, <1>3, InOrderFact
  <2>2. DOMAIN place = 1..Len(place)
    BY <2>1
  <2> QED
    BY <2>1, <2>2
<1>5. Kept(s, K) = [n \in DOMAIN place |-> s[place[n]]]
  BY DEF Kept, rank
<1> HIDE DEF place
<1>6. \A n \in DOMAIN place : place[n] \in K
  BY <1>4
<1>7. Kept(s, K) \in Seq({s[k] : k \in K})
  BY <1>4, <1>5, <1>6
<1>8. \A k \in K : \E n \in DOMAIN Kept(s, K) : Kept(s, K)[n] = s[k]
  BY <1>4, <1>5
<1>9. \A n \in DOMAIN Kept(s, K) : \E k \in K : Kept(s, K)[n] = s[k]
  BY <1>5, <1>6
<1>10. Kept(s, K) \in Seq(T)
  BY <1>1, <1>4, <1>5, <1>6
<1> QED
  BY <1>7, <1>8, <1>9, <1>10

LEMMA ConcatFact ==
    ASSUME NEW T, NEW a \in Seq(T), NEW b \in Seq(T), NEW c, c = a \o b
    PROVE  /\ c \in Seq(T) /\ Len(a) \in Nat /\ Len(b) \in Nat /\ Len(c) = Len(a) + Len(b)
           /\ DOMAIN a = 1..Len(a) /\ DOMAIN b = 1..Len(b) /\ DOMAIN c = 1..(Len(a) + Len(b))
           /\ \A m \in DOMAIN a : m \in DOMAIN c /\ c[m] = a[m]
           /\ \A m \in DOMAIN b : Len(a) + m \in DOMAIN c /\ c[Len(a) + m] = b[m]
<1>1. c \in Seq(T) /\ Len(a) \in Nat /\ Len(b) \in Nat /\ Len(c) = Len(a) + Len(b)
  OBVIOUS
<1>2. DOMAIN a = 1..Len(a) /\ DOMAIN b = 1..Len(b) /\ DOMAIN c = 1..(Len(a) + Len(b))
  BY <1>1
<1>3. \A m \in DOMAIN a : c[m] = a[m]
  OBVIOUS
<1>4. \A m \in DOMAIN b : c[Len(a) + m] = b[m]
  BY <1>1, <1>2
<1>5. /\ \A m \in DOMAIN a : m \in DOMAIN c
      /\ \A m \in DOMAIN b : Len(a) + m \in DOMAIN c
  BY <1>1, <1>2
<1> QED
  BY <1>1, <1>2, <1>3, <1>4, <1>5

(* FlattenSeq appends one list after the other.                            *)
LEMMA FlattenSteps ==
    ASSUME NEW T, NEW ss \in Seq(Seq(T)), ss # <<>>
    PROVE  \E flat \in [1..Len(ss) -> Seq(T)] :
              /\ FlattenSeq(ss) = flat[Len(ss)]
              /\ \A k \in 1..Len(ss) : flat[k] = IF k = 1 THEN ss[k] ELSE flat[k - 1] \o ss[k]
<1> DEFINE n == Len(ss)
           Flat(f) == f = [k \in 1..n |-> IF k = 1 THEN ss[k] ELSE f[k - 1] \o ss[k]]
           flat == CHOOSE f : Flat(f)
<1>1. n \in Nat /\ n # 0 /\ DOMAIN ss = 1..n /\ \A k \in 1..n : ss[k] \in Seq(T)
  OBVIOUS
<1>2. FlattenSeq(ss) = flat[n]
  BY <1>1 DEF FlattenSeq
<1> HIDE DEF n
<1>3. \E f : Flat(f)
  <2> DEFINE round == [x \in (1..(n - 1)) \X Seq(T) |-> x[2] \o ss[x[1] + 1]]
  <2>1. round \in [(1..(n - 1)) \X Seq(T) -> Seq(T)]
    BY <1>1
  <2>2. n - 1 \in Nat /\ ss[1] \in Seq(T)
    BY <1>1
  <2> HIDE DEF round
  <2>3. PICK g \in [0..(n - 1) -> Seq(T)] :
            \A k \in 0..(n - 1) : g[k] = IF k = 0 THEN ss[1] ELSE round[<<k, g[k - 1]>>]
    <3> DEFINE m == n - 1
    <3> HIDE DEF m
    <3>1. \E g \in [0..m -> Seq(T)] :
              \A k \in 0..m : g[k] = IF k = 0 THEN ss[1] ELSE round[<<k, g[k - 1]>>]
      <4> DEFINE V == Seq(T)
                 start == ss[1]
      <4>1. m \in Nat /\ round \in [(1..m) \X V -> V] /\ start \in V
        BY <2>1, <2>2 DEF m
      <4> HIDE DEF V, start
      <4>2. \E g \in [0..m -> V] : Follows(g, m, start, round)
        BY <4>1, Recursion
      <4> QED
        BY <4>2 DEF V, start, Follows
    <3> QED
      BY <3>1 DEF m
  <2> DEFINE f == [k \in 1..n |-> g[k - 1]]
  <2>4. ASSUME NEW k \in 1..n
        PROVE  f[k] = IF k = 1 THEN ss[k] ELSE f[k - 1] \o ss[k]
    <3>1. CASE k = 1
      <4>1. 0 \in 0..(n - 1) /\ k - 1 = 0
        BY <1>1, <3>1
      <4>2. g[0] = ss[1]
        BY <2>3, <4>1
      <4> QED
        BY <3>1, <4>1, <4>2
    <3>2. CASE k # 1
      <4>1. k - 1 \in 1..(n - 1) /\ k - 1 \in 0..(n - 1) /\ k - 2 \in 0..(n - 1) /\ (k - 1) - 1 = k - 2
            /\ (k - 1) + 1 = k /\ k - 1 \in 1..n
        BY <1>1, <3>2
      <4>2. f[k] = round[<<k - 1, g[k - 2]>>]
        BY <2>3, <4>1
      <4>3. g[k - 2] \in Seq(T)
        BY <2>3, <4>1
      <4>4. f[k] = g[k - 2] \o ss[k]
        BY <4>1, <4>2, <4>3 DEF round
      <4>5. f[k - 1] = g[k - 2]
        BY <4>1
      <4> HIDE DEF f
      <4> QED
        BY <3>2, <4>4, <4>5
    <3> QED
      BY <3>1, <3>2
  <2>5. f = [k \in 1..n |-> f[k]]
    OBVIOUS
  <2> HIDE DEF f
  <2>6. Flat(f)
    BY <2>4, <2>5
  <2> QED
    BY <2>6
<1>4. Flat(flat)
  <2> HIDE DEF Flat
  <2> QED
    BY <1>3
<1>5. /\ \A k \in 1..n : flat[k] = IF k = 1 THEN ss[k] ELSE flat[k - 1] \o ss[k]
      /\ flat = [k \in 1..n |-> flat[k]]
  <2> HIDE DEF flat
  <2>1. \A k \in 1..n : flat[k] = IF k = 1 THEN ss[k] ELSE flat[k - 1] \o ss[k]
    BY <1>4
  <2>2. DOMAIN flat = 1..n
    BY <1>4
  <2>3. flat = [k \in DOMAIN flat |-> flat[k]]
    BY <1>4
  <2> HIDE DEF Flat
  <2> QED
    BY <2>1, <2>2, <2>3
<1> HIDE DEF flat
<1> DEFINE U == {k \in 0..n : k > 0 => flat[k] \in Seq(T)}
<1>6. \A k \in 1..n : k - 1 \in U => k \in U
  <2> SUFFICES ASSUME NEW k \in 1..n, k - 1 \in U
               PROVE  k \in U
    OBVIOUS
  <2>1. CASE k = 1
    <3>1. flat[k] = ss[k]
      BY <1>5, <2>1
    <3>2. ss[k] \in Seq(T) /\ k \in 0..n
      BY <1>1
    <3> QED
      BY <3>1, <3>2
  <2>2. CASE k # 1
    <3>1. flat[k - 1] \in Seq(T) /\ ss[k] \in Seq(T)
      BY <1>1, <2>2
    <3>2. flat[k] = flat[k - 1] \o ss[k]
      BY <1>5, <2>2
    <3>3. flat[k] \in Seq(T) /\ k \in 0..n
      BY <1>1, <3>1, <3>2
    <3> QED
      BY <3>3
  <2> QED
    BY <2>1, <2>2
<1>7. 0 \in U
  BY <1>1
<1>8. \A k \in 0..n : k \in U
  <2> HIDE DEF U
  <2> QED
    BY <1>1, <1>6, <1>7, Induct
<1>9. \A k \in 1..n : flat[k] \in Seq(T)
  BY <1>1, <1>8
<1>10. flat \in [1..n -> Seq(T)]
  BY <1>5, <1>9
<1> QED
  BY <1>2, <1>5, <1>10 DEF n

LEMMA FlattenFact ==
    ASSUME NEW T, NEW ss \in Seq(Seq(T))
    PROVE  FlattenSeq(ss) \in Seq(T)
<1>1. CASE ss = <<>>
  BY <1>1 DEF FlattenSeq
<1>2. CASE ss # <<>>
  <2>1. Len(ss) \in 1..Len(ss)
    BY <1>2
  <2> QED
    BY <1>2, <2>1, FlattenSteps
<1> QED
  BY <1>1, <1>2

LEMMA FlattenMember ==
    ASSUME NEW T, NEW ss \in Seq(Seq(T))
    PROVE  \A n \in DOMAIN FlattenSeq(ss) :
              \E k \in DOMAIN ss : \E j \in DOMAIN ss[k] : FlattenSeq(ss)[n] = ss[k][j]
<1> DEFINE M == {x \in T : \E k \in DOMAIN ss : \E j \in DOMAIN ss[k] : x = ss[k][j]}
<1>1. ASSUME NEW k \in DOMAIN ss
      PROVE  ss[k] \in Seq(M)
  <2>1. ss[k] \in Seq(T)
    OBVIOUS
  <2>2. \A j \in DOMAIN ss[k] : ss[k][j] \in M
    BY <2>1
  <2> HIDE DEF M
  <2> QED
    BY <2>1, <2>2
<1> HIDE DEF M
<1>2. ss \in Seq(Seq(M))
  BY <1>1
<1>3. FlattenSeq(ss) \in Seq(M)
  BY <1>2, FlattenFact
<1>4. \A n \in DOMAIN FlattenSeq(ss) : FlattenSeq(ss)[n] \in M
  BY <1>3
<1> QED
  BY <1>4 DEF M

LEMMA FlattenHas ==
    ASSUME NEW T, NEW ss \in Seq(Seq(T)), NEW k \in DOMAIN ss, NEW j \in DOMAIN ss[k]
    PROVE  \E m \in DOMAIN FlattenSeq(ss) : FlattenSeq(ss)[m] = ss[k][j]
<1> DEFINE n == Len(ss)
           x == ss[k][j]
<1>1. ss # <<>> /\ n \in Nat /\ k \in 1..n /\ \A i \in 1..n : ss[i] \in Seq(T)
  OBVIOUS
<1>2. PICK flat \in [1..n -> Seq(T)] :
          /\ FlattenSeq(ss) = flat[n]
          /\ \A i \in 1..n : flat[i] = IF i = 1 THEN ss[i] ELSE flat[i - 1] \o ss[i]
  BY <1>1, FlattenSteps
<1> HIDE DEF n, x
<1> DEFINE U == {i \in 0..n : i >= k => \E m \in DOMAIN flat[i] : flat[i][m] = x}
<1>3. \A i \in 1..n : i - 1 \in U => i \in U
  <2> SUFFICES ASSUME NEW i \in 1..n, i - 1 \in U, i >= k
               PROVE  i \in 0..n /\ \E m \in DOMAIN flat[i] : flat[i][m] = x
    OBVIOUS
  <2>1. CASE i = 1
    <3>1. i = k /\ i \in 0..n
      BY <1>1, <2>1
    <3>2. flat[i] = ss[i]
      BY <1>2, <2>1
    <3> QED
      BY <3>1, <3>2 DEF x
  <2>2. CASE i # 1
    <3> DEFINE a == flat[i - 1]
               b == ss[i]
    <3>1. i - 1 \in 1..n /\ i \in 0..n
      BY <1>1, <2>2
    <3>2. a \in Seq(T) /\ b \in Seq(T) /\ flat[i] = a \o b
      BY <1>1, <1>2, <2>2, <3>1
    <3>3. i = k \/ i - 1 >= k
      BY <1>1
    <3>4. i = k => \E m \in DOMAIN b : b[m] = x
      BY DEF x
    <3>5. i # k => \E m \in DOMAIN a : a[m] = x
      BY <3>1, <3>3
    <3> HIDE DEF a, b
    <3>6. /\ \A m \in DOMAIN a : m \in DOMAIN (a \o b) /\ (a \o b)[m] = a[m]
          /\ \A m \in DOMAIN b : Len(a) + m \in DOMAIN (a \o b) /\ (a \o b)[Len(a) + m] = b[m]
      BY <3>2, ConcatFact
    <3>7. \E m \in DOMAIN (a \o b) : (a \o b)[m] = x
      <4>1. CASE i = k
        BY <3>4, <3>6, <4>1
      <4>2. CASE i # k
        BY <3>5, <3>6, <4>2
      <4> QED
        BY <4>1, <4>2
    <3> QED
      BY <3>1, <3>2, <3>7
  <2> QED
    BY <2>1, <2>2
<1>4. 0 \in U
  BY <1>1
<1>5. n \in U
  <2> HIDE DEF U
  <2>1. \A i \in 0..n : i \in U
    BY <1>1, <1>3, <1>4, Induct
  <2> QED
    BY <1>1, <2>1
<1>6. n >= k
  BY <1>1
<1> QED
  BY <1>2, <1>5, <1>6 DEF x

(* An element goes, and those after it move up.                            *)
MovedUp(m, k) == IF m < k THEN m ELSE m - 1

LEMMA RemovedFact ==
    ASSUME NEW T, NEW q \in Seq(T), NEW k \in DOMAIN q
    PROVE  /\ RemoveAt(q, k) \in Seq(T)
           /\ \A m \in DOMAIN q \ {k} : MovedUp(m, k) \in DOMAIN RemoveAt(q, k) /\ RemoveAt(q, k)[MovedUp(m, k)] = q[m]
           /\ \A n \in DOMAIN RemoveAt(q, k) : \E m \in DOMAIN q \ {k} : n = MovedUp(m, k)
<1> DEFINE N == Len(q)
           a == SubSeq(q, 1, k - 1)
           b == SubSeq(q, k + 1, N)
<1>1. N \in Nat /\ DOMAIN q = 1..N /\ k \in 1..N
  OBVIOUS
<1>2. RemoveAt(q, k) = a \o b
  BY DEF RemoveAt
<1>3. a \in Seq(T) /\ Len(a) = k - 1 /\ \A m \in 1..(k - 1) : a[m] = q[m]
  BY <1>1
<1>4. b \in Seq(T) /\ Len(b) = N - k /\ \A m \in 1..(N - k) : b[m] = q[k + m]
  BY <1>1
<1> HIDE DEF N, a, b
<1>5. /\ (a \o b) \in Seq(T) /\ Len(a) + Len(b) = N - 1 /\ DOMAIN (a \o b) = 1..(N - 1)
      /\ \A m \in 1..(k - 1) : (a \o b)[m] = a[m]
      /\ \A m \in 1..(N - k) : (a \o b)[(k - 1) + m] = b[m]
  <2> DEFINE c == a \o b
  <2>1. c = a \o b
    OBVIOUS
  <2> HIDE DEF c
  <2>2. /\ c \in Seq(T) /\ Len(a) \in Nat /\ Len(b) \in Nat
        /\ DOMAIN a = 1..Len(a) /\ DOMAIN b = 1..Len(b) /\ DOMAIN c = 1..(Len(a) + Len(b))
        /\ \A m \in DOMAIN a : m \in DOMAIN c /\ c[m] = a[m]
        /\ \A m \in DOMAIN b : Len(a) + m \in DOMAIN c /\ c[Len(a) + m] = b[m]
    BY <1>3, <1>4, <2>1, ConcatFact
  <2>3. Len(a) + Len(b) = N - 1
    BY <1>1, <1>3, <1>4
  <2> QED
    BY <1>3, <1>4, <2>2, <2>3 DEF c
<1>6. ASSUME NEW m \in DOMAIN q \ {k}
      PROVE  MovedUp(m, k) \in DOMAIN (a \o b) /\ (a \o b)[MovedUp(m, k)] = q[m]
  <2>1. CASE m < k
    <3>1. m \in 1..(k - 1) /\ m \in 1..(N - 1) /\ MovedUp(m, k) = m
      BY <1>1, <2>1 DEF MovedUp
    <3>2. (a \o b)[m] = a[m]
      BY <1>5, <3>1
    <3> QED
      BY <1>3, <1>5, <3>1, <3>2
  <2>2. CASE ~(m < k)
    <3> DEFINE x == m - k
    <3>1. x \in 1..(N - k) /\ m - 1 = (k - 1) + x /\ k + x = m /\ m - 1 \in 1..(N - 1) /\ MovedUp(m, k) = m - 1
      BY <1>1, <2>2 DEF MovedUp
    <3> HIDE DEF x
    <3>2. (a \o b)[(k - 1) + x] = b[x]
      BY <1>5, <3>1
    <3> QED
      BY <1>4, <1>5, <3>1, <3>2
  <2> QED
    BY <2>1, <2>2
<1>7. ASSUME NEW n \in 1..(N - 1)
      PROVE  \E m \in DOMAIN q \ {k} : n = MovedUp(m, k)
  <2>1. CASE n < k
    <3>1. n \in DOMAIN q \ {k} /\ n = MovedUp(n, k)
      BY <1>1, <2>1 DEF MovedUp
    <3> QED
      BY <3>1
  <2>2. CASE ~(n < k)
    <3>1. n + 1 \in DOMAIN q \ {k} /\ n = MovedUp(n + 1, k)
      BY <1>1, <2>2 DEF MovedUp
    <3> QED
      BY <3>1
  <2> QED
    BY <2>1, <2>2
<1> QED
  BY <1>2, <1>5, <1>6, <1>7

-----------------------------------------------------------------------------
(* What an issue is like before the n-th processor, 0 being the linters.   *)

GoPlace(i) == i.path # None /\ IsGoFile(i.path)

Adjusted(i, src) ==
    \E f \in DOMAIN src : src[f].parses /\ src[f].adjusted = FileOf(i.path) /\ f[3] = ".go"

Located(i, n, src) ==
    GoPlace(i) =>
       \/ FileOf(i.path) \in DOMAIN src
       \/ n <= 2 /\ Adjusted(i, src)
       \/ n <= 1 /\ (i.path.dir = GoCache \/ i.path.base = "_cgo_gotypes")

PathPasses(i, n, c) ==
    /\ n > 3 => IsGoFile(i.path) \/ IsGoMod(i.path)
    /\ n > 5 => WithPathPrefix(c, i.path) \notin c.excludeFiles
    /\ n > 6 => (<<c.prefix, i.path.dir>> \in c.excludeDirs => i.path.dir \in c.args)

Handwritten(i, n, c, src, sk) ==
    n > 7 /\ "autogenerated_exclude" \notin sk /\ c.generated # "disable" /\ IsGoFile(i.path)
       => ~Generated(c, src[FileOf(i.path)])

ByPath(r) == r.path # None /\ r.source = None

TextPasses(i, n, c, src) ==
    /\ n > 9 => i.text \notin c.exclude
    /\ n > 10 => \A k \in DOMAIN c.excludeRules :
                    ByPath(c.excludeRules[k]) => ~RuleMatches(c.excludeRules[k], i, c, src)

Plain(i, n) ==
    /\ TypeCheck(i) => i.path # None /\ i.replacement = None
    /\ i.expect # None => i.linter = "nolintlint"
    /\ n <= 17 => i.source = <<>>
    /\ n > 3 => i.path # None
    /\ n > 4 => ~i.path.abs

Passes(i, n, c, src, sk) ==
    Located(i, n, src) /\ PathPasses(i, n, c) /\ Handwritten(i, n, c, src, sk) /\ TextPasses(i, n, c, src)

Good(i, n, c, src, sk) == Plain(i, n) /\ (TypeCheck(i) \/ Passes(i, n, c, src, sk))

AllGood(s, n, c, src, sk) == s \in Seq(IssueSet) /\ \A k \in DOMAIN s : Good(s[k], n, c, src, sk)

(* Lists that tell why the code does not compile, and perhaps more.        *)
Erring(s) == \E k \in DOMAIN s : TypeCheck(s[k])
OnlyErrors(s) == s # <<>> /\ \A k \in DOMAIN s : TypeCheck(s[k])

Keeps(new, old) == (Erring(old) => Erring(new)) /\ (OnlyErrors(old) => OnlyErrors(new))

LEMMA KeptErrors ==
    ASSUME NEW s \in Seq(IssueSet), NEW K \in SUBSET (DOMAIN s),
           \A k \in DOMAIN s : TypeCheck(s[k]) => k \in K
    PROVE  Keeps(Kept(s, K), s)
<1> DEFINE r == Kept(s, K)
<1>1. /\ r \in Seq(IssueSet)
      /\ \A n \in DOMAIN r : \E k \in K : r[n] = s[k]
      /\ \A k \in K : \E n \in DOMAIN r : r[n] = s[k]
  BY KeptFact
<1> HIDE DEF r
<1>2. Erring(s) => Erring(r)
  BY <1>1 DEF Erring
<1>3. ASSUME OnlyErrors(s)
      PROVE  OnlyErrors(r)
  <2>1. 1 \in DOMAIN s
    BY <1>3 DEF OnlyErrors
  <2>2. PICK n \in DOMAIN r : r[n] = s[1]
    BY <1>1, <1>3, <2>1 DEF OnlyErrors
  <2>3. r # <<>>
    BY <2>2
  <2> QED
    BY <1>1, <1>3, <2>3 DEF OnlyErrors
<1> QED
  BY <1>2, <1>3 DEF Keeps, r

LEMMA MapErrors ==
    ASSUME NEW s \in Seq(IssueSet), NEW t, t = [k \in DOMAIN s |-> t[k]],
           \A k \in DOMAIN s : t[k] \in IssueSet /\ (TypeCheck(t[k]) <=> TypeCheck(s[k]))
    PROVE  t \in Seq(IssueSet) /\ DOMAIN t = DOMAIN s /\ Keeps(t, s)
<1>1. t \in Seq(IssueSet) /\ DOMAIN t = DOMAIN s
  OBVIOUS
<1>2. s # <<>> => t # <<>>
  BY <1>1
<1>3. Keeps(t, s)
  BY <1>1, <1>2 DEF Keeps, Erring, OnlyErrors
<1> QED
  BY <1>1, <1>3

(* What every processor gives to the next.                                 *)
Serves(new, old, n, c, src, sk) == AllGood(new, n + 1, c, src, sk) /\ Keeps(new, old)

LEMMA FilterServes ==
    ASSUME NEW n \in Nat, NEW c, NEW src, NEW sk, NEW s, AllGood(s, n, c, src, sk),
           NEW K \in SUBSET (DOMAIN s),
           \A k \in DOMAIN s : TypeCheck(s[k]) => k \in K,
           \A k \in K : Good(s[k], n + 1, c, src, sk)
    PROVE  Serves(Kept(s, K), s, n, c, src, sk)
<1>1. s \in Seq(IssueSet)
  BY DEF AllGood
<1>2. Kept(s, K) \in Seq(IssueSet) /\ \A j \in DOMAIN Kept(s, K) : \E k \in K : Kept(s, K)[j] = s[k]
  BY <1>1, KeptFact
<1>3. Keeps(Kept(s, K), s)
  BY <1>1, KeptErrors
<1> QED
  BY <1>2, <1>3 DEF Serves, AllGood

LEMMA CgoServes ==
    ASSUME NEW c, NEW src, NEW sk, NEW s, AllGood(s, 1, c, src, sk)
    PROVE  Serves(Cgo(s), s, 1, c, src, sk)
<1> DEFINE K == {k \in DOMAIN s : TypeCheck(s[k]) \/ (s[k].path = None \/ (s[k].path.dir # GoCache /\ s[k].path.base # "_cgo_gotypes"))}
<1>1. Cgo(s) = Kept(s, K)
  BY DEF Cgo, Filter, Select
<1>2. \A k \in K : Good(s[k], 1 + 1, c, src, sk)
  BY DEF AllGood, Good, Plain, Passes, Located, GoPlace, PathPasses, Handwritten, TextPasses
<1>3. \A k \in DOMAIN s : TypeCheck(s[k]) => k \in K
  OBVIOUS
<1> HIDE DEF K
<1>4. K \in SUBSET (DOMAIN s)
  BY DEF K
<1> QED
  BY <1>1, <1>2, <1>3, <1>4, FilterServes

LEMMA SkipFilesServes ==
    ASSUME NEW c, NEW src, NEW sk, NEW s, AllGood(s, 5, c, src, sk)
    PROVE  Serves(SkipFiles(s, c), s, 5, c, src, sk)
<1> DEFINE K == {k \in DOMAIN s : TypeCheck(s[k]) \/ WithPathPrefix(c, s[k].path) \notin c.excludeFiles}
<1>1. SkipFiles(s, c) = Kept(s, K)
  BY DEF SkipFiles, Filter, Select
<1>2. \A k \in K : Good(s[k], 5 + 1, c, src, sk)
  BY DEF AllGood, Good, Plain, Passes, Located, GoPlace, PathPasses, Handwritten, TextPasses
<1>3. K \in SUBSET (DOMAIN s) /\ \A k \in DOMAIN s : TypeCheck(s[k]) => k \in K
  OBVIOUS
<1> HIDE DEF K
<1> QED
  BY <1>1, <1>2, <1>3, FilterServes

LEMMA SkipDirsServes ==
    ASSUME NEW c, NEW src, NEW sk, NEW s, AllGood(s, 6, c, src, sk)
    PROVE  Serves(SkipDirs(s, c), s, 6, c, src, sk)
<1> DEFINE K == {k \in DOMAIN s : TypeCheck(s[k]) \/ s[k].path.abs
                    \/ ~(/\ s[k].path.dir \notin c.args
                         /\ <<c.prefix, s[k].path.dir>> \in c.excludeDirs
                            \/ (c.defaultDirs /\ s[k].path.dir \in DefaultDirs))}
<1>1. SkipDirs(s, c) = Kept(s, K)
  BY DEF SkipDirs, Filter, Select
<1>2. \A k \in K : Good(s[k], 6 + 1, c, src, sk)
  BY DEF AllGood, Good, Plain, Passes, Located, GoPlace, PathPasses, Handwritten, TextPasses
<1>3. K \in SUBSET (DOMAIN s) /\ \A k \in DOMAIN s : TypeCheck(s[k]) => k \in K
  OBVIOUS
<1> HIDE DEF K
<1> QED
  BY <1>1, <1>2, <1>3, FilterServes

LEMMA NothingDisabled ==
    ASSUME NEW n \in Nat, NEW c, NEW src, NEW sk, NEW s, AllGood(s, n, c, src, sk),
           \A k \in DOMAIN s : Good(s[k], n + 1, c, src, sk)
    PROVE  Serves(s, s, n, c, src, sk)
BY DEF Serves, AllGood, Keeps

LEMMA AutogeneratedServes ==
    ASSUME NEW c, NEW src, NEW sk, NEW s, AllGood(s, 7, c, src, sk)
    PROVE  Serves(AutogeneratedExclude(s, c, src), s, 7, c, src, sk)
<1>1. CASE c.generated = "disable"
  <2>1. \A k \in DOMAIN s : Good(s[k], 7 + 1, c, src, sk)
    BY <1>1 DEF AllGood, Good, Plain, Passes, Located, GoPlace, PathPasses, Handwritten, TextPasses
  <2> QED
    BY <1>1, <2>1, NothingDisabled DEF AutogeneratedExclude
<1>2. CASE c.generated # "disable"
  <2> DEFINE K == {k \in DOMAIN s : TypeCheck(s[k])
                      \/ (IsGoMod(s[k].path) \/ ~Generated(c, FileAt(src, s[k].path)))}
  <2>1. AutogeneratedExclude(s, c, src) = Kept(s, K)
    BY <1>2 DEF AutogeneratedExclude, Filter, Select
  <2>2. ASSUME NEW k \in K
        PROVE  Good(s[k], 7 + 1, c, src, sk)
    <3>1. Good(s[k], 7, c, src, sk)
      BY DEF AllGood
    <3>2. CASE TypeCheck(s[k])
      BY <3>1, <3>2 DEF Good, Plain
    <3>3. CASE ~TypeCheck(s[k])
      <4>1. Plain(s[k], 7) /\ Located(s[k], 7, src)
        BY <3>1, <3>3 DEF Good, Passes
      <4>2. s[k].path # None
        BY <4>1 DEF Plain
      <4>3. IsGoFile(s[k].path) => FileOf(s[k].path) \in DOMAIN src /\ ~IsGoMod(s[k].path)
        BY <4>1, <4>2 DEF Located, GoPlace, IsGoFile, IsGoMod
      <4>4. IsGoFile(s[k].path) => ~Generated(c, src[FileOf(s[k].path)])
        BY <3>3, <4>3 DEF FileAt
      <4> QED
        BY <3>1, <3>3, <4>4 DEF Good, Plain, Passes, Located, PathPasses, Handwritten, TextPasses
    <3> QED
      BY <3>2, <3>3
  <2>3. K \in SUBSET (DOMAIN s) /\ \A k \in DOMAIN s : TypeCheck(s[k]) => k \in K
    OBVIOUS
  <2> HIDE DEF K
  <2> QED
    BY <2>1, <2>2, <2>3, FilterServes
<1> QED
  BY <1>1, <1>2

LEMMA ExcludeServes ==
    ASSUME NEW c, NEW src, NEW sk, NEW s, AllGood(s, 9, c, src, sk)
    PROVE  Serves(Exclude(s, c), s, 9, c, src, sk)
<1> DEFINE K == {k \in DOMAIN s : TypeCheck(s[k]) \/ s[k].text \notin c.exclude}
<1>1. Exclude(s, c) = Kept(s, K)
  BY DEF Exclude, Filter, Select
<1>2. \A k \in K : Good(s[k], 9 + 1, c, src, sk)
  BY DEF AllGood, Good, Plain, Passes, Located, GoPlace, PathPasses, Handwritten, TextPasses
<1>3. K \in SUBSET (DOMAIN s) /\ \A k \in DOMAIN s : TypeCheck(s[k]) => k \in K
  OBVIOUS
<1> HIDE DEF K
<1> QED
  BY <1>1, <1>2, <1>3, FilterServes

LEMMA ExcludeRulesServes ==
    ASSUME NEW c, NEW src, NEW sk, NEW s, AllGood(s, 10, c, src, sk)
    PROVE  Serves(ExcludeRules(s, c, src), s, 10, c, src, sk)
<1> DEFINE K == {k \in DOMAIN s : TypeCheck(s[k])
                    \/ \A r \in DOMAIN c.excludeRules : ~RuleMatches(c.excludeRules[r], s[k], c, src)}
<1>1. ExcludeRules(s, c, src) = Kept(s, K)
  BY DEF ExcludeRules, Filter, Select
<1>2. \A k \in K : Good(s[k], 10 + 1, c, src, sk)
  BY DEF AllGood, Good, Plain, Passes, Located, GoPlace, PathPasses, Handwritten, TextPasses
<1>3. K \in SUBSET (DOMAIN s) /\ \A k \in DOMAIN s : TypeCheck(s[k]) => k \in K
  OBVIOUS
<1> HIDE DEF K
<1> QED
  BY <1>1, <1>2, <1>3, FilterServes

LEMMA DiffServes ==
    ASSUME NEW c, NEW src, NEW sk, NEW s, AllGood(s, 13, c, src, sk)
    PROVE  Serves(Diff(s, c), s, 13, c, src, sk)
<1>1. \A k \in DOMAIN s : Good(s[k], 13 + 1, c, src, sk)
  BY DEF AllGood, Good, Plain, Passes, Located, GoPlace, PathPasses, Handwritten, TextPasses
<1>2. CASE c.changed = None
  BY <1>1, <1>2, NothingDisabled DEF Diff
<1>3. CASE c.changed # None
  <2> DEFINE K == {k \in DOMAIN s : TypeCheck(s[k]) \/ <<FileOf(s[k].path), s[k].line>> \in c.changed}
  <2>1. Diff(s, c) = Kept(s, K)
    BY <1>3 DEF Diff, Filter, Select
  <2>2. K \in SUBSET (DOMAIN s) /\ \A k \in DOMAIN s : TypeCheck(s[k]) => k \in K
    OBVIOUS
  <2>3. \A k \in K : Good(s[k], 13 + 1, c, src, sk)
    BY <1>1
  <2> HIDE DEF K
  <2> QED
    BY <2>1, <2>2, <2>3, FilterServes
<1> QED
  BY <1>2, <1>3

(* The one that may drop the other issues, and leaves only errors if there *)
(* is one.                                                                 *)
LEMMA InvalidIssueServes ==
    ASSUME NEW c, NEW src, NEW sk, NEW s, AllGood(s, 3, c, src, sk)
    PROVE  /\ AllGood(InvalidIssue(s), 4, c, src, sk)
           /\ Erring(s) => OnlyErrors(InvalidIssue(s))
<1> DEFINE E == {k \in DOMAIN s : TypeCheck(s[k])}
           K == {k \in DOMAIN s : TypeCheck(s[k])
                    \/ (s[k].path # None /\ (IsGoMod(s[k].path) \/ IsGoFile(s[k].path)))}
<1>1. s \in Seq(IssueSet) /\ \A k \in DOMAIN s : Good(s[k], 3, c, src, sk)
  BY DEF AllGood
<1>2. InvalidIssue(s) = IF Kept(s, E) # <<>> THEN Kept(s, E) ELSE Kept(s, K)
  BY DEF InvalidIssue, Filter, Select
<1>3. \A k \in E \cup K : Good(s[k], 4, c, src, sk)
  BY <1>1 DEF Good, Plain, Passes, Located, GoPlace, PathPasses, Handwritten, TextPasses
<1>4. \A k \in E : TypeCheck(s[k])
  OBVIOUS
<1>5. E \in SUBSET (DOMAIN s) /\ K \in SUBSET (DOMAIN s) /\ (Erring(s) => E # {})
  BY DEF Erring
<1> HIDE DEF E, K
<1>6. /\ Kept(s, E) \in Seq(IssueSet)
      /\ \A n \in DOMAIN Kept(s, E) : \E k \in E : Kept(s, E)[n] = s[k]
      /\ \A k \in E : \E n \in DOMAIN Kept(s, E) : Kept(s, E)[n] = s[k]
  BY <1>1, <1>5, KeptFact
<1>7. /\ Kept(s, K) \in Seq(IssueSet)
      /\ \A n \in DOMAIN Kept(s, K) : \E k \in K : Kept(s, K)[n] = s[k]
  BY <1>1, <1>5, KeptFact
<1>8. AllGood(InvalidIssue(s), 4, c, src, sk)
  BY <1>2, <1>3, <1>6, <1>7 DEF AllGood
<1>9. ASSUME Erring(s)
      PROVE  OnlyErrors(InvalidIssue(s))
  <2>1. PICK k \in E : TRUE
    BY <1>5, <1>9
  <2>2. PICK n \in DOMAIN Kept(s, E) : TRUE
    BY <1>6, <2>1
  <2>3. Kept(s, E) # <<>>
    BY <1>6, <2>2
  <2> QED
    BY <1>2, <1>4, <1>6, <2>3 DEF OnlyErrors
<1> QED
  BY <1>8, <1>9

-----------------------------------------------------------------------------
(* Processors that change issues.                                          *)

LEMMA MapServes ==
    ASSUME NEW n \in Nat, NEW c, NEW src, NEW sk, NEW s, AllGood(s, n, c, src, sk),
           NEW t, t = [k \in DOMAIN s |-> t[k]],
           \A k \in DOMAIN s : /\ t[k] \in IssueSet /\ (TypeCheck(t[k]) <=> TypeCheck(s[k]))
                               /\ Good(t[k], n + 1, c, src, sk)
    PROVE  Serves(t, s, n, c, src, sk)
<1>1. t \in Seq(IssueSet) /\ DOMAIN t = DOMAIN s /\ Keeps(t, s)
  <2>1. s \in Seq(IssueSet)
    BY DEF AllGood
  <2> QED
    BY <2>1, MapErrors
<1> QED
  BY <1>1 DEF Serves, AllGood


(* What a processor that changes an issue leaves alone.                    *)
Alike(j, i) ==
    /\ j.linter = i.linter /\ j.expect = i.expect
    /\ j.replacement = None <=> i.replacement = None
    /\ j.path # None /\ j.path.dir = i.path.dir /\ j.path.base = i.path.base /\ j.path.ext = i.path.ext

LEMMA AlikeGood ==
    ASSUME NEW n \in Nat, n \in {4, 8} \/ n > 10,
           NEW c, NEW src, NEW sk, NEW i, NEW j, Good(i, n, c, src, sk),
           Alike(j, i), ~j.path.abs, n + 1 > 9 => j.text = i.text, n + 1 <= 17 => j.source = <<>>
    PROVE  (TypeCheck(j) <=> TypeCheck(i)) /\ Good(j, n + 1, c, src, sk)
<1>1. (TypeCheck(j) <=> TypeCheck(i)) /\ Plain(j, n + 1)
  BY DEF Good, Plain, Alike, TypeCheck
<1>2. /\ i.path # None /\ FileOf(j.path) = FileOf(i.path)
      /\ (IsGoFile(j.path) <=> IsGoFile(i.path)) /\ (IsGoMod(j.path) <=> IsGoMod(i.path))
      /\ WithPathPrefix(c, j.path) = WithPathPrefix(c, i.path)
  BY DEF Good, Plain, Alike, FileOf, IsGoFile, IsGoMod, WithPathPrefix
<1>3. ASSUME ~TypeCheck(i)
      PROVE  Passes(j, n + 1, c, src, sk)
  <2>1. Passes(i, n, c, src, sk)
    BY <1>3 DEF Good
  <2>2. Located(j, n + 1, src)
    BY <1>2, <2>1 DEF Passes, Located, GoPlace, Adjusted, Alike
  <2>3. PathPasses(j, n + 1, c)
    BY <1>2, <2>1 DEF Passes, PathPasses, Alike
  <2>4. Handwritten(j, n + 1, c, src, sk)
    BY <1>2, <2>1 DEF Passes, Handwritten
  <2>5. TextPasses(j, n + 1, c, src)
    <3>1. CASE n \in {4, 8}
      BY <3>1 DEF TextPasses
    <3>2. CASE n > 10
      <4>1. j.text = i.text /\ TextPasses(i, n, c, src)
        BY <2>1, <3>2 DEF Passes
      <4>2. ASSUME NEW r, ByPath(r), RuleMatches(r, j, c, src)
            PROVE  RuleMatches(r, i, c, src)
        BY <1>2, <4>1, <4>2 DEF ByPath, RuleMatches, Alike
      <4> QED
        BY <3>2, <4>1, <4>2 DEF TextPasses
    <3> QED
      BY <3>1, <3>2
  <2> QED
    BY <2>2, <2>3, <2>4, <2>5 DEF Passes
<1> QED
  BY <1>1, <1>3 DEF Good

LEMMA PrettifierServes ==
    ASSUME NEW c, NEW src, NEW sk, NEW s, AllGood(s, 4, c, src, sk)
    PROVE  Serves(PathPrettifier(s), s, 4, c, src, sk)
<1> DEFINE t == PathPrettifier(s)
           Pretty(i) == IF i.path = None THEN i ELSE [i EXCEPT !.path.abs = FALSE]
<1>1. t = [k \in DOMAIN s |-> Pretty(s[k])]
  BY DEF PathPrettifier, Map
<1>2. ASSUME NEW i \in IssueSet, Good(i, 4, c, src, sk)
      PROVE  /\ Pretty(i) \in IssueSet /\ (TypeCheck(Pretty(i)) <=> TypeCheck(i))
             /\ Good(Pretty(i), 4 + 1, c, src, sk)
  <2>1. i.path # None /\ i.path \in Paths /\ i.source = <<>>
    BY <1>2 DEF Good, Plain, IssueSet
  <2>2. Pretty(i) = [i EXCEPT !.path = [i.path EXCEPT !.abs = FALSE]]
    BY <2>1
  <2> HIDE DEF Pretty
  <2>3. Pretty(i) \in IssueSet
    BY ZenonT(60), <2>1, <2>2 DEF IssueSet, Paths
  <2>4. /\ Pretty(i).linter = i.linter /\ Pretty(i).expect = i.expect
        /\ Pretty(i).replacement = i.replacement /\ Pretty(i).source = <<>>
        /\ Pretty(i).path = [i.path EXCEPT !.abs = FALSE]
    BY <2>1, <2>2 DEF IssueSet
  <2>5. ~Pretty(i).path.abs /\ Alike(Pretty(i), i)
    <3>1. Pretty(i).path \in Paths
      BY <2>1, <2>4 DEF Paths
    <3> QED
      BY <2>1, <2>4, <3>1, NoneAssumption DEF Paths, Alike
  <2> DEFINE n == 4
  <2>6. n \in Nat /\ n \in {4, 8} /\ ~(n + 1 > 9) /\ n + 1 = 4 + 1
    OBVIOUS
  <2>7. Good(i, n, c, src, sk)
    BY <1>2
  <2> HIDE DEF n
  <2>8. (TypeCheck(Pretty(i)) <=> TypeCheck(i)) /\ Good(Pretty(i), n + 1, c, src, sk)
    BY <2>4, <2>5, <2>6, <2>7, AlikeGood
  <2> QED
    BY <2>3, <2>6, <2>8
<1> HIDE DEF Pretty, t
<1>3. \A k \in DOMAIN s : t[k] = Pretty(s[k]) /\ s[k] \in IssueSet /\ Good(s[k], 4, c, src, sk)
  BY <1>1 DEF AllGood
<1>4. t = [k \in DOMAIN s |-> t[k]]
  BY <1>1
<1> QED
  BY <1>2, <1>3, <1>4, MapServes DEF t

LEMMA MarkerServes ==
    ASSUME NEW c, NEW src, NEW sk, NEW s, AllGood(s, 8, c, src, sk)
    PROVE  Serves(IdentifierMarker(s), s, 8, c, src, sk)
<1> DEFINE t == IdentifierMarker(s)
           Marked(i) == [i EXCEPT !.text = IF @ \in DOMAIN Mark THEN Mark[@] ELSE @]
<1>1. t = [k \in DOMAIN s |-> Marked(s[k])]
  BY DEF IdentifierMarker, Map
<1>2. ASSUME NEW i \in IssueSet, Good(i, 8, c, src, sk)
      PROVE  /\ Marked(i) \in IssueSet /\ (TypeCheck(Marked(i)) <=> TypeCheck(i))
             /\ Good(Marked(i), 8 + 1, c, src, sk)
  <2>1. i.path # None /\ ~i.path.abs /\ i.source = <<>>
    BY <1>2 DEF Good, Plain
  <2>2. Marked(i) \in IssueSet
    BY OrderAssumption DEF IssueSet
  <2>3. /\ Marked(i).linter = i.linter /\ Marked(i).expect = i.expect /\ Marked(i).source = i.source
        /\ Marked(i).replacement = i.replacement /\ Marked(i).path = i.path
    BY DEF IssueSet
  <2> HIDE DEF Marked
  <2>4. Alike(Marked(i), i)
    BY <2>1, <2>3 DEF Alike
  <2> QED
    BY <1>2, <2>1, <2>2, <2>3, <2>4, AlikeGood
<1> HIDE DEF Marked, t
<1>3. \A k \in DOMAIN s : t[k] = Marked(s[k]) /\ s[k] \in IssueSet /\ Good(s[k], 8, c, src, sk)
  BY <1>1 DEF AllGood
<1>4. t = [k \in DOMAIN s |-> t[k]]
  BY <1>1
<1> QED
  BY <1>2, <1>3, <1>4, MapServes DEF t

LEMMA LineOfFile ==
    ASSUME NEW file \in Files, NEW n \in Int, HasLine(file, n)
    PROVE  GetLine(file, n) \in Chars
<1>1. Len(file.lines) \in Nat /\ DOMAIN file.lines = 1..Len(file.lines) /\ file.lines \in Seq(Chars)
  BY DEF Files
<1>2. Max({n, 1}) \in {n, 1} /\ Max({n, 1}) >= 1
  <2>1. \E x \in {n, 1} : \A y \in {n, 1} : x >= y
    <3>1. CASE n >= 1
      BY <3>1
    <3>2. CASE ~(n >= 1)
      BY <3>2
    <3> QED
      BY <3>1, <3>2
  <2> QED
    BY <2>1 DEF Max
<1> QED
  BY <1>1, <1>2 DEF HasLine, GetLine

LEMMA SourceCodeServes ==
    ASSUME NEW c, NEW src, NEW sk, NEW s, AllGood(s, 17, c, src, sk), src \in [DOMAIN src -> Files]
    PROVE  Serves(SourceCode(s, src), s, 17, c, src, sk)
<1> DEFINE t == SourceCode(s, src)
           Code(i) == [n \in 1..Cardinality(LineRange(i).from..LineRange(i).to) |->
                          GetLine(FileAt(src, i.path), LineRange(i).from + n - 1)]
           All(i) == \A n \in LineRange(i).from..LineRange(i).to : HasLine(FileAt(src, i.path), n)
           Shown(i) == IF All(i) THEN [i EXCEPT !.source = Code(i)] ELSE i
<1>1. t = [k \in DOMAIN s |-> Shown(s[k])]
  BY DEF SourceCode, Map
<1>2. ASSUME NEW i \in IssueSet, Good(i, 17, c, src, sk)
      PROVE  /\ Shown(i) \in IssueSet /\ (TypeCheck(Shown(i)) <=> TypeCheck(i))
             /\ Good(Shown(i), 17 + 1, c, src, sk)
  <2>1. i.path # None /\ ~i.path.abs
    BY <1>2 DEF Good, Plain
  <2>2. All(i) => Code(i) \in Seq(Chars)
    <3> SUFFICES ASSUME All(i)
                 PROVE  Code(i) \in Seq(Chars)
      OBVIOUS
    <3>1. LineRange(i).from \in Int /\ LineRange(i).to \in Int
      BY DEF LineRange, IssueSet, Ranges
    <3> DEFINE from == LineRange(i).from
               to == LineRange(i).to
    <3>2. from \in Int /\ to \in Int
      BY <3>1
    <3> HIDE DEF from, to
    <3>3. Cardinality(from..to) = IF from > to THEN 0 ELSE to - from + 1
      BY <3>2, FS_Interval
    <3>4. FileAt(src, i.path) \in Files
      BY DEF FileAt, Missing, Files
    <3>5. ASSUME NEW n \in 1..Cardinality(from..to)
          PROVE  GetLine(FileAt(src, i.path), from + n - 1) \in Chars
      <4>1. from + n - 1 \in from..to
        BY <3>2, <3>3
      <4>2. HasLine(FileAt(src, i.path), from + n - 1)
        BY <4>1 DEF from, to
      <4> QED
        BY <3>2, <3>4, <4>1, <4>2, LineOfFile
    <3>6. Code(i) = [n \in 1..Cardinality(from..to) |-> GetLine(FileAt(src, i.path), from + n - 1)]
      BY DEF from, to
    <3>7. Cardinality(from..to) \in Nat
      BY <3>2, <3>3
    <3> HIDE DEF Code
    <3> QED
      BY <3>5, <3>6, <3>7
  <2> HIDE DEF Code, All
  <2>3. Shown(i) \in IssueSet
    BY <2>2 DEF IssueSet
  <2>4. /\ Shown(i).linter = i.linter /\ Shown(i).expect = i.expect /\ Shown(i).text = i.text
        /\ Shown(i).replacement = i.replacement /\ Shown(i).path = i.path
    BY DEF IssueSet
  <2> HIDE DEF Shown
  <2>5. Alike(Shown(i), i)
    BY <2>1, <2>4 DEF Alike
  <2> DEFINE n == 17
  <2>6. n \in Nat /\ n > 10 /\ ~(n + 1 <= 17) /\ n + 1 = 17 + 1
    OBVIOUS
  <2>7. Good(i, n, c, src, sk) /\ ~Shown(i).path.abs
    BY <1>2, <2>1, <2>4
  <2> HIDE DEF n
  <2>8. (TypeCheck(Shown(i)) <=> TypeCheck(i)) /\ Good(Shown(i), n + 1, c, src, sk)
    BY <2>4, <2>5, <2>6, <2>7, AlikeGood
  <2> QED
    BY <2>3, <2>6, <2>8
<1> HIDE DEF Shown, t
<1>3. \A k \in DOMAIN s : t[k] = Shown(s[k]) /\ s[k] \in IssueSet /\ Good(s[k], 17, c, src, sk)
  BY <1>1 DEF AllGood
<1>4. t = [k \in DOMAIN s |-> t[k]]
  BY <1>1
<1> QED
  BY <1>2, <1>3, <1>4, MapServes DEF t

LEMMA SeverityServes ==
    ASSUME NEW c \in Configs, NEW src, NEW sk, NEW s, AllGood(s, 18, c, src, sk)
    PROVE  Serves(Severity(s, c, src), s, 18, c, src, sk)
<1> DEFINE t == Severity(s, c, src)
           rules(i) == {k \in DOMAIN c.severityRules : RuleMatches(c.severityRules[k], i, c, src)}
           given(i) == IF rules(i) = {} THEN c.severity
                       ELSE LET v == c.severityRules[Min(rules(i))].severity IN IF v = "" THEN c.severity ELSE v
           Graded(i) == IF given(i) = "@linter" THEN i ELSE [i EXCEPT !.severity = given(i)]
<1> DEFINE n == 18
<1>1. n \in Nat /\ n > 10 /\ ~(n + 1 <= 17) /\ AllGood(s, n, c, src, sk) /\ n = 18
  OBVIOUS
<1> HIDE DEF n
<1>2. ASSUME NEW i \in IssueSet, Good(i, n, c, src, sk)
      PROVE  (TypeCheck(i) <=> TypeCheck(i)) /\ Good(i, n + 1, c, src, sk)
  <2>1. Alike(i, i) /\ ~i.path.abs
    BY <1>1, <1>2 DEF Good, Plain, Alike
  <2> QED
    BY <1>1, <1>2, <2>1, AlikeGood
<1>3. ASSUME NEW i \in IssueSet, Good(i, n, c, src, sk)
      PROVE  /\ Graded(i) \in IssueSet /\ (TypeCheck(Graded(i)) <=> TypeCheck(i))
             /\ Good(Graded(i), n + 1, c, src, sk)
  <2>1. i.path # None /\ ~i.path.abs
    BY <1>1, <1>3 DEF Good, Plain
  <2>2. given(i) \in STRING
    <3>1. c.severity \in STRING /\ c.severityRules \in Seq(Rules)
      BY DEF Configs
    <3>2. rules(i) # {} => Min(rules(i)) \in DOMAIN c.severityRules
      <4>1. rules(i) \in SUBSET Nat /\ rules(i) \subseteq DOMAIN c.severityRules
        BY <3>1
      <4> HIDE DEF rules
      <4> QED
        BY <4>1, MinIn
    <3> DEFINE v == c.severityRules[Min(rules(i))].severity
    <3>3. rules(i) # {} => v \in STRING
      <4> HIDE DEF rules
      <4>1. ASSUME rules(i) # {}
            PROVE  c.severityRules[Min(rules(i))] \in Rules
        BY <3>1, <3>2, <4>1
      <4>2. \A r \in Rules : r.severity \in STRING
        BY DEF Rules
      <4> QED
        BY <4>1, <4>2
    <3>4. given(i) = IF rules(i) = {} THEN c.severity ELSE IF v = "" THEN c.severity ELSE v
      OBVIOUS
    <3> HIDE DEF rules, v, given
    <3> QED
      BY <3>1, <3>3, <3>4
  <2> HIDE DEF given
  <2>3. Graded(i) \in IssueSet
    BY <2>2 DEF IssueSet
  <2>4. /\ Graded(i).linter = i.linter /\ Graded(i).expect = i.expect /\ Graded(i).text = i.text
        /\ Graded(i).replacement = i.replacement /\ Graded(i).path = i.path
    BY DEF IssueSet
  <2> HIDE DEF Graded
  <2>5. Alike(Graded(i), i) /\ ~Graded(i).path.abs
    BY <2>1, <2>4 DEF Alike
  <2>6. (TypeCheck(Graded(i)) <=> TypeCheck(i)) /\ Good(Graded(i), n + 1, c, src, sk)
    BY <1>1, <1>3, <2>4, <2>5, AlikeGood
  <2> QED
    BY <2>3, <2>6
<1>4. CASE c.severityRules = <<>> /\ c.severity = ""
  <2>1. t = s
    BY <1>4 DEF Severity
  <2>2. \A k \in DOMAIN s : Good(s[k], n + 1, c, src, sk)
    BY <1>1, <1>2 DEF AllGood
  <2> QED
    BY <1>1, <2>1, <2>2, NothingDisabled
<1>5. CASE ~(c.severityRules = <<>> /\ c.severity = "")
  <2>1. t = [k \in DOMAIN s |-> Graded(s[k])]
    BY <1>5 DEF Severity, Map
  <2> HIDE DEF Graded, t, given
  <2>2. \A k \in DOMAIN s : t[k] = Graded(s[k]) /\ s[k] \in IssueSet /\ Good(s[k], n, c, src, sk)
    BY <1>1, <2>1 DEF AllGood
  <2>3. t = [k \in DOMAIN s |-> t[k]]
    BY <2>1
  <2>4. \A k \in DOMAIN s : /\ t[k] \in IssueSet /\ (TypeCheck(t[k]) <=> TypeCheck(s[k]))
                             /\ Good(t[k], n + 1, c, src, sk)
    BY <1>3, <2>2
  <2>5. Serves(t, s, n, c, src, sk)
    BY <1>1, <2>3, <2>4, MapServes
  <2> QED
    BY <1>1, <2>5 DEF t
<1> QED
  BY <1>4, <1>5

LEMMA PrefixerServes ==
    ASSUME NEW c, NEW src, NEW sk, NEW s, AllGood(s, 20, c, src, sk)
    PROVE  Serves(PathPrefixer(s, c), s, 20, c, src, sk)
<1> DEFINE t == PathPrefixer(s, c)
           Prefixed(i) == [i EXCEPT !.path.pre = c.prefix # ""]
           n == 20
<1>1. n \in Nat /\ n > 10 /\ ~(n + 1 <= 17) /\ AllGood(s, n, c, src, sk) /\ n = 20
  OBVIOUS
<1> HIDE DEF n
<1>2. t = [k \in DOMAIN s |-> Prefixed(s[k])]
  BY DEF PathPrefixer, Map
<1>3. ASSUME NEW i \in IssueSet, Good(i, n, c, src, sk)
      PROVE  /\ Prefixed(i) \in IssueSet /\ (TypeCheck(Prefixed(i)) <=> TypeCheck(i))
             /\ Good(Prefixed(i), n + 1, c, src, sk)
  <2>1. i.path # None /\ i.path \in Paths /\ ~i.path.abs
    BY <1>1, <1>3 DEF Good, Plain, IssueSet
  <2> DEFINE b == (c.prefix # "")
             p == [i.path EXCEPT !.pre = b]
  <2>2. b \in BOOLEAN
    OBVIOUS
  <2>3. Prefixed(i) = [i EXCEPT !.path = p]
    OBVIOUS
  <2> HIDE DEF b
  <2>4. p \in Paths /\ p.dir = i.path.dir /\ p.base = i.path.base /\ p.ext = i.path.ext /\ ~p.abs
    BY <2>1, <2>2 DEF Paths
  <2> HIDE DEF p, Prefixed
  <2>5. Prefixed(i) \in IssueSet
    BY <2>3, <2>4 DEF IssueSet
  <2>6. /\ Prefixed(i).linter = i.linter /\ Prefixed(i).expect = i.expect /\ Prefixed(i).text = i.text
        /\ Prefixed(i).replacement = i.replacement /\ Prefixed(i).path = p
    BY <2>3 DEF IssueSet
  <2>7. Alike(Prefixed(i), i) /\ ~Prefixed(i).path.abs
    BY <2>4, <2>6, NoneAssumption DEF Alike
  <2>8. (TypeCheck(Prefixed(i)) <=> TypeCheck(i)) /\ Good(Prefixed(i), n + 1, c, src, sk)
    BY <1>1, <1>3, <2>6, <2>7, AlikeGood
  <2> QED
    BY <2>5, <2>8
<1> HIDE DEF Prefixed, t
<1>4. \A k \in DOMAIN s : t[k] = Prefixed(s[k]) /\ s[k] \in IssueSet /\ Good(s[k], n, c, src, sk)
  BY <1>1, <1>2 DEF AllGood
<1>5. t = [k \in DOMAIN s |-> t[k]]
  BY <1>2
<1>6. Serves(t, s, n, c, src, sk)
  BY <1>1, <1>3, <1>4, <1>5, MapServes
<1> QED
  BY <1>1, <1>6 DEF t

LEMMA UnadjusterServes ==
    ASSUME NEW c, NEW src, NEW sk, NEW s, AllGood(s, 2, c, src, sk), DOMAIN src \subseteq FileNames
    PROVE  Serves(FilenameUnadjuster(s, src), s, 2, c, src, sk)
<1> DEFINE t == FilenameUnadjuster(s, src)
           Origin(i) == {f \in DOMAIN src : src[f].parses /\ src[f].adjusted = FileOf(i.path) /\ f[3] = ".go"}
           Moved(i, f) == [i EXCEPT !.path = [Path(f[1], f[2], f[3]) EXCEPT !.abs = TRUE],
                                    !.line = Max({i.offset, 1})]
           Unadjusted(i) == IF i.path = None \/ Origin(i) = {} THEN i
                            ELSE LET f == CHOOSE f \in Origin(i) : TRUE IN Moved(i, f)
<1>1. t = [k \in DOMAIN s |-> Unadjusted(s[k])]
  BY DEF FilenameUnadjuster, Map
<1>2. ASSUME NEW i \in IssueSet, Good(i, 2, c, src, sk)
      PROVE  /\ Unadjusted(i) \in IssueSet /\ (TypeCheck(Unadjusted(i)) <=> TypeCheck(i))
             /\ Good(Unadjusted(i), 2 + 1, c, src, sk)
  <2>1. CASE i.path = None \/ Origin(i) = {}
    <3>1. Unadjusted(i) = i
      BY <2>1
    <3>2. GoPlace(i) => ~Adjusted(i, src)
      BY <2>1 DEF GoPlace, Adjusted
    <3> HIDE DEF Unadjusted
    <3>3. Good(i, 3, c, src, sk)
      BY <1>2, <3>2 DEF Good, Plain, Passes, Located, PathPasses, Handwritten, TextPasses
    <3> QED
      BY <3>1, <3>3
  <2>2. CASE i.path # None /\ Origin(i) # {}
    <3>1. PICK f \in Origin(i) : Unadjusted(i) = Moved(i, f)
      <4>1. (CHOOSE f \in Origin(i) : TRUE) \in Origin(i)
        BY <2>2
      <4> QED
        BY <2>2, <4>1
    <3> DEFINE p == [Path(f[1], f[2], f[3]) EXCEPT !.abs = TRUE]
               m == Max({i.offset, 1})
    <3>2. f \in DOMAIN src /\ f[1] \in STRING /\ f[2] \in STRING /\ f[3] \in STRING /\ f = <<f[1], f[2], f[3]>>
      BY DEF FileNames
    <3>3. p \in Paths /\ FileOf(p) = f
      BY <3>2 DEF Path, Paths, FileOf
    <3>4. m \in Int
      <4>1. i.offset \in Int
        BY DEF IssueSet
      <4>2. \E x \in {i.offset, 1} : \A y \in {i.offset, 1} : x >= y
        <5>1. CASE i.offset >= 1
          BY <4>1, <5>1
        <5>2. CASE ~(i.offset >= 1)
          BY <4>1, <5>2
        <5> QED
          BY <5>1, <5>2
      <4>3. m \in {i.offset, 1}
        BY <4>2 DEF Max
      <4> QED
        BY <4>1, <4>3
    <3>5. Unadjusted(i) = [i EXCEPT !.path = p, !.line = m]
      BY <3>1
    <3> HIDE DEF p, m, Unadjusted, Origin
    <3>6. Unadjusted(i) \in IssueSet
      BY <3>3, <3>4, <3>5 DEF IssueSet
    <3>7. /\ Unadjusted(i).linter = i.linter /\ Unadjusted(i).expect = i.expect
          /\ Unadjusted(i).source = i.source
          /\ Unadjusted(i).replacement = i.replacement /\ Unadjusted(i).path = p
      BY <3>5 DEF IssueSet
    <3>8. Good(Unadjusted(i), 3, c, src, sk)
      <4>1. Plain(Unadjusted(i), 3)
        BY <1>2, <2>2, <3>3, <3>7, NoneAssumption DEF Good, Plain, TypeCheck
      <4>2. Located(Unadjusted(i), 3, src)
        BY <3>2, <3>3, <3>7 DEF Located
      <4> QED
        BY <4>1, <4>2 DEF Good, Passes, PathPasses, Handwritten, TextPasses
    <3> QED
      BY <3>6, <3>7, <3>8 DEF TypeCheck
  <2> QED
    BY <2>1, <2>2
<1> HIDE DEF Unadjusted, t
<1>3. \A k \in DOMAIN s : t[k] = Unadjusted(s[k]) /\ s[k] \in IssueSet /\ Good(s[k], 2, c, src, sk)
  BY <1>1 DEF AllGood
<1>4. t = [k \in DOMAIN s |-> t[k]]
  BY <1>1
<1> QED
  BY <1>2, <1>3, <1>4, MapServes DEF t

-----------------------------------------------------------------------------
(* Limits: one issue passes them all, and so does what will be fixed.      *)

LEMMA SameGood ==
    ASSUME NEW n \in Nat, n > 10, NEW c, NEW src, NEW sk, NEW i, Good(i, n, c, src, sk)
    PROVE  Good(i, n + 1, c, src, sk)
<1>1. Alike(i, i) /\ ~i.path.abs /\ (n + 1 <= 17 => i.source = <<>>)
  BY DEF Good, Plain, Alike
<1> QED
  BY <1>1, AlikeGood

Limits(new, old, n, c, src, sk) ==
    /\ AllGood(new, n + 1, c, src, sk)
    /\ OnlyErrors(old) => OnlyErrors(new)
    /\ \A k \in DOMAIN old : ToBeFixed(old[k], c) => \E j \in DOMAIN new : new[j] = old[k]

LEMMA LimitLimits ==
    ASSUME NEW n \in Nat, n > 10, NEW c, NEW src, NEW sk, NEW s, AllGood(s, n, c, src, sk),
           NEW K \in SUBSET (DOMAIN s), s # <<>> => 1 \in K,
           \A k \in DOMAIN s : ToBeFixed(s[k], c) => k \in K
    PROVE  Limits(Kept(s, K), s, n, c, src, sk)
<1> DEFINE r == Kept(s, K)
<1>1. s \in Seq(IssueSet) /\ \A k \in DOMAIN s : Good(s[k], n + 1, c, src, sk)
  BY SameGood DEF AllGood
<1>2. /\ r \in Seq(IssueSet)
      /\ \A j \in DOMAIN r : \E k \in K : r[j] = s[k]
      /\ \A k \in K : \E j \in DOMAIN r : r[j] = s[k]
  BY <1>1, KeptFact
<1> HIDE DEF r
<1>3. AllGood(r, n + 1, c, src, sk)
  BY <1>1, <1>2 DEF AllGood
<1>4. ASSUME OnlyErrors(s)
      PROVE  OnlyErrors(r)
  <2>1. 1 \in K
    BY <1>4 DEF OnlyErrors
  <2>2. PICK j \in DOMAIN r : TRUE
    BY <1>2, <2>1
  <2>3. r # <<>>
    BY <2>2
  <2> QED
    BY <1>2, <1>4, <2>3 DEF OnlyErrors
<1>5. \A k \in DOMAIN s : ToBeFixed(s[k], c) => \E j \in DOMAIN r : r[j] = s[k]
  BY <1>2
<1> QED
  BY <1>3, <1>4, <1>5 DEF Limits, r

LEMMA NoLimit ==
    ASSUME NEW n \in Nat, n > 10, NEW c, NEW src, NEW sk, NEW s, AllGood(s, n, c, src, sk)
    PROVE  Limits(s, s, n, c, src, sk)
<1>1. \A k \in DOMAIN s : Good(s[k], n + 1, c, src, sk)
  BY SameGood DEF AllGood
<1> QED
  BY <1>1 DEF Limits, AllGood

(* Nothing is before the first one.                                        *)
LEMMA FirstOne == Cardinality({}) = 0
BY FS_EmptySet

LEMMA FirstIn == \A s : s \in Seq(IssueSet) /\ s # <<>> => 1 \in DOMAIN s
OBVIOUS

LEMMA UniqByLineLimits ==
    ASSUME NEW c, NEW src, NEW sk, NEW s, AllGood(s, 12, c, src, sk)
    PROVE  Limits(UniqByLine(s, c), s, 12, c, src, sk)
<1> DEFINE Same(j, k) == ~ToBeFixed(s[j], c) /\ FileOf(s[j].path) = FileOf(s[k].path) /\ s[j].line = s[k].line
           K == {k \in DOMAIN s : ToBeFixed(s[k], c) \/ Cardinality({j \in 1..(k - 1) : Same(j, k)}) = 0}
<1>1. CASE ~c.uniqByLine
  BY <1>1, NoLimit DEF UniqByLine
<1>2. CASE c.uniqByLine
  <2>1. UniqByLine(s, c) = Kept(s, K)
    BY <1>2 DEF UniqByLine, FilterAt, Before
  <2>2. {j \in 1..(1 - 1) : Same(j, 1)} = {}
    OBVIOUS
  <2> HIDE DEF Same
  <2>3. s # <<>> => 1 \in K
    BY <2>2, FirstOne, FirstIn DEF AllGood
  <2>4. K \in SUBSET (DOMAIN s) /\ \A k \in DOMAIN s : ToBeFixed(s[k], c) => k \in K
    OBVIOUS
  <2> HIDE DEF K
  <2> QED
    BY <2>1, <2>3, <2>4, LimitLimits
<1> QED
  BY <1>1, <1>2

LEMMA MaxPerFileLimits ==
    ASSUME NEW c, NEW src, NEW sk, NEW s, AllGood(s, 14, c, src, sk)
    PROVE  Limits(MaxPerFileFromLinter(s, c), s, 14, c, src, sk)
<1> DEFINE Same(j, k) == s[j].linter = s[k].linter /\ FileOf(s[j].path) = FileOf(s[k].path)
           K == {k \in DOMAIN s : \/ c.fix \/ s[k].linter \notin {"gofmt", "goimports"}
                                  \/ Cardinality({j \in 1..(k - 1) : Same(j, k)}) = 0}
<1>1. MaxPerFileFromLinter(s, c) = Kept(s, K)
  BY DEF MaxPerFileFromLinter, FilterAt, Before
<1>2. {j \in 1..(1 - 1) : Same(j, 1)} = {}
  OBVIOUS
<1> HIDE DEF Same
<1>3. s # <<>> => 1 \in K
  BY <1>2, FirstOne, FirstIn DEF AllGood
<1>4. K \in SUBSET (DOMAIN s) /\ \A k \in DOMAIN s : ToBeFixed(s[k], c) => k \in K
  BY DEF ToBeFixed
<1> HIDE DEF K
<1> QED
  BY <1>1, <1>3, <1>4, LimitLimits

LEMMA MaxSameLimits ==
    ASSUME NEW c \in Configs, NEW src, NEW sk, NEW s, AllGood(s, 15, c, src, sk)
    PROVE  Limits(MaxSameIssues(s, c), s, 15, c, src, sk)
<1> DEFINE Same(j, k) == ~ToBeFixed(s[j], c) /\ s[j].text = s[k].text
           K == {k \in DOMAIN s : ToBeFixed(s[k], c) \/ Cardinality({j \in 1..(k - 1) : Same(j, k)}) < c.maxSame}
<1>1. CASE c.maxSame <= 0
  BY <1>1, NoLimit DEF MaxSameIssues
<1>2. CASE ~(c.maxSame <= 0)
  <2>1. MaxSameIssues(s, c) = Kept(s, K)
    BY <1>2 DEF MaxSameIssues, FilterAt, Before
  <2>2. {j \in 1..(1 - 1) : Same(j, 1)} = {} /\ 0 < c.maxSame
    BY <1>2 DEF Configs
  <2> HIDE DEF Same
  <2>3. s # <<>> => 1 \in K
    BY <2>2, FirstOne, FirstIn DEF AllGood
  <2>4. K \in SUBSET (DOMAIN s) /\ \A k \in DOMAIN s : ToBeFixed(s[k], c) => k \in K
    OBVIOUS
  <2> HIDE DEF K
  <2> QED
    BY <2>1, <2>3, <2>4, LimitLimits
<1> QED
  BY <1>1, <1>2

LEMMA MaxFromLinterLimits ==
    ASSUME NEW c \in Configs, NEW src, NEW sk, NEW s, AllGood(s, 16, c, src, sk)
    PROVE  Limits(MaxFromLinter(s, c), s, 16, c, src, sk)
<1> DEFINE Same(j, k) == ~ToBeFixed(s[j], c) /\ s[j].linter = s[k].linter
           K == {k \in DOMAIN s : ToBeFixed(s[k], c) \/ Cardinality({j \in 1..(k - 1) : Same(j, k)}) < c.maxLinter}
<1>1. CASE c.maxLinter <= 0
  BY <1>1, NoLimit DEF MaxFromLinter
<1>2. CASE ~(c.maxLinter <= 0)
  <2>1. MaxFromLinter(s, c) = Kept(s, K)
    BY <1>2 DEF MaxFromLinter, FilterAt, Before
  <2>2. {j \in 1..(1 - 1) : Same(j, 1)} = {} /\ 0 < c.maxLinter
    BY <1>2 DEF Configs
  <2> HIDE DEF Same
  <2>3. s # <<>> => 1 \in K
    BY <2>2, FirstOne, FirstIn DEF AllGood
  <2>4. K \in SUBSET (DOMAIN s) /\ \A k \in DOMAIN s : ToBeFixed(s[k], c) => k \in K
    OBVIOUS
  <2> HIDE DEF K
  <2> QED
    BY <2>1, <2>3, <2>4, LimitLimits
<1> QED
  BY <1>1, <1>2

-----------------------------------------------------------------------------
(* Sorting.                                                                *)

LEMMA InsertFact ==
    ASSUME NEW T, NEW s \in Seq(T), NEW p \in 0..Len(s), NEW x \in T
    PROVE  InsertAt(s, 1 + p, x) \in Seq(T) /\ Len(InsertAt(s, 1 + p, x)) = Len(s) + 1
<1> DEFINE a == SubSeq(s, 1, (1 + p) - 1)
           b == SubSeq(s, 1 + p, Len(s))
<1>1. Len(s) \in Nat /\ p \in Nat /\ p <= Len(s) /\ (1 + p) - 1 = p /\ \A k \in 1..Len(s) : s[k] \in T
  OBVIOUS
<1>2. a \in Seq(T) /\ Len(a) = p
  <2>1. \A k \in 1..p : s[k] \in T
    BY <1>1
  <2>2. 1 \in Int /\ p \in Int /\ (IF 1 <= p THEN p - 1 + 1 ELSE 0) = p
    BY <1>1
  <2>3. SubSeq(s, 1, p) \in Seq(T) /\ Len(SubSeq(s, 1, p)) = IF 1 <= p THEN p - 1 + 1 ELSE 0
    BY <2>1, <2>2, SubSeqProperties
  <2> QED
    BY <1>1, <2>2, <2>3
<1>3. b \in Seq(T) /\ Len(b) = Len(s) - p
  <2> DEFINE m == 1 + p
             n == Len(s)
  <2>1. m \in Int /\ n \in Int /\ (\A k \in m..n : s[k] \in T) /\ (IF m <= n THEN n - m + 1 ELSE 0) = n - p
    BY <1>1
  <2> HIDE DEF m, n
  <2>2. SubSeq(s, m, n) \in Seq(T) /\ Len(SubSeq(s, m, n)) = IF m <= n THEN n - m + 1 ELSE 0
    BY <2>1, SubSeqProperties
  <2> QED
    BY <2>1, <2>2 DEF m, n
<1>4. InsertAt(s, 1 + p, x) = a \o <<x>> \o b
  BY DEF InsertAt
<1> HIDE DEF a, b
<1>5. a \o <<x>> \in Seq(T) /\ Len(a \o <<x>>) = p + 1
  BY <1>1, <1>2
<1>6. (a \o <<x>>) \o b \in Seq(T) /\ Len((a \o <<x>>) \o b) = (p + 1) + (Len(s) - p)
  BY <1>3, <1>5
<1>7. (p + 1) + (Len(s) - p) = Len(s) + 1 /\ InsertAt(s, 1 + p, x) = (a \o <<x>>) \o b
  BY <1>1, <1>4
<1> QED
  BY <1>6, <1>7

LEMMA SortFact ==
    ASSUME NEW T, NEW s \in Seq(T), NEW c
    PROVE  SortResults(s, c) \in Seq(T) /\ Len(SortResults(s, c)) = Len(s)
<1> DEFINE N == Len(s)
           p(q, x) == Max({0} \cup {k \in DOMAIN q : Compare(x, q[k], c) >= 0})
           Insert(q, x) == InsertAt(q, 1 + p(q, x), x)
           Sorts(f) == f = [k \in 0..N |-> IF k = 0 THEN <<>> ELSE Insert(f[k - 1], s[k])]
           after == CHOOSE f : Sorts(f)
<1>1. N \in Nat /\ \A k \in 1..N : s[k] \in T
  OBVIOUS
<1>2. ~c.sort => SortResults(s, c) = s
  BY DEF SortResults
<1>3. c.sort => SortResults(s, c) = after[N]
  BY DEF SortResults, Loop
<1> HIDE DEF N
<1>4. \A q \in Seq(T), x \in T : p(q, x) \in 0..Len(q)
  <2> SUFFICES ASSUME NEW q \in Seq(T), NEW x \in T
               PROVE  p(q, x) \in 0..Len(q)
    OBVIOUS
  <2> DEFINE U == {0} \cup {k \in DOMAIN q : Compare(x, q[k], c) >= 0}
  <2>1. U \in SUBSET Int /\ U # {} /\ Len(q) \in Int /\ (\A y \in U : y <= Len(q)) /\ U \subseteq 0..Len(q)
    OBVIOUS
  <2> HIDE DEF U
  <2>2. Max(U) \in U
    BY <2>1, MaxIn
  <2> QED
    BY <2>1, <2>2 DEF U
<1> HIDE DEF p
<1>5. \A q \in Seq(T), x \in T : Insert(q, x) \in Seq(T) /\ Len(Insert(q, x)) = Len(q) + 1
  BY <1>4, InsertFact
<1> HIDE DEF Insert
<1>6. \E f : Sorts(f)
  <2> DEFINE round == [x \in (1..N) \X Seq(T) |-> Insert(x[2], s[x[1]])]
             start == <<>>
  <2>1. round \in [(1..N) \X Seq(T) -> Seq(T)] /\ start \in Seq(T)
    BY <1>1, <1>5
  <2>2. \A k \in 1..N, q \in Seq(T) : round[<<k, q>>] = Insert(q, s[k])
    OBVIOUS
  <2> HIDE DEF round, start
  <2>3. PICK f \in [0..N -> Seq(T)] : Follows(f, N, start, round)
    BY <1>1, <2>1, Recursion
  <2>4. ASSUME NEW k \in 0..N
        PROVE  f[k] = IF k = 0 THEN <<>> ELSE Insert(f[k - 1], s[k])
    <3>1. CASE k = 0
      BY <2>3, <3>1 DEF Follows, start
    <3>2. CASE k # 0
      <4>1. k \in 1..N /\ f[k - 1] \in Seq(T)
        BY <1>1, <3>2
      <4>2. f[k] = round[<<k, f[k - 1]>>]
        BY <2>3, <3>2 DEF Follows
      <4> QED
        BY <2>2, <3>2, <4>1, <4>2
    <3> QED
      BY <3>1, <3>2
  <2>5. f = [k \in 0..N |-> f[k]]
    OBVIOUS
  <2>6. Sorts(f)
    BY <2>4, <2>5
  <2> QED
    BY <2>6
<1>7. Sorts(after)
  <2> HIDE DEF Sorts
  <2> QED
    BY <1>6
<1>8. \A k \in 0..N : after[k] = IF k = 0 THEN <<>> ELSE Insert(after[k - 1], s[k])
  <2> HIDE DEF after
  <2> QED
    BY <1>7
<1> HIDE DEF after, Sorts
<1> DEFINE U == {k \in 0..N : after[k] \in Seq(T) /\ Len(after[k]) = k}
<1>9. 0 \in U
  <2>1. 0 \in 0..N /\ <<>> \in Seq(T) /\ Len(<<>>) = 0
    BY <1>1
  <2>2. after[0] = <<>>
    BY <1>8, <2>1
  <2> QED
    BY <2>1, <2>2
<1>10. \A k \in 1..N : k - 1 \in U => k \in U
  <2> SUFFICES ASSUME NEW k \in 1..N, k - 1 \in U
               PROVE  k \in U
    OBVIOUS
  <2>1. after[k] = Insert(after[k - 1], s[k])
    BY <1>8
  <2>2. after[k - 1] \in Seq(T) /\ Len(after[k - 1]) = k - 1 /\ s[k] \in T
    BY <1>1
  <2>3. after[k] \in Seq(T) /\ Len(after[k]) = (k - 1) + 1
    BY <1>5, <2>1, <2>2
  <2> QED
    BY <2>3
<1>11. \A k \in 0..N : k \in U
  <2> HIDE DEF U
  <2> QED
    BY <1>1, <1>9, <1>10, Induct
<1>12. N \in 0..N
  BY <1>1
<1>13. after[N] \in Seq(T) /\ Len(after[N]) = N
  BY <1>11, <1>12
<1> QED
  BY <1>2, <1>3, <1>13 DEF N

LEMMA SortServes ==
    ASSUME NEW c, NEW src, NEW sk, NEW s, AllGood(s, 21, c, src, sk)
    PROVE  /\ AllGood(SortResults(s, c), 22, c, src, sk)
           /\ OnlyErrors(s) => OnlyErrors(SortResults(s, c))
<1> DEFINE r == SortResults(s, c)
           T == {x \in IssueSet : \E k \in DOMAIN s : x = s[k]}
           n == 21
<1>1. n \in Nat /\ n > 10 /\ n + 1 = 22 /\ AllGood(s, n, c, src, sk)
  OBVIOUS
<1> HIDE DEF n
<1>2. s \in Seq(IssueSet) /\ s \in Seq(T) /\ \A k \in DOMAIN s : Good(s[k], n + 1, c, src, sk)
  BY <1>1, SameGood DEF AllGood
<1> HIDE DEF T
<1>3. r \in Seq(T) /\ Len(r) = Len(s)
  BY <1>2, SortFact
<1> HIDE DEF r
<1>4. \A j \in DOMAIN r : \E k \in DOMAIN s : r[j] = s[k]
  <2>1. \A j \in DOMAIN r : r[j] \in T
    BY <1>3
  <2> QED
    BY <2>1 DEF T
<1>5. r \in Seq(IssueSet)
  BY <1>3 DEF T
<1>6. AllGood(r, 22, c, src, sk)
  BY <1>1, <1>2, <1>4, <1>5 DEF AllGood
<1>7. OnlyErrors(s) => OnlyErrors(r)
  <2>1. s # <<>> => r # <<>>
    BY <1>2, <1>3, <1>5
  <2> QED
    BY <1>4, <2>1 DEF OnlyErrors
<1> QED
  BY <1>6, <1>7 DEF r

-----------------------------------------------------------------------------
(* The nolint directives.                                                  *)

LEMMA Bounded ==
    ASSUME NEW q \in Seq(Int), NEW a \in Int
    PROVE  \E b \in Int : a <= b /\ \A k \in DOMAIN q : q[k] <= b
<1> DEFINE N == Len(q)
           T == {m \in 0..N : \E b \in Int : a <= b /\ \A k \in 1..m : q[k] <= b}
<1>1. N \in Nat /\ DOMAIN q = 1..N /\ \A k \in 1..N : q[k] \in Int
  OBVIOUS
<1> HIDE DEF N
<1>2. 0 \in T
  BY <1>1
<1>3. \A m \in 1..N : m - 1 \in T => m \in T
  <2> SUFFICES ASSUME NEW m \in 1..N, m - 1 \in T
               PROVE  m \in T
    OBVIOUS
  <2>1. PICK b \in Int : a <= b /\ \A k \in 1..(m - 1) : q[k] <= b
    OBVIOUS
  <2>2. q[m] \in Int /\ m \in 0..N
    BY <1>1
  <2>3. \A k \in 1..m : k = m \/ k \in 1..(m - 1)
    BY <1>1
  <2>4. CASE q[m] <= b
    <3>1. \A k \in 1..m : q[k] <= b
      BY <2>1, <2>3, <2>4
    <3> QED
      BY <2>1, <2>2, <3>1
  <2>5. CASE ~(q[m] <= b)
    <3>1. a <= q[m] /\ \A k \in 1..m : q[k] <= q[m]
      <4>1. \A k \in 1..m : q[k] \in Int
        BY <1>1
      <4> QED
        BY <2>1, <2>2, <2>3, <2>5, <4>1
    <3> QED
      BY <2>2, <3>1
  <2> QED
    BY <2>4, <2>5
<1> HIDE DEF T
<1>4. \A m \in 0..N : m \in T
  BY <1>1, <1>2, <1>3, Induct
<1>5. N \in T
  BY <1>1, <1>4
<1> QED
  BY <1>1, <1>5 DEF T

LEMMA FileParts ==
    ASSUME NEW file \in Files
    PROVE  /\ file.directives \in Seq(Directives) /\ file.nodes \in Seq(Places) /\ file.lines \in Seq(Chars)
           /\ \A k \in DOMAIN file.directives : file.directives[k] \in Directives /\ file.directives[k].group \in Places
<1>1. file.directives \in Seq(Directives) /\ file.nodes \in Seq(Places) /\ file.lines \in Seq(Chars)
  BY Zenon DEF Files
<1>2. \A d \in Directives : d.group \in Places
  BY Zenon DEF Directives
<1>3. \A k \in DOMAIN file.directives : file.directives[k] \in Directives
  BY <1>1
<1> QED
  BY <1>1, <1>2, <1>3

(* The ranges in which a directive of the file hides something.            *)
Extents(file) ==
    {r \in [dir : DOMAIN file.directives, linters : {Hides(file.directives[k]) : k \in DOMAIN file.directives},
            from : Int, to : Int, col : Int] :
        r.linters = Hides(file.directives[r.dir]) /\ r.from..r.to \subseteq Scope(file, r.dir)}

LEMMA ScopeFact ==
    ASSUME NEW file \in Files, NEW k \in DOMAIN file.directives
    PROVE  LET group == file.directives[k].group
           IN  /\ group \in Places
               /\ group.from..group.to \subseteq Scope(file, k)
               /\ \A n \in DOMAIN file.nodes :
                     file.nodes[n].from = group.to + 1 /\ file.nodes[n].col = group.col
                        => group.from..file.nodes[n].to \subseteq Scope(file, k)
<1> DEFINE group == file.directives[k].group
           nodes == file.nodes
           Near == {n \in DOMAIN nodes : nodes[n].from = group.to + 1 /\ nodes[n].col = group.col}
           ends == {group.to} \cup {nodes[n].to : n \in Near}
           q == [n \in DOMAIN nodes |-> nodes[n].to]
<1>1. group \in Places /\ nodes \in Seq(Places)
  BY FileParts
<1>2. Scope(file, k) = group.from..Max(ends)
  BY DEF Scope
<1>3. q \in Seq(Int) /\ DOMAIN q = DOMAIN nodes /\ \A n \in DOMAIN nodes : q[n] = nodes[n].to /\ nodes[n].to \in Int
  <2>1. \A n \in DOMAIN nodes : nodes[n] \in Places
    BY <1>1
  <2>2. \A n \in DOMAIN nodes : nodes[n].to \in Int
    BY <2>1 DEF Places
  <2> HIDE DEF nodes
  <2> QED
    BY <1>1, <2>2
<1>4. group.to \in Int /\ group.from \in Int
  BY <1>1 DEF Places
<1> HIDE DEF group, nodes, q
<1>5. PICK b \in Int : group.to <= b /\ \A n \in DOMAIN q : q[n] <= b
  BY <1>3, <1>4, Bounded
<1>6. ends \in SUBSET Int /\ ends # {} /\ \A y \in ends : y <= b
  BY <1>3, <1>4, <1>5
<1>7. \A n \in Near : nodes[n].to \in ends
  OBVIOUS
<1>8. group.to \in ends
  OBVIOUS
<1> HIDE DEF ends
<1>9. Max(ends) \in ends /\ \A y \in ends : Max(ends) >= y
  BY <1>6, MaxIn
<1>10. Max(ends) \in Int
  BY <1>6, <1>9
<1>11. group.from..group.to \subseteq group.from..Max(ends)
  BY <1>4, <1>6, <1>8, <1>9, <1>10
<1>12. \A n \in Near : group.from..nodes[n].to \subseteq group.from..Max(ends)
  BY <1>3, <1>4, <1>6, <1>7, <1>9, <1>10
<1>13. \A n \in DOMAIN nodes : nodes[n].from = group.to + 1 /\ nodes[n].col = group.col
                                  => group.from..nodes[n].to \subseteq Scope(file, k)
  BY <1>2, <1>12
<1> QED
  BY <1>1, <1>2, <1>11, <1>13 DEF group, nodes

LEMMA RangesFact ==
    ASSUME NEW file \in Files
    PROVE  IgnoredRanges(file) \in Seq(Extents(file))
<1> DEFINE ds == file.directives
           inline == InlineRanges(ds)
           ss == [n \in DOMAIN file.nodes |-> ExpandedRange(inline, file.nodes[n])]
           E == Extents(file)
<1>1. ds \in Seq(Directives) /\ file.nodes \in Seq(Places)
  BY FileParts
<1> DEFINE Extent(k) == [dir |-> k, linters |-> Hides(ds[k]), from |-> ds[k].group.from,
                         to |-> ds[k].group.to, col |-> ds[k].group.col]
<1>2. inline = [k \in DOMAIN ds |-> Extent(k)]
  BY DEF InlineRanges
<1> HIDE DEF inline
<1>9. DOMAIN inline = DOMAIN ds /\ \A k \in DOMAIN ds : inline[k] = Extent(k)
  <2> HIDE DEF Extent
  <2> QED
    BY <1>2
<1>3. \A k \in DOMAIN ds : inline[k] \in E
  <2> SUFFICES ASSUME NEW k \in DOMAIN ds
               PROVE  inline[k] \in E
    OBVIOUS
  <2>1. ds[k].group \in Places /\ ds[k].group.from..ds[k].group.to \subseteq Scope(file, k)
    BY ScopeFact
  <2>2. inline[k] = Extent(k)
    BY <1>9
  <2>3. ds[k].group.from \in Int /\ ds[k].group.to \in Int /\ ds[k].group.col \in Int
    BY <2>1 DEF Places
  <2>4. Hides(ds[k]) \in {Hides(file.directives[m]) : m \in DOMAIN file.directives}
    OBVIOUS
  <2>5. Extent(k) \in E
    BY <2>1, <2>3, <2>4 DEF Extents
  <2> QED
    BY <2>2, <2>5
<1>4. inline \in Seq(E)
  <2> HIDE DEF E
  <2>1. DOMAIN ds = 1..Len(ds) /\ Len(ds) \in Nat
    BY <1>1
  <2> HIDE DEF ds, Extent
  <2>2. inline = [k \in 1..Len(ds) |-> inline[k]]
    BY <1>2, <2>1
  <2> QED
    BY <1>3, <2>1, <2>2
<1>5. \A n \in DOMAIN file.nodes : ExpandedRange(inline, file.nodes[n]) \in Seq(E)
  <2> SUFFICES ASSUME NEW n \in DOMAIN file.nodes
               PROVE  ExpandedRange(inline, file.nodes[n]) \in Seq(E)
    OBVIOUS
  <2> DEFINE node == file.nodes[n]
             hit == {k \in DOMAIN inline : inline[k].to = node.from - 1 /\ inline[k].col = node.col}
  <2>1. CASE hit = {}
    BY <2>1 DEF ExpandedRange
  <2>2. CASE hit # {}
    <3> DEFINE k == Min(hit)
               e == IF inline[k].to < node.to THEN node.to ELSE inline[k].to
               r == [inline[k] EXCEPT !.to = e]
    <3>1. hit \in SUBSET Nat
      BY <1>1, <1>9
    <3>2. k \in hit
      <4> HIDE DEF hit
      <4> QED
        BY <2>2, <3>1, MinIn
    <3>3. ExpandedRange(inline, node) = <<r>>
      BY <2>2 DEF ExpandedRange
    <3>4. k \in DOMAIN ds /\ inline[k].to = node.from - 1 /\ inline[k].col = node.col
      BY <1>9, <3>2
    <3>10. inline[k] = Extent(k)
      BY <1>9, <3>4
    <3> HIDE DEF k
    <3>5. r = [dir |-> k, linters |-> Hides(ds[k]), from |-> ds[k].group.from, to |-> e, col |-> ds[k].group.col]
      <4> DEFINE x == inline[k]
      <4>1. x = Extent(k)
        BY <3>10
      <4> HIDE DEF x, e
      <4>2. [x EXCEPT !.to = e] = [dir |-> k, linters |-> Hides(ds[k]), from |-> ds[k].group.from, to |-> e,
                                   col |-> ds[k].group.col]
        BY <4>1
      <4> QED
        BY <4>2 DEF x
    <3>6. /\ ds[k].group \in Places /\ node \in Places
          /\ ds[k].group.from..ds[k].group.to \subseteq Scope(file, k)
          /\ node.from = ds[k].group.to + 1 /\ node.col = ds[k].group.col
               => ds[k].group.from..node.to \subseteq Scope(file, k)
      BY <1>1, <3>4, ScopeFact
    <3>7. inline[k].to = ds[k].group.to /\ inline[k].col = ds[k].group.col
      BY <3>10
    <3>8. e \in Int /\ ds[k].group.from..e \subseteq Scope(file, k)
      <4>1. ds[k].group.to \in Int /\ node.from \in Int /\ node.to \in Int
        BY <3>6 DEF Places
      <4>2. node.from = ds[k].group.to + 1 /\ node.col = ds[k].group.col
        BY <3>4, <3>7, <4>1
      <4> QED
        BY <3>6, <3>7, <4>1, <4>2
    <3> HIDE DEF e, r
    <3>9. r \in E
      BY <3>4, <3>5, <3>6, <3>8 DEF Extents, Places
    <3> HIDE DEF E, node
    <3> QED
      BY <3>3, <3>9 DEF node
  <2> QED
    BY <2>1, <2>2
<1> HIDE DEF E
<1>6. ss \in Seq(Seq(E))
  BY <1>1, <1>5
<1>7. FlattenSeq(ss) \in Seq(E)
  <2> HIDE DEF ss
  <2> QED
    BY <1>6, FlattenFact
<1>8. IgnoredRanges(file) = IF ~file.parses THEN <<>> ELSE inline \o FlattenSeq(ss)
  BY DEF IgnoredRanges, inline
<1> HIDE DEF ss
<1> QED
  BY <1>4, <1>7, <1>8 DEF E

(* The linters a directive has to hide, if there is something to hide.     *)
Heard(s, src, f, e) == {s[k].linter : k \in {k \in DOMAIN s : FileOf(s[k].path) = f /\ s[k].line \in Scope(src[f], e)}}

Accounts(s, src) ==
    {acc \in [kept : Seq({x \in IssueSet : \E k \in DOMAIN s : x = s[k]}), matched : [DOMAIN src -> Seq(SUBSET STRING)]] :
        \A f \in DOMAIN src :
            /\ DOMAIN acc.matched[f] = DOMAIN src[f].directives
            /\ \A e \in DOMAIN acc.matched[f] : acc.matched[f][e] \subseteq Heard(s, src, f, e)}

(* There is something to hide where a directive applies to i.              *)
Explained(i, s, src, enabled) ==
    i.expect \in enabled \cup {""} =>
        \E k \in DOMAIN s :
            /\ FileOf(s[k].path) = FileOf(i.path)
            /\ \E e \in DOMAIN FileAt(src, i.path).directives :
                  /\ s[k].line \in Scope(FileAt(src, i.path), e) /\ i.line \in Scope(FileAt(src, i.path), e)
                  /\ \/ s[k].linter = i.expect \/ i.expect = ""
                     \/ "nolintlint" \in Range(Hides(FileAt(src, i.path).directives[e]))

LEMMA HideOneFact ==
    ASSUME NEW s \in Seq(IssueSet), NEW src, src \in [DOMAIN src -> Files], NEW enabled \in SUBSET STRING,
           NEW acc \in Accounts(s, src), NEW n \in DOMAIN s,
           s[n].expect # None => s[n].linter = "nolintlint"
    PROVE  /\ HideOne(acc, s[n], src, enabled) \in Accounts(s, src)
           /\ \/ HideOne(acc, s[n], src, enabled).kept = Append(acc.kept, s[n])
              \/ /\ HideOne(acc, s[n], src, enabled).kept = acc.kept
                 /\ ~TypeCheck(s[n]) /\ Explained(s[n], s, src, enabled)
<1> DEFINE i == s[n]
           file == FileAt(src, i.path)
           f == FileOf(i.path)
           ranges == IgnoredRanges(file)
           hits == {k \in DOMAIN ranges : DoesMatch(ranges[k], i, acc.matched[f][ranges[k].dir])}
           keep == [acc EXCEPT !.kept = Append(@, i)]
           M == {x \in IssueSet : \E k \in DOMAIN s : x = s[k]}
           new == HideOne(acc, i, src, enabled)
<1>1. i \in IssueSet /\ i \in M
  OBVIOUS
<1>2. /\ acc \in [kept : Seq(M), matched : [DOMAIN src -> Seq(SUBSET STRING)]]
      /\ \A g \in DOMAIN src : /\ DOMAIN acc.matched[g] = DOMAIN src[g].directives
                               /\ \A e \in DOMAIN acc.matched[g] : acc.matched[g][e] \subseteq Heard(s, src, g, e)
  BY Zenon DEF Accounts
<1> HIDE DEF M
<1>3. keep \in Accounts(s, src) /\ keep.kept = Append(acc.kept, i)
  <2>1. Append(acc.kept, i) \in Seq(M)
    BY <1>1, <1>2
  <2>2. keep \in [kept : Seq(M), matched : [DOMAIN src -> Seq(SUBSET STRING)]]
        /\ keep.matched = acc.matched /\ keep.kept = Append(acc.kept, i)
    BY <1>2, <2>1
  <2> HIDE DEF keep
  <2> QED
    BY <1>2, <2>2 DEF Accounts, M
<1>4. file \in Files /\ (f \in DOMAIN src => file = src[f]) /\ (f \notin DOMAIN src => ranges = <<>>)
  <2>1. f \in DOMAIN src => file = src[f] /\ file \in Files
    BY DEF FileAt
  <2>2. f \notin DOMAIN src => file = Missing
    BY DEF FileAt
  <2>3. Missing \in Files /\ IgnoredRanges(Missing) = <<>>
    BY DEF Missing, Files, IgnoredRanges
  <2> HIDE DEF f
  <2> QED
    BY <2>1, <2>2, <2>3
<1>5. ranges \in Seq(Extents(file))
  <2> HIDE DEF file
  <2> QED
    BY <1>4, RangesFact
<1>6. new = IF TypeCheck(i) THEN keep
            ELSE IF i.linter = "nolintlint" /\ i.expect \notin {None, ""} /\ i.expect \notin enabled THEN acc
            ELSE IF hits = {} THEN keep
            ELSE [acc EXCEPT !.matched[f][ranges[Min(hits)].dir] = @ \cup {i.linter}]
  BY DEF HideOne
<1>7. CASE TypeCheck(i)
  <2>1. new = keep
    BY <1>6, <1>7
  <2> HIDE DEF new, keep, i
  <2> QED
    BY <1>3, <2>1 DEF i, new
<1>8. CASE ~TypeCheck(i) /\ i.linter = "nolintlint" /\ i.expect \notin {None, ""} /\ i.expect \notin enabled
  <2>1. new = acc /\ Explained(i, s, src, enabled)
    BY <1>6, <1>8 DEF Explained
  <2> HIDE DEF new, keep, i
  <2> QED
    BY <1>8, <2>1 DEF i, new
<1>9. CASE /\ ~TypeCheck(i)
           /\ ~(i.linter = "nolintlint" /\ i.expect \notin {None, ""} /\ i.expect \notin enabled)
           /\ hits = {}
  <2>1. new = keep
    BY <1>6, <1>9
  <2> HIDE DEF new, keep, i
  <2> QED
    BY <1>3, <2>1 DEF i, new
<1>10. CASE /\ ~TypeCheck(i)
            /\ ~(i.linter = "nolintlint" /\ i.expect \notin {None, ""} /\ i.expect \notin enabled)
            /\ hits # {}
  <2> DEFINE h == Min(hits)
             r == ranges[h]
             d == r.dir
  <2>1. h \in DOMAIN ranges /\ r \in Extents(file) /\ DoesMatch(r, i, acc.matched[f][d])
    <3>1. hits \in SUBSET Nat
      BY <1>5
    <3>2. h \in hits
      <4> HIDE DEF hits
      <4> QED
        BY <1>10, <3>1, MinIn
    <3>3. h \in DOMAIN ranges /\ DoesMatch(ranges[h], i, acc.matched[f][ranges[h].dir])
      BY <3>2
    <3> HIDE DEF h, ranges
    <3> QED
      BY <1>5, <3>3
  <2>2. f \in DOMAIN src /\ file = src[f]
    <3>1. h \in DOMAIN ranges
      BY <2>1
    <3> HIDE DEF f, file, ranges, h
    <3>2. ranges # <<>>
      BY <3>1
    <3> QED
      BY <1>4, <3>2
  <2>3. new = [acc EXCEPT !.matched[f][d] = @ \cup {i.linter}]
    BY <1>6, <1>10
  <2> HIDE DEF h
  <2>4. /\ d \in DOMAIN file.directives /\ r.linters = Hides(file.directives[d])
        /\ r.from \in Int /\ r.to \in Int /\ r.from..r.to \subseteq Scope(file, d)
    <3> HIDE DEF r, file
    <3> QED
      BY <2>1 DEF Extents
  <2>5. i.line \in Int /\ i.linter \in STRING /\ i.line \in Scope(file, d)
    <3>1. i.line \in Int /\ i.linter \in STRING
      BY <1>1 DEF IssueSet
    <3>2. r.from <= i.line /\ i.line <= r.to
      BY <2>1 DEF DoesMatch
    <3> HIDE DEF r, file, i
    <3> QED
      BY <2>4, <3>1, <3>2
  <2>6. i.linter \in Heard(s, src, f, d)
    BY <2>2, <2>5 DEF Heard
  <2>7. Explained(i, s, src, enabled)
    <3> SUFFICES ASSUME i.expect \in enabled \cup {""}
                 PROVE  \E k \in DOMAIN s : 
                           /\ FileOf(s[k].path) = f
                           /\ s[k].line \in Scope(file, d)
                           /\ \/ s[k].linter = i.expect \/ i.expect = ""
                              \/ "nolintlint" \in Range(Hides(file.directives[d]))
      BY <2>4, <2>5 DEF Explained
    <3>1. i.expect # None /\ i.linter = "nolintlint"
      <4>1. None \notin STRING
        BY NoneAssumption, Zenon
      <4>2. i.expect \in STRING
        <5> HIDE DEF i
        <5>1. "" \in STRING
          BY WordAssumption
        <5> QED
          BY <5>1
      <4>3. i.expect # None
        <5> HIDE DEF i
        <5> QED
          BY <4>1, <4>2, Zenon
      <4> QED
        BY <4>3
    <3>2. CASE \E k \in DOMAIN r.linters : r.linters[k] = i.linter
      <4>1. "nolintlint" \in Range(Hides(file.directives[d]))
        BY <2>4, <3>1, <3>2 DEF Range
      <4> QED
        BY <2>5, <4>1
    <3>3. CASE IF i.expect # "" THEN i.expect \in acc.matched[f][d] ELSE acc.matched[f][d] # {}
      <4>1. PICK x \in acc.matched[f][d] : x = i.expect \/ i.expect = ""
        BY <3>3
      <4>2. x \in Heard(s, src, f, d)
        BY <1>2, <2>2, <2>4, <4>1
      <4> QED
        BY <2>2, <4>1, <4>2 DEF Heard
    <3> QED
      BY <2>1, <3>1, <3>2, <3>3 DEF DoesMatch
  <2>8. new \in Accounts(s, src) /\ new.kept = acc.kept
    <3> DEFINE g == f
               e == d
               x == acc.matched[g][e] \cup {i.linter}
               m == [acc.matched EXCEPT ![g] = [acc.matched[g] EXCEPT ![e] = x]]
    <3>1. new = [acc EXCEPT !.matched = m]
      BY <2>3
    <3>2. g \in DOMAIN src /\ e \in DOMAIN acc.matched[g] /\ acc.matched[g] \in Seq(SUBSET STRING)
      BY <1>2, <2>2, <2>4
    <3>3. x \subseteq Heard(s, src, g, e) /\ x \in SUBSET STRING
      <4>1. acc.matched[g][e] \subseteq Heard(s, src, g, e) /\ acc.matched[g][e] \in SUBSET STRING
        BY <1>2, <3>2
      <4> QED
        BY <2>5, <2>6, <4>1
    <3> HIDE DEF g, e, x
    <3>4. m \in [DOMAIN src -> Seq(SUBSET STRING)]
      BY <1>2, <3>2, <3>3
    <3>5. ASSUME NEW u \in DOMAIN src
          PROVE  /\ DOMAIN m[u] = DOMAIN src[u].directives
                 /\ \A v \in DOMAIN m[u] : m[u][v] \subseteq Heard(s, src, u, v)
      BY <1>2, <3>2, <3>3
    <3> HIDE DEF m, new
    <3>6. new \in [kept : Seq(M), matched : [DOMAIN src -> Seq(SUBSET STRING)]]
          /\ new.matched = m /\ new.kept = acc.kept
      BY <1>2, <3>1, <3>4
    <3> QED
      BY <3>5, <3>6 DEF Accounts, M
  <2> HIDE DEF new, i
  <2> QED
    BY <1>10, <2>7, <2>8 DEF i, new
<1> QED
  BY <1>7, <1>8, <1>9, <1>10

(* The issues of the code come first, and all that is heard is from s.     *)
LEMMA OrderFact ==
    ASSUME NEW s \in Seq(IssueSet)
    PROVE  LET order == NolintlintLast(s)
           IN  /\ order \in Seq({x \in IssueSet : \E k \in DOMAIN s : x = s[k]})
               /\ Len(order) \in Nat /\ DOMAIN order = 1..Len(order)
               /\ \A k \in DOMAIN s : \E j \in DOMAIN order : order[j] = s[k]
               /\ \A k \in DOMAIN order : \E n \in DOMAIN s : order[k] = s[n]
               /\ \E c \in Nat : \A k \in DOMAIN order : order[k].linter = "nolintlint" <=> k > c
<1> DEFINE M == {x \in IssueSet : \E k \in DOMAIN s : x = s[k]}
           order == NolintlintLast(s)
           K == {k \in DOMAIN s : s[k].linter # "nolintlint"}
           L == {k \in DOMAIN s : s[k].linter = "nolintlint"}
           a == Kept(s, K)
           b == Kept(s, L)
<1>1. s \in Seq(M)
  BY DEF M
<1>2. order = a \o b
  BY DEF NolintlintLast, Select
<1>3. /\ K \in SUBSET (DOMAIN s) /\ L \in SUBSET (DOMAIN s) /\ K \cup L = DOMAIN s
      /\ \A k \in K : s[k].linter # "nolintlint"
      /\ \A k \in L : s[k].linter = "nolintlint"
  OBVIOUS
<1>4. \A x \in M : \E k \in DOMAIN s : x = s[k]
  OBVIOUS
<1> HIDE DEF M, K, L, order
<1>5. /\ a \in Seq(M) /\ \A k \in K : \E j \in DOMAIN a : a[j] = s[k]
      /\ \A j \in DOMAIN a : \E k \in K : a[j] = s[k]
  BY <1>1, <1>3, KeptFact
<1>6. /\ b \in Seq(M) /\ \A k \in L : \E j \in DOMAIN b : b[j] = s[k]
      /\ \A j \in DOMAIN b : \E k \in L : b[j] = s[k]
  BY <1>1, <1>3, KeptFact
<1> HIDE DEF a, b
<1>7. /\ order \in Seq(M) /\ Len(a) \in Nat /\ Len(b) \in Nat /\ Len(order) = Len(a) + Len(b)
      /\ DOMAIN a = 1..Len(a) /\ DOMAIN b = 1..Len(b) /\ DOMAIN order = 1..(Len(a) + Len(b))
      /\ \A m \in DOMAIN a : m \in DOMAIN order /\ order[m] = a[m]
      /\ \A m \in DOMAIN b : Len(a) + m \in DOMAIN order /\ order[Len(a) + m] = b[m]
  BY <1>2, <1>5, <1>6, ConcatFact
<1>8. ASSUME NEW k \in DOMAIN s
      PROVE  \E j \in DOMAIN order : order[j] = s[k]
  <2>1. CASE k \in K
    BY <1>5, <1>7, <2>1
  <2>2. CASE k \in L
    BY <1>6, <1>7, <2>2
  <2> QED
    BY <1>3, <2>1, <2>2
<1>9. \A k \in DOMAIN order : \E n \in DOMAIN s : order[k] = s[n]
  BY <1>4, <1>7
<1>10. ASSUME NEW k \in DOMAIN order
       PROVE  order[k].linter = "nolintlint" <=> k > Len(a)
  <2>1. CASE k <= Len(a)
    <3>1. k \in DOMAIN a
      BY <1>7, <2>1
    <3>2. PICK n \in K : a[k] = s[n]
      BY <1>5, <3>1
    <3>3. order[k].linter # "nolintlint"
      BY <1>3, <1>7, <3>1, <3>2
    <3> QED
      BY <1>7, <2>1, <3>3
  <2>2. CASE ~(k <= Len(a))
    <3> DEFINE m == k - Len(a)
    <3>1. m \in DOMAIN b /\ k = Len(a) + m /\ k > Len(a)
      BY <1>7, <2>2
    <3> HIDE DEF m
    <3>2. PICK n \in L : b[m] = s[n]
      BY <1>6, <3>1
    <3>3. order[k].linter = "nolintlint"
      BY <1>3, <1>7, <3>1, <3>2
    <3> QED
      BY <3>1, <3>3
  <2> QED
    BY <2>1, <2>2
<1>11. \E c \in Nat : \A k \in DOMAIN order : order[k].linter = "nolintlint" <=> k > c
  BY <1>7, <1>10
<1>12. Len(order) \in Nat /\ DOMAIN order = 1..Len(order)
  BY <1>7
<1> QED
  BY <1>7, <1>8, <1>9, <1>11, <1>12 DEF M, order

LEMMA NolintSteps ==
    ASSUME NEW s \in Seq(IssueSet), NEW src, src \in [DOMAIN src -> Files], NEW enabled \in SUBSET STRING,
           \A k \in DOMAIN s : s[k].expect # None => s[k].linter = "nolintlint"
    PROVE  LET order == NolintlintLast(s)
           IN  \E after \in [0..Len(order) -> Accounts(s, src)] :
                  /\ Nolint(s, src, enabled) = after[Len(order)].kept
                  /\ after[0].kept = <<>>
                  /\ \A k \in 1..Len(order) : after[k] = HideOne(after[k - 1], order[k], src, enabled)
<1> DEFINE order == NolintlintLast(s)
           N == Len(order)
           start == [kept |-> <<>>, matched |-> [f \in DOMAIN src |-> [d \in DOMAIN src[f].directives |-> {}]]]
           Hide(acc, k) == HideOne(acc, order[k], src, enabled)
           Hides0(f) == f = [k \in 0..N |-> IF k = 0 THEN start ELSE Hide(f[k - 1], k)]
           after == CHOOSE f : Hides0(f)
           V == Accounts(s, src)
<1>1. Nolint(s, src, enabled) = after[N].kept
  BY DEF Nolint, Loop
<1>2. N \in Nat /\ DOMAIN order = 1..N /\ \A k \in 1..N : \E n \in DOMAIN s : order[k] = s[n]
  <2>1. N \in Nat /\ DOMAIN order = 1..N /\ \A k \in DOMAIN order : \E n \in DOMAIN s : order[k] = s[n]
    BY OrderFact
  <2> HIDE DEF N, order
  <2> QED
    BY <2>1
<1>3. start.kept = <<>> /\ start \in V
  <2>1. start.matched \in [DOMAIN src -> Seq(SUBSET STRING)]
    <3> SUFFICES ASSUME NEW f \in DOMAIN src
                 PROVE  [d \in DOMAIN src[f].directives |-> {}] \in Seq(SUBSET STRING)
      OBVIOUS
    <3>1. src[f].directives \in Seq(Directives)
      BY FileParts
    <3>2. DOMAIN src[f].directives = 1..Len(src[f].directives) /\ Len(src[f].directives) \in Nat
      BY <3>1
    <3> QED
      BY <3>2
  <2>2. \A f \in DOMAIN src : /\ DOMAIN start.matched[f] = DOMAIN src[f].directives
                              /\ \A e \in DOMAIN start.matched[f] : start.matched[f][e] = {}
    OBVIOUS
  <2> DEFINE M == {x \in IssueSet : \E k \in DOMAIN s : x = s[k]}
  <2>3. start \in [kept : Seq(M), matched : [DOMAIN src -> Seq(SUBSET STRING)]]
    <3> HIDE DEF M
    <3> QED
      BY <2>1
  <2>4. start.kept = <<>>
    OBVIOUS
  <2> HIDE DEF start
  <2> QED
    BY <2>2, <2>3, <2>4 DEF Accounts, M
<1> HIDE DEF N, order, start, Hide, V
<1>4. \A acc \in V, k \in 1..N : Hide(acc, k) \in V
  <2> SUFFICES ASSUME NEW acc \in V, NEW k \in 1..N
               PROVE  Hide(acc, k) \in V
    OBVIOUS
  <2>1. PICK n \in DOMAIN s : order[k] = s[n]
    BY <1>2
  <2>2. acc \in Accounts(s, src) /\ (s[n].expect # None => s[n].linter = "nolintlint")
    BY DEF V
  <2>3. HideOne(acc, s[n], src, enabled) \in Accounts(s, src)
    BY <2>2, HideOneFact
  <2> QED
    BY <2>1, <2>3 DEF Hide, V
<1> DEFINE round == [x \in (1..N) \X V |-> Hide(x[2], x[1])]
<1>5. round \in [(1..N) \X V -> V] /\ \A k \in 1..N, acc \in V : round[<<k, acc>>] = Hide(acc, k)
  BY <1>4
<1> HIDE DEF round
<1>6. PICK g \in [0..N -> V] : Follows(g, N, start, round)
  BY <1>2, <1>3, <1>5, Recursion
<1>7. ASSUME NEW k \in 0..N
      PROVE  g[k] = IF k = 0 THEN start ELSE Hide(g[k - 1], k)
  <2>1. CASE k = 0
    BY <1>6, <2>1 DEF Follows
  <2>2. CASE k # 0
    <3>1. k \in 1..N /\ g[k - 1] \in V
      BY <1>2, <2>2
    <3>2. g[k] = round[<<k, g[k - 1]>>]
      BY <1>6, <2>2 DEF Follows
    <3> QED
      BY <1>5, <2>2, <3>1, <3>2
  <2> QED
    BY <2>1, <2>2
<1>8. g = [k \in 0..N |-> g[k]]
  OBVIOUS
<1>9. Hides0(g)
  BY <1>7, <1>8
<1>10. Hides0(after)
  <2> HIDE DEF Hides0
  <2> QED
    BY <1>9
<1>11. /\ \A k \in 0..N : after[k] = IF k = 0 THEN start ELSE Hide(after[k - 1], k)
       /\ after = [k \in 0..N |-> after[k]]
  <2> HIDE DEF after
  <2>1. \A k \in 0..N : after[k] = IF k = 0 THEN start ELSE Hide(after[k - 1], k)
    BY <1>10
  <2>2. after = [k \in DOMAIN after |-> after[k]] /\ DOMAIN after = 0..N
    BY <1>10
  <2> HIDE DEF Hides0
  <2> QED
    BY <2>1, <2>2
<1> HIDE DEF after, Hides0
<1>12. 0 \in 0..N /\ after[0] = start
  BY <1>2, <1>11
<1>13. ASSUME NEW k \in 1..N
       PROVE  after[k] = Hide(after[k - 1], k)
  <2>1. k \in 0..N /\ k # 0
    BY <1>2
  <2> HIDE DEF Hide
  <2> QED
    BY <1>11, <2>1
<1> DEFINE U == {k \in 0..N : after[k] \in V}
<1>14. \A k \in 0..N : k \in U
  <2>1. 0 \in U
    BY <1>3, <1>12
  <2>2. ASSUME NEW k \in 1..N, k - 1 \in U
        PROVE  k \in U
    <3>1. after[k - 1] \in V /\ k \in 0..N
      BY <1>2, <2>2
    <3> HIDE DEF Hide
    <3> QED
      BY <1>4, <1>13, <3>1
  <2> HIDE DEF U
  <2> QED
    BY <1>2, <2>1, <2>2, Induct
<1>15. after \in [0..N -> V]
  BY <1>11, <1>14
<1>16. after[0].kept = <<>>
  BY <1>3, <1>12
<1>17. \A k \in 1..N : after[k] = Hide(after[k - 1], k)
  BY <1>13
<1> QED
  BY <1>1, <1>15, <1>16, <1>17 DEF N, V, Hide, order

(* An issue is kept, or there is something that explains why it is not.    *)
LEMMA NolintFact ==
    ASSUME NEW s \in Seq(IssueSet), NEW src, src \in [DOMAIN src -> Files], NEW enabled \in SUBSET STRING,
           \A k \in DOMAIN s : s[k].expect # None => s[k].linter = "nolintlint"
    PROVE  /\ Nolint(s, src, enabled) \in Seq(IssueSet)
           /\ \A j \in DOMAIN Nolint(s, src, enabled) : \E k \in DOMAIN s : Nolint(s, src, enabled)[j] = s[k]
           /\ \A k \in DOMAIN s :
                 \/ \E j \in DOMAIN Nolint(s, src, enabled) : Nolint(s, src, enabled)[j] = s[k]
                 \/ ~TypeCheck(s[k]) /\ Explained(s[k], s, src, enabled)
<1> DEFINE M == {x \in IssueSet : \E k \in DOMAIN s : x = s[k]}
           order == NolintlintLast(s)
           N == Len(order)
           V == Accounts(s, src)
           Lost(x) == ~TypeCheck(x) /\ Explained(x, s, src, enabled)
           In(x, q) == \E m \in DOMAIN q : q[m] = x
<1>1. /\ order \in Seq(M) /\ N \in Nat /\ DOMAIN order = 1..N
      /\ \A k \in DOMAIN s : \E j \in DOMAIN order : order[j] = s[k]
      /\ \A k \in DOMAIN order : \E n \in DOMAIN s : order[k] = s[n]
  BY OrderFact
<1>2. PICK after \in [0..N -> V] :
          /\ Nolint(s, src, enabled) = after[N].kept
          /\ \A k \in 1..N : after[k] = HideOne(after[k - 1], order[k], src, enabled)
  BY NolintSteps
<1> HIDE DEF N, order, V, Lost, M
<1>3. ASSUME NEW k \in 1..N
      PROVE  LET old == after[k - 1]
                 new == after[k]
             IN  \/ new.kept = Append(old.kept, order[k])
                 \/ new.kept = old.kept /\ Lost(order[k])
  <2>1. PICK n \in DOMAIN s : order[k] = s[n]
    BY <1>1
  <2>2. k - 1 \in 0..N
    BY <1>1
  <2>3. after[k - 1] \in Accounts(s, src) /\ (s[n].expect # None => s[n].linter = "nolintlint")
    BY <2>2 DEF V
  <2> DEFINE acc == after[k - 1]
  <2> HIDE DEF acc
  <2>4. \/ HideOne(acc, s[n], src, enabled).kept = Append(acc.kept, s[n])
        \/ /\ HideOne(acc, s[n], src, enabled).kept = acc.kept
           /\ ~TypeCheck(s[n]) /\ Explained(s[n], s, src, enabled)
    BY <2>3, HideOneFact DEF acc
  <2>5. after[k] = HideOne(acc, s[n], src, enabled)
    BY <1>2, <2>1 DEF acc
  <2> QED
    BY <2>1, <2>4, <2>5 DEF Lost, acc
<1>4. \A k \in 0..N : after[k].kept \in Seq(M)
  BY DEF Accounts, V, M
<1> DEFINE U == {k \in 0..N : \A j \in 1..k : In(order[j], after[k].kept) \/ Lost(order[j])}
<1>5. 0 \in U
  BY <1>1
<1>6. \A k \in 1..N : k - 1 \in U => k \in U
  <2> SUFFICES ASSUME NEW k \in 1..N, k - 1 \in U
               PROVE  k \in U
    OBVIOUS
  <2> DEFINE old == after[k - 1]
             new == after[k]
  <2>1. k - 1 \in 0..N /\ k \in 0..N
    BY <1>1
  <2>2. new.kept = Append(old.kept, order[k]) \/ (new.kept = old.kept /\ Lost(order[k]))
    BY <1>3
  <2>3. old.kept \in Seq(M)
    BY <1>4, <2>1
  <2>4. \A j \in 1..(k - 1) : In(order[j], old.kept) \/ Lost(order[j])
    OBVIOUS
  <2> HIDE DEF old, new
  <2>5. \A x : In(x, old.kept) => In(x, new.kept)
    <3> SUFFICES ASSUME NEW m \in DOMAIN old.kept
                 PROVE  \E n \in DOMAIN new.kept : new.kept[n] = old.kept[m]
      OBVIOUS
    <3>1. CASE new.kept = Append(old.kept, order[k])
      <4>1. m \in DOMAIN new.kept /\ new.kept[m] = old.kept[m]
        BY <2>3, <3>1
      <4> QED
        BY <4>1
    <3> QED
      BY <2>2, <3>1
  <2>6. In(order[k], new.kept) \/ Lost(order[k])
    <3>1. CASE new.kept = Append(old.kept, order[k])
      <4>1. Len(old.kept) + 1 \in DOMAIN new.kept /\ new.kept[Len(old.kept) + 1] = order[k]
        BY <2>3, <3>1
      <4> QED
        BY <4>1
    <3> QED
      BY <2>2, <3>1
  <2>7. \A j \in 1..k : j = k \/ j \in 1..(k - 1)
    BY <1>1
  <2> HIDE DEF In
  <2>8. \A j \in 1..k : In(order[j], new.kept) \/ Lost(order[j])
    BY <2>4, <2>5, <2>6, <2>7
  <2> QED
    BY <2>1, <2>8 DEF new
<1>7. \A k \in 0..N : k \in U
  <2> HIDE DEF U
  <2> QED
    BY <1>1, <1>5, <1>6, Induct
<1> DEFINE out == after[N].kept
<1>8. out \in Seq(M) /\ \A j \in 1..N : In(order[j], out) \/ Lost(order[j])
  <2>1. N \in 0..N
    BY <1>1
  <2> QED
    BY <1>4, <1>7, <2>1
<1>9. Nolint(s, src, enabled) = out
  BY <1>2
<1> HIDE DEF out, In
<1>10. \A k \in DOMAIN s : In(s[k], out) \/ Lost(s[k])
  BY <1>1, <1>8
<1>11. out \in Seq(IssueSet) /\ \A j \in DOMAIN out : \E k \in DOMAIN s : out[j] = s[k]
  <2>1. \A j \in DOMAIN out : out[j] \in M
    BY <1>8
  <2> QED
    BY <1>8, <2>1 DEF M
<1> QED
  BY <1>9, <1>10, <1>11 DEF Lost, In

LEMMA NolintServes ==
    ASSUME NEW c \in Configs, NEW src, src \in [DOMAIN src -> Files], NEW sk, NEW s, AllGood(s, 11, c, src, sk)
    PROVE  Serves(Nolint(s, src, c.enabled), s, 11, c, src, sk)
<1> DEFINE r == Nolint(s, src, c.enabled)
           n == 11
<1>1. n \in Nat /\ n > 10 /\ n + 1 = 11 + 1 /\ AllGood(s, n, c, src, sk)
  OBVIOUS
<1> HIDE DEF n
<1>2. s \in Seq(IssueSet) /\ \A k \in DOMAIN s : Good(s[k], n + 1, c, src, sk)
  BY <1>1, SameGood DEF AllGood
<1>3. \A k \in DOMAIN s : s[k].expect # None => s[k].linter = "nolintlint"
  BY DEF AllGood, Good, Plain
<1>4. c.enabled \in SUBSET STRING
  BY Zenon DEF Configs
<1>5. /\ r \in Seq(IssueSet)
      /\ \A j \in DOMAIN r : \E k \in DOMAIN s : r[j] = s[k]
      /\ \A k \in DOMAIN s : (\E j \in DOMAIN r : r[j] = s[k]) \/ ~TypeCheck(s[k])
  BY <1>2, <1>3, <1>4, NolintFact
<1> HIDE DEF r
<1>6. AllGood(r, 11 + 1, c, src, sk)
  BY <1>1, <1>2, <1>5 DEF AllGood
<1>7. Erring(s) => Erring(r)
  BY <1>5 DEF Erring
<1>8. OnlyErrors(s) => OnlyErrors(r)
  <2>1. s # <<>> => 1 \in DOMAIN s
    BY <1>2
  <2>2. (\E j : j \in DOMAIN r) => r # <<>>
    OBVIOUS
  <2> QED
    BY <1>5, <2>1, <2>2 DEF OnlyErrors
<1> QED
  BY <1>6, <1>7, <1>8 DEF Serves, Keeps, r

LEMMA NolintReports ==
    ASSUME NEW c \in Configs, NEW src, src \in [DOMAIN src -> Files], NEW sk, NEW s, AllGood(s, 11, c, src, sk)
    PROVE  UnusedAreReported(s, src, c.enabled)
<1> DEFINE r == Nolint(s, src, c.enabled)
<1>1. s \in Seq(IssueSet) /\ \A k \in DOMAIN s : s[k].expect # None => s[k].linter = "nolintlint"
  BY DEF AllGood, Good, Plain
<1>2. c.enabled \in SUBSET STRING
  BY Zenon DEF Configs
<1>3. \A k \in DOMAIN s : \/ \E j \in DOMAIN r : r[j] = s[k]
                          \/ Explained(s[k], s, src, c.enabled)
  BY <1>1, <1>2, NolintFact
<1> HIDE DEF r
<1> SUFFICES ASSUME NEW i \in Range(s) \ Range(r), i.expect \in c.enabled \cup {""}
             PROVE  \E j \in Range(s) :
                       /\ FileOf(j.path) = FileOf(i.path)
                       /\ \E e \in DOMAIN FileAt(src, i.path).directives :
                             /\ j.line \in Scope(FileAt(src, i.path), e) /\ i.line \in Scope(FileAt(src, i.path), e)
                             /\ j.linter = i.expect \/ i.expect = ""
                                \/ "nolintlint" \in Range(Hides(FileAt(src, i.path).directives[e]))
  BY DEF UnusedAreReported, r
<1>4. PICK k \in DOMAIN s : i = s[k]
  BY DEF Range
<1>5. Explained(i, s, src, c.enabled)
  BY <1>3, <1>4 DEF Range
<1>6. PICK m \in DOMAIN s :
            /\ FileOf(s[m].path) = FileOf(i.path)
            /\ \E e \in DOMAIN FileAt(src, i.path).directives :
                  /\ s[m].line \in Scope(FileAt(src, i.path), e) /\ i.line \in Scope(FileAt(src, i.path), e)
                  /\ \/ s[m].linter = i.expect \/ i.expect = ""
                     \/ "nolintlint" \in Range(Hides(FileAt(src, i.path).directives[e]))
  BY <1>5, Zenon DEF Explained
<1>7. s[m] \in Range(s)
  BY DEF Range
<1> QED
  BY <1>6, <1>7

-----------------------------------------------------------------------------
(* The ranges of a file, with a directive and without it.                  *)

RangeSet == [dir : Nat, linters : {Hides(d) : d \in Directives}, from : Int, to : Int, col : Int]

LEMMA InlineRangesFact ==
    ASSUME NEW ds \in Seq(Directives)
    PROVE  /\ InlineRanges(ds) \in Seq(RangeSet) /\ DOMAIN InlineRanges(ds) = DOMAIN ds
           /\ \A k \in DOMAIN ds :
                 InlineRanges(ds)[k] = [dir |-> k, linters |-> Hides(ds[k]), from |-> ds[k].group.from,
                                        to |-> ds[k].group.to, col |-> ds[k].group.col]
<1> DEFINE inline == InlineRanges(ds)
           Extent(k) == [dir |-> k, linters |-> Hides(ds[k]), from |-> ds[k].group.from,
                         to |-> ds[k].group.to, col |-> ds[k].group.col]
<1>1. inline = [k \in DOMAIN ds |-> Extent(k)]
  BY DEF InlineRanges
<1>2. \A k \in DOMAIN ds : Extent(k) \in RangeSet
  <2> SUFFICES ASSUME NEW k \in DOMAIN ds
               PROVE  Extent(k) \in RangeSet
    OBVIOUS
  <2>1. ds[k] \in Directives /\ k \in Nat
    OBVIOUS
  <2>2. ds[k].group \in Places
    BY <2>1, Zenon DEF Directives
  <2>3. ds[k].group.from \in Int /\ ds[k].group.to \in Int /\ ds[k].group.col \in Int
    BY <2>2 DEF Places
  <2>4. Hides(ds[k]) \in {Hides(d) : d \in Directives}
    BY <2>1
  <2> QED
    BY <2>1, <2>3, <2>4 DEF RangeSet
<1> HIDE DEF inline
<1>3. DOMAIN inline = DOMAIN ds /\ \A k \in DOMAIN ds : inline[k] = Extent(k)
  <2> HIDE DEF Extent
  <2> QED
    BY <1>1
<1>4. inline \in Seq(RangeSet)
  <2>1. DOMAIN ds = 1..Len(ds) /\ Len(ds) \in Nat
    OBVIOUS
  <2>2. inline = [k \in 1..Len(ds) |-> inline[k]]
    <3> HIDE DEF Extent
    <3> QED
      BY <1>1, <2>1
  <2>3. \A k \in 1..Len(ds) : inline[k] \in RangeSet
    <3> HIDE DEF Extent
    <3> QED
      BY <1>2, <1>3, <2>1
  <2> QED
    BY <2>1, <2>2, <2>3
<1> QED
  BY <1>3, <1>4 DEF inline

(* The ranges that a node is below. *)
Above(ranges, node) == {k \in DOMAIN ranges : ranges[k].to = node.from - 1 /\ ranges[k].col = node.col}

LEMMA ExpandedFact ==
    ASSUME NEW ranges \in Seq(RangeSet), NEW node \in Places
    PROVE  LET h == Min(Above(ranges, node))
           IN  /\ ExpandedRange(ranges, node) \in Seq(RangeSet)
               /\ Above(ranges, node) = {} => ExpandedRange(ranges, node) = <<>>
               /\ Above(ranges, node) # {} =>
                     /\ h \in Above(ranges, node) /\ \A k \in Above(ranges, node) : h <= k
                     /\ \E r \in RangeSet :
                           /\ ExpandedRange(ranges, node) = <<r>>
                           /\ r.dir = ranges[h].dir /\ r.linters = ranges[h].linters /\ r.from = ranges[h].from
                           /\ r.to = IF ranges[h].to < node.to THEN node.to ELSE ranges[h].to
<1> DEFINE A == Above(ranges, node)
           h == Min(A)
           e == IF ranges[h].to < node.to THEN node.to ELSE ranges[h].to
           r == [ranges[h] EXCEPT !.to = e]
<1>1. ExpandedRange(ranges, node) = IF A = {} THEN <<>> ELSE <<r>>
  BY DEF ExpandedRange, Above
<1>2. A \in SUBSET Nat /\ A \subseteq DOMAIN ranges
  BY DEF Above
<1>3. node.to \in Int
  BY DEF Places
<1> HIDE DEF A
<1>4. CASE A = {}
  BY <1>1, <1>4 DEF A
<1>5. CASE A # {}
  <2>1. h \in A /\ \A k \in A : h <= k
    BY <1>2, <1>5, MinIn
  <2> DEFINE x == ranges[h]
  <2> HIDE DEF h
  <2>2. x \in RangeSet
    <3>1. h \in DOMAIN ranges
      BY <1>2, <2>1
    <3> QED
      BY <3>1
  <2>3. e \in Int
    BY <1>3, <2>2 DEF RangeSet
  <2> HIDE DEF e
  <2>4. r \in RangeSet /\ r.dir = x.dir /\ r.linters = x.linters /\ r.from = x.from /\ r.to = e
    BY <2>2, <2>3 DEF RangeSet
  <2> HIDE DEF r, x
  <2>5. <<r>> \in Seq(RangeSet)
    BY <2>4
  <2>6. /\ h \in Above(ranges, node) /\ \A k \in Above(ranges, node) : h <= k
        /\ ExpandedRange(ranges, node) = <<r>> /\ Above(ranges, node) # {}
    BY <1>1, <1>5, <2>1 DEF A
  <2>7. /\ r.dir = ranges[h].dir /\ r.linters = ranges[h].linters /\ r.from = ranges[h].from
        /\ r.to = IF ranges[h].to < node.to THEN node.to ELSE ranges[h].to
    BY <2>4 DEF x, e
  <2>8. h = Min(Above(ranges, node))
    BY DEF h, A
  <2> QED
    BY <2>4, <2>5, <2>6, <2>7, <2>8
<1> QED
  BY <1>4, <1>5

(* A range of a file is that of a directive, or of one and a node below.   *)
LEMMA IgnoredFact ==
    ASSUME NEW file \in Files, file.parses
    PROVE  LET ranges == IgnoredRanges(file)
               inline == InlineRanges(file.directives)
               nodes == file.nodes
           IN  /\ ranges \in Seq(RangeSet)
               /\ \A n \in DOMAIN ranges :
                     \/ \E k \in DOMAIN inline : ranges[n] = inline[k]
                     \/ \E p \in DOMAIN nodes : ExpandedRange(inline, nodes[p]) = <<ranges[n]>>
               /\ \A k \in DOMAIN inline : \E n \in DOMAIN ranges : ranges[n] = inline[k]
               /\ \A p \in DOMAIN nodes : \A r \in RangeSet :
                     ExpandedRange(inline, nodes[p]) = <<r>> => \E n \in DOMAIN ranges : ranges[n] = r
<1> DEFINE ranges == IgnoredRanges(file)
           inline == InlineRanges(file.directives)
           nodes == file.nodes
           ss == [p \in DOMAIN nodes |-> ExpandedRange(inline, nodes[p])]
           flat == FlattenSeq(ss)
<1>1. ranges = inline \o flat
  BY DEF IgnoredRanges
<1>2. file.directives \in Seq(Directives) /\ nodes \in Seq(Places)
  BY FileParts
<1>3. inline \in Seq(RangeSet)
  BY <1>2, InlineRangesFact
<1> HIDE DEF inline, nodes, ranges
<1>4. \A p \in DOMAIN nodes : nodes[p] \in Places
  BY <1>2
<1>5. \A p \in DOMAIN nodes : ExpandedRange(inline, nodes[p]) \in Seq(RangeSet)
  BY <1>3, <1>4, ExpandedFact
<1>6. ss \in Seq(Seq(RangeSet)) /\ DOMAIN ss = DOMAIN nodes
  BY <1>2, <1>5
<1>7. \A p \in DOMAIN nodes : ss[p] = ExpandedRange(inline, nodes[p])
  OBVIOUS
<1> HIDE DEF ss
<1>8. flat \in Seq(RangeSet)
  BY <1>6, FlattenFact
<1>9. \A n \in DOMAIN flat : \E p \in DOMAIN ss : \E j \in DOMAIN ss[p] : flat[n] = ss[p][j]
  BY <1>6, FlattenMember
<1>10. \A p \in DOMAIN ss : \A j \in DOMAIN ss[p] : \E n \in DOMAIN flat : flat[n] = ss[p][j]
  BY <1>6, FlattenHas
<1> HIDE DEF flat
<1>11. /\ ranges \in Seq(RangeSet) /\ Len(inline) \in Nat
       /\ DOMAIN inline = 1..Len(inline) /\ DOMAIN flat = 1..Len(flat) /\ Len(flat) \in Nat
       /\ DOMAIN ranges = 1..(Len(inline) + Len(flat))
       /\ \A m \in DOMAIN inline : m \in DOMAIN ranges /\ ranges[m] = inline[m]
       /\ \A m \in DOMAIN flat : Len(inline) + m \in DOMAIN ranges /\ ranges[Len(inline) + m] = flat[m]
  BY <1>1, <1>3, <1>8, ConcatFact
<1>12. \A n \in DOMAIN flat : \E p \in DOMAIN nodes : ExpandedRange(inline, nodes[p]) = <<flat[n]>>
  <2> SUFFICES ASSUME NEW n \in DOMAIN flat
               PROVE  \E p \in DOMAIN nodes : ExpandedRange(inline, nodes[p]) = <<flat[n]>>
    OBVIOUS
  <2>1. PICK p \in DOMAIN ss : \E j \in DOMAIN ss[p] : flat[n] = ss[p][j]
    BY <1>9
  <2>2. PICK j \in DOMAIN ss[p] : flat[n] = ss[p][j]
    BY <2>1
  <2>3. p \in DOMAIN nodes /\ ss[p] = ExpandedRange(inline, nodes[p])
    BY <1>6, <1>7
  <2>4. ss[p] = <<>> \/ \E r : ss[p] = <<r>>
    BY <1>3, <1>4, <2>3, ExpandedFact
  <2>5. PICK r : ss[p] = <<r>>
    BY <2>2, <2>4
  <2>6. flat[n] = r
    BY <2>2, <2>5
  <2> QED
    BY <2>3, <2>5, <2>6
<1>13. ASSUME NEW n \in DOMAIN ranges
       PROVE  \/ \E k \in DOMAIN inline : ranges[n] = inline[k]
              \/ \E p \in DOMAIN nodes : ExpandedRange(inline, nodes[p]) = <<ranges[n]>>
  <2>1. CASE n <= Len(inline)
    <3>1. n \in DOMAIN inline
      BY <1>11, <2>1
    <3> QED
      BY <1>11, <3>1
  <2>2. CASE ~(n <= Len(inline))
    <3> DEFINE m == n - Len(inline)
    <3>1. m \in DOMAIN flat /\ n = Len(inline) + m
      BY <1>11, <2>2
    <3> HIDE DEF m
    <3>2. ranges[n] = flat[m]
      BY <1>11, <3>1
    <3> QED
      BY <1>12, <3>1, <3>2
  <2> QED
    BY <2>1, <2>2
<1>14. ASSUME NEW p \in DOMAIN nodes, NEW r \in RangeSet, ExpandedRange(inline, nodes[p]) = <<r>>
       PROVE  \E n \in DOMAIN ranges : ranges[n] = r
  <2>1. ss[p] = <<r>> /\ p \in DOMAIN ss
    BY <1>6, <1>7, <1>14
  <2>2. 1 \in DOMAIN ss[p] /\ ss[p][1] = r
    BY <2>1
  <2>3. PICK n \in DOMAIN flat : flat[n] = r
    BY <1>10, <2>1, <2>2
  <2> QED
    BY <1>11, <2>3
<1> QED
  BY <1>11, <1>13, <1>14 DEF inline, nodes, ranges

(* What other directives hide is hidden without the directive k as well.   *)
LEMMA WithoutFact ==
    ASSUME NEW file \in Files, file.parses, NEW k \in DOMAIN file.directives,
           NEW n \in DOMAIN IgnoredRanges(file), IgnoredRanges(file)[n].dir # k,
           NEW rest, rest = [file EXCEPT !.directives = RemoveAt(@, k)]
    PROVE  \E m \in DOMAIN IgnoredRanges(rest) :
              /\ IgnoredRanges(rest)[m].linters = IgnoredRanges(file)[n].linters
              /\ IgnoredRanges(rest)[m].from = IgnoredRanges(file)[n].from
              /\ IgnoredRanges(rest)[m].to = IgnoredRanges(file)[n].to
<1> DEFINE ds == file.directives
           es == RemoveAt(ds, k)
           before == InlineRanges(ds)
           after == InlineRanges(es)
           nodes == file.nodes
           r == IgnoredRanges(file)[n]
           ranges == IgnoredRanges(rest)
           Gives(x) == \E m \in DOMAIN ranges :
                          ranges[m].linters = x.linters /\ ranges[m].from = x.from /\ ranges[m].to = x.to
<1>1. ds \in Seq(Directives) /\ nodes \in Seq(Places)
  BY FileParts
<1>2. /\ es \in Seq(Directives)
      /\ \A m \in DOMAIN ds \ {k} : MovedUp(m, k) \in DOMAIN es /\ es[MovedUp(m, k)] = ds[m]
      /\ \A m \in DOMAIN es : \E j \in DOMAIN ds \ {k} : m = MovedUp(j, k)
  BY <1>1, RemovedFact
<1>3. rest \in Files /\ rest.directives = es /\ rest.nodes = nodes /\ rest.parses
  BY <1>2, Zenon DEF Files
<1> HIDE DEF ds, es
<1>4. /\ before \in Seq(RangeSet) /\ DOMAIN before = DOMAIN ds
      /\ \A m \in DOMAIN ds : before[m] = [dir |-> m, linters |-> Hides(ds[m]), from |-> ds[m].group.from,
                                           to |-> ds[m].group.to, col |-> ds[m].group.col]
  BY <1>1, InlineRangesFact
<1>5. /\ after \in Seq(RangeSet) /\ DOMAIN after = DOMAIN es
      /\ \A m \in DOMAIN es : after[m] = [dir |-> m, linters |-> Hides(es[m]), from |-> es[m].group.from,
                                          to |-> es[m].group.to, col |-> es[m].group.col]
  BY <1>2, InlineRangesFact
<1> HIDE DEF before, after, nodes
<1>6. ASSUME NEW m \in DOMAIN before \ {k}
      PROVE  /\ MovedUp(m, k) \in DOMAIN after
             /\ after[MovedUp(m, k)].linters = before[m].linters /\ after[MovedUp(m, k)].from = before[m].from
             /\ after[MovedUp(m, k)].to = before[m].to /\ after[MovedUp(m, k)].col = before[m].col
  <2> DEFINE j == MovedUp(m, k)
  <2>1. j \in DOMAIN es /\ es[j] = ds[m] /\ m \in DOMAIN ds
    BY <1>2, <1>4
  <2> HIDE DEF j
  <2>2. /\ after[j] = [dir |-> j, linters |-> Hides(ds[m]), from |-> ds[m].group.from,
                       to |-> ds[m].group.to, col |-> ds[m].group.col]
        /\ before[m] = [dir |-> m, linters |-> Hides(ds[m]), from |-> ds[m].group.from,
                        to |-> ds[m].group.to, col |-> ds[m].group.col]
    BY <1>4, <1>5, <2>1
  <2>3. /\ after[j].linters = before[m].linters /\ after[j].from = before[m].from
        /\ after[j].to = before[m].to /\ after[j].col = before[m].col
    BY <2>2
  <2> QED
    BY <1>5, <2>1, <2>3 DEF j
<1>7. \A m \in DOMAIN before : before[m].dir = m
  BY <1>4
<1>8. /\ \E m \in DOMAIN before : r = before[m]
      \/ \E p \in DOMAIN nodes : ExpandedRange(before, nodes[p]) = <<r>>
  BY IgnoredFact DEF before, ds, nodes
<1>9. /\ \A m \in DOMAIN after : \E x \in DOMAIN ranges : ranges[x] = after[m]
      /\ \A p \in DOMAIN nodes : \A q \in RangeSet :
            ExpandedRange(after, nodes[p]) = <<q>> => \E x \in DOMAIN ranges : ranges[x] = q
  <2> DEFINE a == InlineRanges(rest.directives)
             w == rest.nodes
  <2>1. after = a /\ nodes = w
    BY <1>3 DEF after, nodes
  <2>2. /\ \A m \in DOMAIN a : \E x \in DOMAIN ranges : ranges[x] = a[m]
        /\ \A p \in DOMAIN w : \A q \in RangeSet :
              ExpandedRange(a, w[p]) = <<q>> => \E x \in DOMAIN ranges : ranges[x] = q
    BY <1>3, IgnoredFact
  <2> HIDE DEF a, w, ranges
  <2> QED
    BY <2>1, <2>2
<1>10. r.dir # k
  OBVIOUS
<1> HIDE DEF r, ranges
<1>11. CASE \E m \in DOMAIN before : r = before[m]
  <2>1. PICK m \in DOMAIN before : r = before[m]
    BY <1>11
  <2>2. m \in DOMAIN before \ {k}
    BY <1>7, <1>10, <2>1
  <2>3. PICK x \in DOMAIN ranges : ranges[x] = after[MovedUp(m, k)]
    BY <1>6, <1>9, <2>2
  <2>4. Gives(r)
    BY <1>6, <2>1, <2>2, <2>3
  <2> QED
    BY <2>4 DEF r, ranges
<1>12. CASE \E p \in DOMAIN nodes : ExpandedRange(before, nodes[p]) = <<r>>
  <2>1. PICK p \in DOMAIN nodes : ExpandedRange(before, nodes[p]) = <<r>>
    BY <1>12
  <2> DEFINE node == nodes[p]
             B == Above(before, node)
             C == Above(after, node)
             h == Min(B)
             g == Min(C)
  <2>2. node \in Places
    BY <1>1
  <2>3. /\ B # {} /\ h \in B /\ \A m \in B : h <= m
        /\ r.dir = before[h].dir /\ r.linters = before[h].linters /\ r.from = before[h].from
        /\ r.to = IF before[h].to < node.to THEN node.to ELSE before[h].to
    <3>1. B # {}
      <4>1. B = {} => ExpandedRange(before, node) = <<>>
        BY <1>4, <2>2, ExpandedFact
      <4> QED
        BY <2>1, <4>1
    <3>2. /\ h \in B /\ \A m \in B : h <= m
          /\ \E q \in RangeSet :
                /\ ExpandedRange(before, node) = <<q>>
                /\ q.dir = before[h].dir /\ q.linters = before[h].linters /\ q.from = before[h].from
                /\ q.to = IF before[h].to < node.to THEN node.to ELSE before[h].to
      BY <1>4, <2>2, <3>1, ExpandedFact
    <3> HIDE DEF h, B, node
    <3>3. PICK q \in RangeSet :
                /\ ExpandedRange(before, node) = <<q>>
                /\ q.dir = before[h].dir /\ q.linters = before[h].linters /\ q.from = before[h].from
                /\ q.to = IF before[h].to < node.to THEN node.to ELSE before[h].to
      BY <3>2
    <3>4. q = r
      <4>1. <<q>> = <<r>>
        BY <2>1, <3>3 DEF node
      <4> QED
        BY <4>1
    <3> QED
      BY <3>1, <3>2, <3>3, <3>4
  <2> HIDE DEF h
  <2>4. h \in DOMAIN before \ {k} /\ before[h].to = node.from - 1 /\ before[h].col = node.col
    BY <1>7, <1>10, <2>3 DEF Above
  <2>5. MovedUp(h, k) \in C
    BY <1>6, <2>4 DEF Above
  <2>6. g \in C /\ \A m \in C : g <= m
    <3>1. C # {}
      BY <2>5
    <3> QED
      BY <1>5, <2>2, <3>1, ExpandedFact
  <2> HIDE DEF g
  <2>7. g = MovedUp(h, k)
    <3>1. g \in DOMAIN es /\ after[g].to = node.from - 1 /\ after[g].col = node.col
      BY <1>5, <2>6 DEF Above
    <3>2. PICK m \in DOMAIN ds \ {k} : g = MovedUp(m, k)
      BY <1>2, <3>1
    <3>3. m \in B
      BY <1>4, <1>6, <3>1, <3>2 DEF Above
    <3>4. h <= m /\ g <= MovedUp(h, k)
      BY <2>3, <2>5, <2>6, <3>3
    <3>5. h \in Nat /\ m \in Nat /\ k \in Nat /\ h # k /\ m # k
      BY <1>1, <1>4, <2>4, <3>2 DEF ds
    <3> QED
      BY <3>2, <3>4, <3>5 DEF MovedUp
  <2>8. PICK q \in RangeSet :
            /\ ExpandedRange(after, node) = <<q>>
            /\ q.linters = after[g].linters /\ q.from = after[g].from
            /\ q.to = IF after[g].to < node.to THEN node.to ELSE after[g].to
    <3>1. C # {}
      BY <2>5
    <3> QED
      BY <1>5, <2>2, <3>1, ExpandedFact DEF g
  <2>9. q.linters = r.linters /\ q.from = r.from /\ q.to = r.to
    BY <1>6, <2>3, <2>4, <2>7, <2>8
  <2>10. PICK x \in DOMAIN ranges : ranges[x] = q
    BY <1>9, <2>8
  <2>11. Gives(r)
    BY <2>9, <2>10
  <2> QED
    BY <2>11 DEF r, ranges
<1> QED
  BY <1>8, <1>11, <1>12

(* The ranges in which i is hidden, and whether it is passed on.           *)
Hits(acc, i, src) ==
    LET ranges == IgnoredRanges(FileAt(src, i.path))
    IN  {k \in DOMAIN ranges : DoesMatch(ranges[k], i, acc.matched[FileOf(i.path)][ranges[k].dir])}

Disabled(i, enabled) == i.linter = "nolintlint" /\ i.expect \notin {None, ""} /\ i.expect \notin enabled

LetsPass(acc, i, src, enabled) == TypeCheck(i) \/ (~Disabled(i, enabled) /\ Hits(acc, i, src) = {})

Grows(old, new, src) ==
    \A f \in DOMAIN src : \A d \in DOMAIN src[f].directives : old.matched[f][d] \subseteq new.matched[f][d]

(* The directive that is told of i. *)
Told(acc, new, i, src) ==
    LET f == FileOf(i.path)
        ranges == IgnoredRanges(FileAt(src, i.path))
        h == Min(Hits(acc, i, src))
    IN  /\ h \in Hits(acc, i, src) /\ f \in DOMAIN src /\ ranges[h].dir \in DOMAIN src[f].directives
        /\ i.linter \in new.matched[f][ranges[h].dir]

LEMMA HideOneEffect ==
    ASSUME NEW s, NEW src, src \in [DOMAIN src -> Files], NEW enabled,
           NEW acc \in Accounts(s, src), NEW i \in IssueSet, NEW new, new = HideOne(acc, i, src, enabled)
    PROVE  /\ LetsPass(acc, i, src, enabled) => new.kept = Append(acc.kept, i)
           /\ ~LetsPass(acc, i, src, enabled) => new.kept = acc.kept
           /\ Grows(acc, new, src)
           /\ ~LetsPass(acc, i, src, enabled) /\ ~Disabled(i, enabled) => Told(acc, new, i, src)
<1> DEFINE file == FileAt(src, i.path)
           f == FileOf(i.path)
           ranges == IgnoredRanges(file)
           hits == {k \in DOMAIN ranges : DoesMatch(ranges[k], i, acc.matched[f][ranges[k].dir])}
           h == Min(hits)
           d == ranges[h].dir
           keep == [acc EXCEPT !.kept = Append(@, i)]
           M == {x \in IssueSet : \E k \in DOMAIN s : x = s[k]}
<1>1. /\ acc \in [kept : Seq(M), matched : [DOMAIN src -> Seq(SUBSET STRING)]]
      /\ \A g \in DOMAIN src : DOMAIN acc.matched[g] = DOMAIN src[g].directives
  BY Zenon DEF Accounts
<1>2. file \in Files /\ (f \in DOMAIN src => file = src[f]) /\ (f \notin DOMAIN src => ranges = <<>>)
  <2>1. f \in DOMAIN src => file = src[f] /\ file \in Files
    BY DEF FileAt
  <2>2. f \notin DOMAIN src => file = Missing
    BY DEF FileAt
  <2>3. Missing \in Files /\ IgnoredRanges(Missing) = <<>>
    BY DEF Missing, Files, IgnoredRanges
  <2> HIDE DEF f
  <2> QED
    BY <2>1, <2>2, <2>3
<1>3. ranges \in Seq(Extents(file))
  <2> HIDE DEF file
  <2> QED
    BY <1>2, RangesFact
<1>4. new = IF TypeCheck(i) THEN keep
            ELSE IF Disabled(i, enabled) THEN acc
            ELSE IF hits = {} THEN keep
            ELSE [acc EXCEPT !.matched[f][d] = @ \cup {i.linter}]
  BY DEF HideOne, Disabled
<1>5. hits = Hits(acc, i, src)
  BY DEF Hits
<1> HIDE DEF M
<1>6. keep.kept = Append(acc.kept, i) /\ keep.matched = acc.matched
  BY <1>1
<1>7. CASE LetsPass(acc, i, src, enabled)
  <2>1. new = keep
    BY <1>4, <1>5, <1>7 DEF LetsPass
  <2> HIDE DEF keep
  <2> QED
    BY <1>6, <1>7, <2>1 DEF Grows
<1>8. CASE ~LetsPass(acc, i, src, enabled) /\ Disabled(i, enabled)
  <2>1. new = acc
    BY <1>4, <1>8 DEF LetsPass
  <2> QED
    BY <1>8, <2>1 DEF Grows
<1>9. CASE ~LetsPass(acc, i, src, enabled) /\ ~Disabled(i, enabled)
  <2>1. ~TypeCheck(i) /\ hits # {}
    BY <1>5, <1>9 DEF LetsPass
  <2>2. new = [acc EXCEPT !.matched[f][d] = @ \cup {i.linter}]
    BY <1>4, <1>9, <2>1
  <2>3. h \in hits /\ h \in DOMAIN ranges
    <3>1. hits \in SUBSET Nat
      BY <1>3
    <3> HIDE DEF ranges
    <3> QED
      BY <2>1, <3>1, MinIn
  <2> HIDE DEF h
  <2>4. f \in DOMAIN src /\ file = src[f]
    <3>1. h \in DOMAIN ranges
      BY <2>3
    <3> HIDE DEF f, file, ranges
    <3>2. ranges # <<>>
      BY <3>1
    <3> QED
      BY <1>2, <3>2
  <2>5. d \in DOMAIN file.directives
    <3>1. ranges[h] \in Extents(file)
      <4> HIDE DEF ranges
      <4> QED
        BY <1>3, <2>3
    <3> HIDE DEF file
    <3> QED
      BY <3>1 DEF Extents
  <2> DEFINE g == f
             e == d
             x == acc.matched[g][e] \cup {i.linter}
             m == [acc.matched EXCEPT ![g] = [acc.matched[g] EXCEPT ![e] = x]]
  <2>6. new = [acc EXCEPT !.matched = m]
    BY <2>2
  <2>7. g \in DOMAIN src /\ e \in DOMAIN acc.matched[g] /\ acc.matched[g] \in Seq(SUBSET STRING)
    BY <1>1, <2>4, <2>5
  <2>8. acc.matched[g][e] \subseteq x /\ i.linter \in x
    OBVIOUS
  <2> HIDE DEF g, e, x
  <2>9. \A u \in DOMAIN src : \A v \in DOMAIN acc.matched[u] :
           m[u][v] = IF u = g /\ v = e THEN x ELSE acc.matched[u][v]
    BY <1>1, <2>7
  <2>10. new.kept = acc.kept /\ new.matched = m
    <3> HIDE DEF m
    <3> QED
      BY <1>1, <2>6
  <2> HIDE DEF m
  <2>11. Grows(acc, new, src)
    BY <1>1, <2>8, <2>9, <2>10 DEF Grows
  <2>12. i.linter \in new.matched[g][e]
    BY <2>7, <2>8, <2>9, <2>10
  <2>13. Told(acc, new, i, src)
    <3>1. h = Min(Hits(acc, i, src)) /\ h \in Hits(acc, i, src)
      BY <1>5, <2>3 DEF h
    <3>2. ranges[h].dir \in DOMAIN src[f].directives /\ i.linter \in new.matched[f][ranges[h].dir]
      BY <2>4, <2>5, <2>12 DEF g, e
    <3> QED
      BY <2>4, <3>1, <3>2 DEF Told
  <2> QED
    BY <1>9, <2>10, <2>11, <2>13
<1> QED
  BY <1>7, <1>8, <1>9

(* All that is passed on was passed on in some round, and what a directive *)
(* is told it does not forget.                                             *)
LEMMA NolintHistory ==
    ASSUME NEW s \in Seq(IssueSet), NEW src, src \in [DOMAIN src -> Files], NEW enabled \in SUBSET STRING,
           \A k \in DOMAIN s : s[k].expect # None => s[k].linter = "nolintlint"
    PROVE  LET order == NolintlintLast(s)
               N == Len(order)
               out == Nolint(s, src, enabled)
           IN  \E after \in [0..N -> Accounts(s, src)] :
                  /\ \A j \in DOMAIN out : \E k \in 1..N :
                        out[j] = order[k] /\ LetsPass(after[k - 1], order[k], src, enabled)
                  /\ \A k \in 1..N : LetsPass(after[k - 1], order[k], src, enabled) =>
                        \E j \in DOMAIN out : out[j] = order[k]
                  /\ \A k \in 1..N : ~LetsPass(after[k - 1], order[k], src, enabled) /\ ~Disabled(order[k], enabled) =>
                        Told(after[k - 1], after[k], order[k], src)
                  /\ \A j, k \in 0..N : j <= k => Grows(after[j], after[k], src)
<1> DEFINE order == NolintlintLast(s)
           N == Len(order)
           out == Nolint(s, src, enabled)
           M == {x \in IssueSet : \E k \in DOMAIN s : x = s[k]}
<1>1. N \in Nat /\ DOMAIN order = 1..N /\ order \in Seq(M)
  BY OrderFact
<1>2. PICK after \in [0..N -> Accounts(s, src)] :
          /\ out = after[N].kept /\ after[0].kept = <<>>
          /\ \A k \in 1..N : after[k] = HideOne(after[k - 1], order[k], src, enabled)
  BY NolintSteps
<1> HIDE DEF order, N, out
<1> DEFINE Passed0(k) == LetsPass(after[k - 1], order[k], src, enabled)
           In(x, q) == \E m \in DOMAIN q : q[m] = x
<1>3. \A k \in 0..N : after[k] \in Accounts(s, src) /\ after[k].kept \in Seq(M)
  <2>1. \A k \in 0..N : after[k] \in Accounts(s, src)
    BY <1>2
  <2>2. \A acc \in Accounts(s, src) : acc.kept \in Seq(M)
    BY DEF Accounts
  <2> QED
    BY <2>1, <2>2
<1>4. \A k \in 1..N : order[k] \in IssueSet
  BY <1>1 DEF M
<1> HIDE DEF M
<1>5. ASSUME NEW k \in 1..N
      PROVE  /\ Passed0(k) => after[k].kept = Append(after[k - 1].kept, order[k])
             /\ ~Passed0(k) => after[k].kept = after[k - 1].kept
             /\ Grows(after[k - 1], after[k], src)
             /\ ~Passed0(k) /\ ~Disabled(order[k], enabled) => Told(after[k - 1], after[k], order[k], src)
  <2>1. k - 1 \in 0..N /\ order[k] \in IssueSet /\ after[k] = HideOne(after[k - 1], order[k], src, enabled)
    BY <1>1, <1>2, <1>4
  <2>2. after[k - 1] \in Accounts(s, src)
    BY <1>3, <2>1
  <2> QED
    BY <2>1, <2>2, HideOneEffect
<1> HIDE DEF Passed0
<1> DEFINE U == {k \in 0..N : /\ \A x : In(x, after[k].kept) => \E j \in 1..k : x = order[j] /\ Passed0(j)
                              /\ \A j \in 1..k : Passed0(j) => In(order[j], after[k].kept)}
<1>6. 0 \in U
  <2>1. 0 \in 0..N
    BY <1>1
  <2>2. after[0].kept = <<>>
    BY <1>2
  <2>3. \A x : ~In(x, after[0].kept)
    BY <2>2
  <2>4. \A j \in 1..0 : FALSE
    OBVIOUS
  <2> HIDE DEF In
  <2> QED
    BY <2>1, <2>3, <2>4
<1>7. \A k \in 1..N : k - 1 \in U => k \in U
  <2> SUFFICES ASSUME NEW k \in 1..N, k - 1 \in U
               PROVE  k \in U
    OBVIOUS
  <2> DEFINE old == after[k - 1].kept
             new == after[k].kept
  <2>1. k \in 0..N /\ k - 1 \in 0..N /\ k \in 1..k /\ \A j \in 1..k : j = k \/ j \in 1..(k - 1)
    BY <1>1
  <2>2. \A j \in 1..(k - 1) : j \in 1..k
    BY <1>1
  <2>3. /\ \A x : In(x, old) => \E j \in 1..(k - 1) : x = order[j] /\ Passed0(j)
        /\ \A j \in 1..(k - 1) : Passed0(j) => In(order[j], old)
    <3> HIDE DEF In
    <3> QED
      OBVIOUS
  <2>4. /\ \A x : In(x, old) => In(x, new)
        /\ Passed0(k) => In(order[k], new)
        /\ \A x : In(x, new) => In(x, old) \/ (x = order[k] /\ Passed0(k))
    <3>1. old \in Seq(M)
      BY <1>3, <2>1
    <3>2. CASE Passed0(k)
      <4>1. new = Append(old, order[k])
        BY <1>5, <3>2
      <4>2. /\ \A m \in DOMAIN old : m \in DOMAIN new /\ new[m] = old[m]
            /\ Len(old) + 1 \in DOMAIN new /\ new[Len(old) + 1] = order[k]
            /\ \A m \in DOMAIN new : m \in DOMAIN old \/ m = Len(old) + 1
        <5> HIDE DEF old, new
        <5> QED
          BY <3>1, <4>1
      <4> HIDE DEF old, new
      <4> QED
        BY <3>2, <4>2
    <3>3. CASE ~Passed0(k)
      <4>1. new = old
        BY <1>5, <3>3
      <4> HIDE DEF old, new
      <4> QED
        BY <3>3, <4>1
    <3> QED
      BY <3>2, <3>3
  <2> HIDE DEF In, old
  <2>5. ASSUME NEW x, In(x, new)
        PROVE  \E j \in 1..k : x = order[j] /\ Passed0(j)
    BY <2>1, <2>2, <2>3, <2>4, <2>5
  <2>6. ASSUME NEW j \in 1..k, Passed0(j)
        PROVE  In(order[j], new)
    BY <2>1, <2>3, <2>4, <2>6
  <2> QED
    BY <2>1, <2>5, <2>6
<1>8. N \in U
  <2> HIDE DEF U
  <2>1. \A k \in 0..N : k \in U
    BY <1>1, <1>6, <1>7, Induct
  <2>2. N \in 0..N
    BY <1>1
  <2> QED
    BY <2>1, <2>2
<1>9. ASSUME NEW j \in 0..N
      PROVE  \A k \in 0..N : j <= k => Grows(after[j], after[k], src)
  <2> DEFINE G == {k \in 0..N : j <= k => Grows(after[j], after[k], src)}
  <2>1. 0 \in G
    <3>1. 0 \in 0..N /\ (j <= 0 => j = 0)
      BY <1>1
    <3>2. Grows(after[0], after[0], src)
      BY DEF Grows
    <3> QED
      BY <3>1, <3>2
  <2>2. \A k \in 1..N : k - 1 \in G => k \in G
    <3> SUFFICES ASSUME NEW k \in 1..N, k - 1 \in G, j <= k
                 PROVE  k \in 0..N /\ Grows(after[j], after[k], src)
      OBVIOUS
    <3>1. k \in 0..N /\ (j = k \/ j <= k - 1)
      BY <1>1
    <3>2. CASE j = k
      BY <3>1, <3>2 DEF Grows
    <3>3. CASE j <= k - 1
      <4>1. Grows(after[j], after[k - 1], src) /\ Grows(after[k - 1], after[k], src)
        BY <1>5, <3>3
      <4> QED
        BY <3>1, <4>1 DEF Grows
    <3> QED
      BY <3>1, <3>2, <3>3
  <2> HIDE DEF G
  <2>3. \A k \in 0..N : k \in G
    BY <1>1, <2>1, <2>2, Induct
  <2> QED
    BY <2>3 DEF G
<1>10. ASSUME NEW j \in DOMAIN out
       PROVE  \E k \in 1..N : out[j] = order[k] /\ Passed0(k)
  <2>1. out = after[N].kept
    BY <1>2
  <2>2. In(out[j], out)
    OBVIOUS
  <2> HIDE DEF In
  <2> QED
    BY <1>8, <2>1, <2>2
<1>11. \A k \in 1..N : Passed0(k) => \E j \in DOMAIN out : out[j] = order[k]
  <2>1. out = after[N].kept
    BY <1>2
  <2>2. \A k \in 1..N : Passed0(k) => In(order[k], after[N].kept)
    <3> HIDE DEF In
    <3> QED
      BY <1>8
  <2> QED
    BY <2>1, <2>2
<1> QED
  BY <1>2, <1>5, <1>9, <1>10, <1>11 DEF order, N, out, Passed0

-----------------------------------------------------------------------------
(* Without a directive that is called unused.                              *)

(* A range hides an issue of the code whatever it has hidden before.       *)
Covers(r, x) ==
    /\ r.from <= x.line /\ x.line <= r.to
    /\ r.linters = <<>> \/ \E k \in DOMAIN r.linters : r.linters[k] = x.linter

LEMMA CodeHits ==
    ASSUME NEW acc, NEW src, NEW x, x.linter # "nolintlint"
    PROVE  LET ranges == IgnoredRanges(FileAt(src, x.path))
           IN  Hits(acc, x, src) = {n \in DOMAIN ranges : Covers(ranges[n], x)}
<1>1. \A r, m : DoesMatch(r, x, m) <=> Covers(r, x)
  BY DEF DoesMatch, Covers
<1> QED
  BY <1>1 DEF Hits

LEMMA WithoutTyped ==
    ASSUME NEW src, src \in [DOMAIN src -> Files], NEW f \in DOMAIN src, NEW k \in DOMAIN src[f].directives,
           NEW rest, rest = Without(src, f, k)
    PROVE  /\ DOMAIN rest = DOMAIN src /\ rest \in [DOMAIN rest -> Files]
           /\ \A g \in DOMAIN src \ {f} : rest[g] = src[g]
           /\ rest[f] = [src[f] EXCEPT !.directives = RemoveAt(@, k)]
<1> DEFINE ds == RemoveAt(src[f].directives, k)
           file == [src[f] EXCEPT !.directives = ds]
<1>1. src[f] \in Files /\ src[f].directives \in Seq(Directives)
  BY FileParts
<1>2. ds \in Seq(Directives)
  BY <1>1, RemovedFact
<1>3. rest = [src EXCEPT ![f] = file]
  BY DEF Without
<1> HIDE DEF ds
<1>4. file \in Files
  BY <1>1, <1>2 DEF Files
<1>5. file = [src[f] EXCEPT !.directives = RemoveAt(@, k)]
  BY DEF ds
<1> HIDE DEF file
<1> QED
  BY <1>3, <1>4, <1>5

(* Where an issue of the code is hidden with the directive k of f, and not *)
(* without it, it is k that hides it.                                      *)
LEMMA WithoutHides ==
    ASSUME NEW src, src \in [DOMAIN src -> Files], NEW f \in DOMAIN src, NEW k \in DOMAIN src[f].directives,
           NEW x, x.linter # "nolintlint", NEW acc, NEW acc2,
           Hits(acc2, x, Without(src, f, k)) = {}, NEW n \in Hits(acc, x, src)
    PROVE  /\ FileOf(x.path) = f /\ src[f].parses /\ n \in DOMAIN IgnoredRanges(src[f])
           /\ Covers(IgnoredRanges(src[f])[n], x) /\ IgnoredRanges(src[f])[n].dir = k
<1> DEFINE rest == Without(src, f, k)
           g == FileOf(x.path)
<1>1. /\ DOMAIN rest = DOMAIN src /\ \A h \in DOMAIN src \ {f} : rest[h] = src[h]
      /\ rest[f] = [src[f] EXCEPT !.directives = RemoveAt(@, k)]
  BY WithoutTyped
<1>2. /\ n \in DOMAIN IgnoredRanges(FileAt(src, x.path)) /\ Covers(IgnoredRanges(FileAt(src, x.path))[n], x)
      /\ \A m \in DOMAIN IgnoredRanges(FileAt(rest, x.path)) : ~Covers(IgnoredRanges(FileAt(rest, x.path))[m], x)
  BY CodeHits
<1> HIDE DEF rest
<1>3. g = f
  <2>1. g # f => FileAt(rest, x.path) = FileAt(src, x.path)
    BY <1>1 DEF FileAt
  <2> QED
    BY <1>2, <2>1
<1>4. FileAt(src, x.path) = src[f] /\ FileAt(rest, x.path) = rest[f]
  BY <1>1, <1>3 DEF FileAt
<1>5. src[f] \in Files /\ src[f].parses
  <2>1. ~src[f].parses => IgnoredRanges(src[f]) = <<>>
    BY DEF IgnoredRanges
  <2>2. IgnoredRanges(src[f]) # <<>>
    BY <1>2, <1>4
  <2> QED
    BY <2>1, <2>2
<1>6. n \in DOMAIN IgnoredRanges(src[f]) /\ Covers(IgnoredRanges(src[f])[n], x)
  BY <1>2, <1>4
<1>7. IgnoredRanges(src[f])[n].dir = k
  <2> SUFFICES ASSUME IgnoredRanges(src[f])[n].dir # k
               PROVE  FALSE
    OBVIOUS
  <2>1. PICK m \in DOMAIN IgnoredRanges(rest[f]) :
           /\ IgnoredRanges(rest[f])[m].linters = IgnoredRanges(src[f])[n].linters
           /\ IgnoredRanges(rest[f])[m].from = IgnoredRanges(src[f])[n].from
           /\ IgnoredRanges(rest[f])[m].to = IgnoredRanges(src[f])[n].to
    BY <1>1, <1>5, <1>6, WithoutFact
  <2>2. Covers(IgnoredRanges(rest[f])[m], x)
    BY <1>6, <2>1 DEF Covers
  <2> QED
    BY <1>2, <1>4, <2>2
<1> QED
  BY <1>3, <1>5, <1>6, <1>7

(* A directive with the one name of an enabled linter hides that linter.   *)
LEMMA HidesOne ==
    ASSUME NEW enabled, OwnNames(enabled), NEW e \in STRING, e \in enabled, e # "all",
           NEW d, d.full, d.names = <<e>>
    PROVE  Hides(d) \in Seq({e}) \ {<<>>}
<1> DEFINE q == IF e \in DOMAIN LinterConfigs THEN LinterConfigs[e] ELSE <<e>>
           ss == <<q>>
           name(j) == Lower(d.names[j])
           known == [j \in DOMAIN d.names |-> IF name(j) \in DOMAIN LinterConfigs THEN LinterConfigs[name(j)] ELSE <<name(j)>>]
<1>1. DOMAIN d.names = {1} /\ d.names[1] = e /\ d.names # <<>>
  OBVIOUS
<1>2. Lower(e) = e /\ q \in Seq({e}) /\ q # <<>>
  <2>1. <<e>> \in Seq({e}) /\ <<e>> # <<>>
    OBVIOUS
  <2> QED
    BY <2>1 DEF OwnNames
<1>3. name(1) = e
  BY <1>1, <1>2
<1>4. Hides(d) = FlattenSeq(known)
  BY <1>1, <1>3 DEF Hides
<1>5. known = ss
  <2>1. known[1] = q
    BY <1>1, <1>2, <1>3
  <2>2. DOMAIN known = {1} /\ known = [j \in {1} |-> known[j]]
    BY <1>1
  <2> HIDE DEF known, q
  <2>3. ss = [j \in {1} |-> q]
    OBVIOUS
  <2> QED
    BY <2>1, <2>2, <2>3
<1> HIDE DEF known, q
<1>6. ss \in Seq(Seq({e})) /\ ss # <<>> /\ Len(ss) = 1 /\ ss[1] = q
  BY <1>2
<1> HIDE DEF ss
<1>7. FlattenSeq(ss) = q
  <2>1. PICK flat \in [1..Len(ss) -> Seq({e})] :
           /\ FlattenSeq(ss) = flat[Len(ss)]
           /\ \A j \in 1..Len(ss) : flat[j] = IF j = 1 THEN ss[j] ELSE flat[j - 1] \o ss[j]
    BY <1>6, FlattenSteps
  <2>2. 1 \in 1..Len(ss)
    BY <1>6
  <2> QED
    BY <1>6, <2>1, <2>2
<1> QED
  BY <1>2, <1>4, <1>5, <1>7

(* What is said of a directive is said at its place, in the words of the   *)
(* directive.                                                              *)
FromDirective(i, src) ==
    LET file == src[FileOf(i.path)]
    IN  i.expect # None =>
           /\ i.linter = "nolintlint" /\ i.path # None
           /\ FileOf(i.path) \in DOMAIN src /\ file.parses /\ file.directives # <<>>
           /\ \A k \in DOMAIN file.directives : LET d == file.directives[k] IN
                 d.line = i.line /\ d.col = i.col =>
                    d.full /\ IF Named(d) = <<>> THEN i.expect = "" ELSE i.expect \in Range(Named(d))

(* What is said of a directive is passed on only if the directive has not  *)
(* hidden what it names.                                                   *)
LEMMA SaidInVain ==
    ASSUME NEW src, src \in [DOMAIN src -> Files], PlacedDirectives(src), NEW enabled, NEW acc,
           NEW i, i.expect # None, FromDirective(i, src), LetsPass(acc, i, src, enabled),
           NEW k \in DOMAIN src[FileOf(i.path)].directives,
           src[FileOf(i.path)].directives[k].line = i.line
    PROVE  /\ i.expect = "" => acc.matched[FileOf(i.path)][k] = {}
           /\ i.expect # "" => i.expect \in enabled /\ i.expect \notin acc.matched[FileOf(i.path)][k]
<1> DEFINE f == FileOf(i.path)
           ds == src[f].directives
           ranges == IgnoredRanges(src[f])
           told == acc.matched[f][k]
<1>1. i.linter = "nolintlint" /\ f \in DOMAIN src /\ src[f].parses /\ src[f] \in Files
  BY DEF FromDirective
<1>2. ds \in Seq(Directives) /\ k \in DOMAIN ds
  BY <1>1, FileParts
<1>3. FileAt(src, i.path) = src[f]
  BY <1>1 DEF FileAt
<1>4. ds[k].group.from <= i.line /\ i.line <= ds[k].group.to
  BY <1>1 DEF PlacedDirectives
<1>5. /\ InlineRanges(ds)[k].dir = k /\ InlineRanges(ds)[k].from = ds[k].group.from
      /\ InlineRanges(ds)[k].to = ds[k].group.to /\ k \in DOMAIN InlineRanges(ds)
  <2> HIDE DEF ds
  <2> DEFINE group == ds[k].group
  <2>1. /\ DOMAIN InlineRanges(ds) = DOMAIN ds
        /\ InlineRanges(ds)[k] = [dir |-> k, linters |-> Hides(ds[k]), from |-> group.from, to |-> group.to, col |-> group.col]
    BY <1>2, InlineRangesFact
  <2> HIDE DEF group
  <2>2. /\ InlineRanges(ds)[k].dir = k /\ InlineRanges(ds)[k].from = group.from
        /\ InlineRanges(ds)[k].to = group.to
    BY <2>1
  <2> QED
    BY <1>2, <2>1, <2>2 DEF group
<1>6. PICK n \in DOMAIN ranges : ranges[n] = InlineRanges(ds)[k]
  BY <1>1, <1>5, IgnoredFact
<1>7. ~Disabled(i, enabled) /\ Hits(acc, i, src) = {}
  BY <1>1 DEF LetsPass, TypeCheck
<1> HIDE DEF ds, f, ranges
<1>8. ~DoesMatch(ranges[n], i, told)
  <2>1. n \in DOMAIN IgnoredRanges(FileAt(src, i.path)) /\ IgnoredRanges(FileAt(src, i.path)) = ranges
    BY <1>3, <1>6 DEF ranges
  <2>2. ~DoesMatch(ranges[n], i, acc.matched[FileOf(i.path)][ranges[n].dir])
    BY <1>7, <2>1 DEF Hits
  <2>3. acc.matched[FileOf(i.path)][ranges[n].dir] = told
    BY <1>5, <1>6 DEF f
  <2> QED
    BY <2>2, <2>3
<1>9. ~(IF i.expect # "" THEN i.expect \in told ELSE told # {})
  BY <1>1, <1>4, <1>5, <1>6, <1>8 DEF DoesMatch
<1>10. i.expect # "" => i.expect \in enabled
  BY <1>1, <1>7 DEF Disabled
<1> QED
  BY <1>9, <1>10 DEF f

NamesOne(d) == Named(d) # <<>> /\ Len(Named(d)) <= 1

LEMMA RangeOf ==
    ASSUME NEW file \in Files, NEW n \in DOMAIN IgnoredRanges(file)
    PROVE  LET r == IgnoredRanges(file)[n]
           IN  r.dir \in DOMAIN file.directives /\ r.linters = Hides(file.directives[r.dir])
<1> DEFINE ranges == IgnoredRanges(file)
           E == Extents(file)
<1>1. ranges \in Seq(E) /\ n \in DOMAIN ranges
  BY RangesFact
<1>2. ranges[n] \in E
  <2> HIDE DEF ranges, E
  <2> QED
    BY <1>1
<1> QED
  BY <1>2 DEF Extents

(* A directive with at most one name that has hidden an issue has hidden   *)
(* what it names.                                                          *)
LEMMA NameIsHidden ==
    ASSUME NEW enabled, OwnNames(enabled), NEW e \in STRING, e \in enabled,
           NEW d \in Directives, d.full, NamesOne(d), e \in Range(Named(d)),
           NEW r, r.linters = Hides(d), NEW x, Covers(r, x)
    PROVE  x.linter = e
<1> DEFINE names == d.names
           ls == r.linters
<1>1. names \in Seq(STRING)
  BY DEF Directives
<1>2. Named(d) = names /\ names[1] # "all"
  BY DEF Named, NamesOne
<1>3. names # <<>> /\ e \in Range(names) /\ Len(names) <= 1
  BY <1>2 DEF NamesOne
<1> HIDE DEF names
<1>4. PICK m \in DOMAIN names : names[m] = e
  BY <1>3 DEF Range
<1>5. DOMAIN names = 1..Len(names) /\ Len(names) \in Nat
  BY <1>1
<1>6. Len(names) = 1 /\ m = 1
  BY <1>3, <1>4, <1>5
<1>7. names = << e >>
  BY <1>1, <1>4, <1>6
<1>8. Hides(d) \in Seq({e}) /\ Hides(d) # <<>>
  BY <1>2, <1>4, <1>6, <1>7, HidesOne DEF names
<1>9. ls \in Seq({e}) /\ (ls = <<>> \/ \E l \in DOMAIN ls : ls[l] = x.linter)
  BY <1>8 DEF Covers
<1>10. ls # <<>>
  BY <1>8
<1> HIDE DEF ls
<1>11. \A l \in DOMAIN ls : ls[l] = e
  BY <1>9
<1> QED
  BY <1>9, <1>10, <1>11

LEMMA NolintHarmless ==
    ASSUME NEW s \in Seq(IssueSet), NEW src, src \in [DOMAIN src -> Files], NEW enabled \in SUBSET STRING,
           \A k \in DOMAIN s : s[k].expect # None => s[k].linter = "nolintlint",
           \A k \in DOMAIN s : FromDirective(s[k], src),
           PlacedDirectives(src), OwnNames(enabled)
    PROVE  RemovalIsHarmless(s, src, enabled)
<1> DEFINE order == NolintlintLast(s)
           N == Len(order)
           out(t) == Nolint(s, t, enabled)
<1> SUFFICES ASSUME NEW i \in Range(out(src)), NEW k \in DOMAIN FileAt(src, i.path).directives, i.expect # None,
                    FileAt(src, i.path).directives[k].line = i.line, FileAt(src, i.path).directives[k].col = i.col,
                    Len(Named(FileAt(src, i.path).directives[k])) <= 1,
                    NEW x \in Range(out(Without(src, FileOf(i.path), k))), x.linter # "nolintlint"
             PROVE  x \in Range(out(src))
  <2> HIDE DEF out
  <2> QED
    BY DEF RemovalIsHarmless, out
<1> DEFINE f == FileOf(i.path)
           rest == Without(src, f, k)
<1>1. N \in Nat /\ \A j \in 1..N : order[j] \in IssueSet /\ \E n \in DOMAIN s : order[j] = s[n]
  <2>1. N \in Nat /\ DOMAIN order = 1..N /\ \A j \in DOMAIN order : \E n \in DOMAIN s : order[j] = s[n]
    BY OrderFact
  <2> HIDE DEF order
  <2>2. \A n \in DOMAIN s : s[n] \in IssueSet
    OBVIOUS
  <2> QED
    BY <2>1, <2>2
<1>2. PICK c \in Nat : \A j \in 1..N : order[j].linter = "nolintlint" <=> j > c
  BY OrderFact
<1>3. PICK after \in [0..N -> Accounts(s, src)] :
        /\ \A j \in DOMAIN out(src) : \E n \in 1..N :
              out(src)[j] = order[n] /\ LetsPass(after[n - 1], order[n], src, enabled)
        /\ \A n \in 1..N : LetsPass(after[n - 1], order[n], src, enabled) =>
              \E j \in DOMAIN out(src) : out(src)[j] = order[n]
        /\ \A n \in 1..N : ~LetsPass(after[n - 1], order[n], src, enabled) /\ ~Disabled(order[n], enabled) =>
              Told(after[n - 1], after[n], order[n], src)
        /\ \A j, n \in 0..N : j <= n => Grows(after[j], after[n], src)
  BY NolintHistory
<1>4. PICK p \in 1..N : i = order[p] /\ LetsPass(after[p - 1], i, src, enabled)
  <2>1. PICK j \in DOMAIN out(src) : i = out(src)[j]
    BY DEF Range
  <2> HIDE DEF out, order, N
  <2> QED
    BY <1>3, <2>1
<1>5. i \in IssueSet /\ FromDirective(i, src)
  BY <1>1, <1>4
<1>6. f \in DOMAIN src /\ src[f] = FileAt(src, i.path) /\ k \in DOMAIN src[f].directives
  BY <1>5 DEF FromDirective, FileAt
<1>7. rest \in [DOMAIN rest -> Files]
  BY <1>6, WithoutTyped
<1>8. PICK q \in 1..N : x = order[q] /\ \E acc : LetsPass(acc, x, rest, enabled)
  <2> HIDE DEF rest
  <2>1. PICK after2 \in [0..N -> Accounts(s, rest)] :
          \A j \in DOMAIN out(rest) : \E n \in 1..N :
              out(rest)[j] = order[n] /\ LetsPass(after2[n - 1], order[n], rest, enabled)
    BY <1>7, NolintHistory
  <2>2. PICK j \in DOMAIN out(rest) : x = out(rest)[j]
    BY DEF Range, rest
  <2> HIDE DEF out, order, N
  <2> QED
    BY <2>1, <2>2
<1>9. PICK acc2 : LetsPass(acc2, x, rest, enabled)
  BY <1>8
<1> SUFFICES ASSUME ~LetsPass(after[q - 1], x, src, enabled)
             PROVE  FALSE
  <2>1. LetsPass(after[q - 1], order[q], src, enabled) => \E j \in DOMAIN out(src) : out(src)[j] = x
    BY <1>3, <1>8
  <2> HIDE DEF out, order, N
  <2> QED
    BY <1>8, <2>1 DEF Range
<1> HIDE DEF order, N, out
<1>10. ~TypeCheck(x) /\ ~Disabled(x, enabled)
  BY DEF LetsPass, Disabled
<1>11. Told(after[q - 1], after[q], x, src)
  BY <1>3, <1>8, <1>10
<1>12. Hits(acc2, x, rest) = {}
  BY <1>9, <1>10 DEF LetsPass
<1> DEFINE h == Min(Hits(after[q - 1], x, src))
<1>13. h \in Hits(after[q - 1], x, src) /\ x.linter \in after[q].matched[FileOf(x.path)][IgnoredRanges(FileAt(src, x.path))[h].dir]
  BY <1>11, Zenon DEF Told
<1> HIDE DEF h
<1>14. /\ FileOf(x.path) = f /\ h \in DOMAIN IgnoredRanges(src[f])
       /\ Covers(IgnoredRanges(src[f])[h], x) /\ IgnoredRanges(src[f])[h].dir = k
  BY <1>6, <1>12, <1>13, WithoutHides
<1>15. x.linter \in after[q].matched[f][k]
  BY <1>6, <1>13, <1>14 DEF FileAt
<1>16. q <= p - 1 /\ q \in 0..N /\ p - 1 \in 0..N
  <2>1. i.linter = "nolintlint"
    BY <1>5 DEF FromDirective
  <2> QED
    BY <1>1, <1>2, <1>4, <1>8, <2>1
<1>17. x.linter \in after[p - 1].matched[f][k]
  BY <1>3, <1>6, <1>15, <1>16 DEF Grows
<1>18. /\ i.expect = "" => after[p - 1].matched[f][k] = {}
       /\ i.expect # "" => i.expect \in enabled /\ i.expect \notin after[p - 1].matched[f][k]
  <2>1. src[f].directives[k].line = i.line
    BY <1>6
  <2> QED
    BY <1>4, <1>5, <1>6, <2>1, SaidInVain
<1>19. i.expect # "" /\ i.expect \in STRING
  BY <1>5, <1>17, <1>18 DEF IssueSet
<1> DEFINE d == src[f].directives[k]
           r == IgnoredRanges(src[f])[h]
<1>20. d \in Directives /\ r.linters = Hides(d) /\ Covers(r, x)
  BY <1>6, <1>14, FileParts, RangeOf
<1>21. d.full /\ i.expect \in Range(Named(d)) /\ NamesOne(d)
  BY <1>5, <1>6, <1>19 DEF FromDirective, NamesOne
<1> HIDE DEF d, r
<1>22. x.linter = i.expect
  <2> DEFINE e == i.expect
  <2>1. e \in STRING /\ e \in enabled /\ e \in Range(Named(d))
    BY <1>18, <1>19, <1>21
  <2> HIDE DEF e
  <2>2. x.linter = e
    BY <1>20, <1>21, <2>1, NameIsHidden
  <2> QED
    BY <2>2 DEF e
<1> QED
  BY <1>17, <1>18, <1>19, <1>22

-----------------------------------------------------------------------------
(* The fixer.                                                              *)

(* The issues of q, perhaps with other replacements.                       *)
Refits(q) ==
    {r \in IssueSet : r.replacement # None /\ \E k \in DOMAIN q : r = [q[k] EXCEPT !.replacement = r.replacement]}

LEMMA PartOfLine ==
    ASSUME NEW T, NEW s \in Seq(T), NEW m \in Int, NEW n \in Int, m >= 1, n <= Len(s)
    PROVE  SubSeq(s, m, n) \in Seq(T)
<1>1. \A k \in m..n : s[k] \in T
  OBVIOUS
<1> QED
  BY <1>1, SubSeqProperties

LEMMA ReplacementParts ==
    ASSUME NEW x \in Replacements
    PROVE  /\ x.lines \in Seq(Chars)
           /\ x.inline # None => x.inline.start \in Int /\ x.inline.len \in Int /\ x.inline.new \in Chars
<1>1. x.lines \in Seq(Chars) /\ x.inline \in {None} \cup InlineFixes
  BY Zenon DEF Replacements
<1>2. \A y \in InlineFixes : y.start \in Int /\ y.len \in Int /\ y.new \in Chars
  BY Zenon DEF InlineFixes
<1> QED
  BY <1>1, <1>2

LEMMA RefitFact ==
    ASSUME NEW q \in Seq(IssueSet), NEW k \in DOMAIN q, NEW x \in Replacements
    PROVE  [q[k] EXCEPT !.replacement = x] \in Refits(q)
<1> DEFINE i == q[k]
           r == [i EXCEPT !.replacement = x]
<1>1. i \in IssueSet
  OBVIOUS
<1>2. x # None
  BY NoneAssumption
<1> HIDE DEF i
<1>3. r \in IssueSet /\ r.replacement = x
  BY <1>1 DEF IssueSet
<1> QED
  BY <1>2, <1>3 DEF Refits, i

LEMMA SelfRefit ==
    ASSUME NEW q \in Seq(IssueSet), \A k \in DOMAIN q : q[k].replacement # None
    PROVE  /\ q \in Seq(Refits(q))
           /\ \A k \in DOMAIN q : q[k].replacement \in Replacements
<1>1. ASSUME NEW k \in DOMAIN q
      PROVE  q[k] \in Refits(q) /\ q[k].replacement \in Replacements
  <2> DEFINE i == q[k]
  <2>1. i \in IssueSet /\ i.replacement # None
    OBVIOUS
  <2> HIDE DEF i
  <2>2. i.replacement \in Replacements
    BY <2>1 DEF IssueSet
  <2>3. i = [i EXCEPT !.replacement = i.replacement]
    BY <2>1 DEF IssueSet
  <2>4. [i EXCEPT !.replacement = i.replacement] \in Refits(q)
    BY <2>2, RefitFact DEF i
  <2>5. i \in Refits(q)
    BY <2>3, <2>4
  <2> QED
    BY <2>2, <2>5 DEF i
<1>2. q \in Seq(Refits(q))
  BY <1>1
<1> QED
  BY <1>1, <1>2

(* Fixes of one line that are in it are put together to a new line.        *)
LEMMA InlineFact ==
    ASSUME NEW q \in Seq(IssueSet), q # <<>>, NEW line \in Chars,
           \A k \in DOMAIN q : q[k].replacement # None /\ ~NotInline(q[k]) /\ ~InvalidInline(q[k], line)
    PROVE  ApplyInlineFixes(q, line) = None \/ ApplyInlineFixes(q, line) \in Refits(q)
<1> DEFINE inline(k) == q[k].replacement.inline
           rank == [k \in DOMAIN q |-> inline(k).start]
           order == InOrder(DOMAIN q, rank)
           fix(n) == inline(order[n])
           end(n) == IF n = 0 THEN 0 ELSE fix(n).start + fix(n).len
           piece(n) == SubSeq(line, end(n - 1) + 1, fix(n).start) \o fix(n).new
           pieces == [n \in DOMAIN order |-> piece(n)]
           new == FlattenSeq(pieces) \o SubSeq(line, end(Len(order)) + 1, Len(line))
           Crossing == \E j, k \in DOMAIN q : /\ j # k /\ inline(j).start <= inline(k).start
                                              /\ inline(k).start < inline(j).start + inline(j).len
<1>1. ApplyInlineFixes(q, line) = IF Crossing THEN None
                                  ELSE [q[order[1]] EXCEPT !.replacement = NewLines(<<new>>)]
  BY DEF ApplyInlineFixes
<1>2. ASSUME NEW k \in DOMAIN q
      PROVE  /\ inline(k).start \in Int /\ inline(k).len \in Int /\ inline(k).new \in Chars
             /\ 0 <= inline(k).start /\ 0 < inline(k).len /\ inline(k).start + inline(k).len <= Len(line)
  <2>1. q[k].replacement \in Replacements
    BY SelfRefit
  <2>2. q[k].replacement.inline # None
    BY DEF NotInline
  <2>3. inline(k).start \in Int /\ inline(k).len \in Int /\ inline(k).new \in Chars
    BY <2>1, <2>2, ReplacementParts
  <2>4. ~(inline(k).start < 0) /\ ~(inline(k).len <= 0) /\ ~(inline(k).start + inline(k).len > Len(line))
    BY DEF InvalidInline
  <2>5. Len(line) \in Int
    BY DEF Chars
  <2> HIDE DEF inline
  <2> QED
    BY <2>3, <2>4, <2>5
<1>3. ASSUME ~Crossing
      PROVE  [q[order[1]] EXCEPT !.replacement = NewLines(<<new>>)] \in Refits(q)
  <2>1. IsFiniteSet(DOMAIN q) /\ Len(q) \in Nat /\ DOMAIN q = 1..Len(q) /\ Len(q) # 0
    <3>1. Len(q) \in Nat /\ DOMAIN q = 1..Len(q) /\ Len(q) # 0
      OBVIOUS
    <3>2. IsFiniteSet(1..Len(q))
      BY <3>1, FS_Interval
    <3> QED
      BY <3>1, <3>2
  <2>2. /\ \A x \in DOMAIN q : rank[x] \in Int
        /\ \A x, y \in DOMAIN q : rank[x] = rank[y] => x = y
    <3>1. \A x \in DOMAIN q : rank[x] = inline(x).start
      OBVIOUS
    <3>2. \A x, y \in DOMAIN q : x # y /\ inline(x).start <= inline(y).start
                                    => ~(inline(y).start < inline(x).start + inline(x).len)
      BY <1>3
    <3> HIDE DEF rank, inline
    <3> QED
      BY <1>2, <3>1, <3>2
  <2>3. /\ order \in Seq(DOMAIN q)
        /\ \A x \in DOMAIN q : \E n \in 1..Len(order) : order[n] = x
    <3> HIDE DEF rank
    <3> DEFINE D == DOMAIN q
    <3>1. IsFiniteSet(D) /\ (\A x \in D : rank[x] \in Int) /\ (\A x, y \in D : rank[x] = rank[y] => x = y)
      BY <2>1, <2>2
    <3> HIDE DEF D
    <3>2. /\ InOrder(D, rank) \in Seq(D) /\ Len(InOrder(D, rank)) = Cardinality(D)
          /\ \A x \in D : \E n \in 1..Cardinality(D) : InOrder(D, rank)[n] = x
      BY <3>1, InOrderFact
    <3> QED
      BY <3>2 DEF D
  <2> HIDE DEF order
  <2>4. Len(order) \in Nat /\ DOMAIN order = 1..Len(order) /\ \A n \in 1..Len(order) : order[n] \in DOMAIN q
    BY <2>3
  <2>5. 1 \in 1..Len(order)
    BY <2>1, <2>3, <2>4
  <2>6. line \in Seq(STRING) /\ Len(line) \in Nat
    BY DEF Chars
  <2>7. ASSUME NEW n \in 1..Len(order)
        PROVE  /\ fix(n).start \in Int /\ fix(n).new \in Seq(STRING) /\ fix(n).start <= Len(line)
               /\ end(n) \in Nat
    <3>1. order[n] \in DOMAIN q
      BY <2>4
    <3> HIDE DEF inline
    <3> DEFINE x == inline(order[n])
    <3>2. /\ x.start \in Int /\ x.len \in Int /\ x.new \in Seq(STRING)
          /\ 0 <= x.start /\ 0 < x.len /\ x.start + x.len <= Len(line)
      BY <1>2, <3>1 DEF Chars
    <3>3. end(n) = x.start + x.len
      BY <2>4
    <3> HIDE DEF x, end
    <3>4. x.start <= Len(line) /\ x.start + x.len \in Nat
      BY <2>6, <3>2
    <3> QED
      BY <3>2, <3>3, <3>4 DEF x
  <2>8. end(0) = 0
    OBVIOUS
  <2> HIDE DEF fix, end
  <2>9. ASSUME NEW n \in 1..Len(order)
        PROVE  piece(n) \in Seq(STRING)
    <3>1. n - 1 = 0 \/ n - 1 \in 1..Len(order)
      BY <2>4
    <3>2. end(n - 1) \in Nat
      BY <2>7, <2>8, <3>1
    <3>3. end(n - 1) + 1 \in Int /\ end(n - 1) + 1 >= 1 /\ fix(n).start \in Int /\ fix(n).start <= Len(line)
      BY <2>7, <3>2
    <3>4. SubSeq(line, end(n - 1) + 1, fix(n).start) \in Seq(STRING)
      BY <2>6, <3>3, PartOfLine
    <3> QED
      BY <2>7, <3>4
  <2> HIDE DEF piece
  <2>10. pieces \in Seq(Seq(STRING))
    BY <2>4, <2>9
  <2> HIDE DEF pieces
  <2>11. FlattenSeq(pieces) \in Seq(STRING)
    BY <2>10, FlattenFact
  <2>12. SubSeq(line, end(Len(order)) + 1, Len(line)) \in Seq(STRING)
    <3>1. Len(order) \in 1..Len(order)
      BY <2>4, <2>5
    <3>2. end(Len(order)) \in Nat
      BY <2>7, <3>1
    <3>3. end(Len(order)) + 1 \in Int /\ end(Len(order)) + 1 >= 1 /\ Len(line) <= Len(line)
      BY <2>6, <3>2
    <3> QED
      BY <2>6, <3>3, PartOfLine
  <2>13. new \in Chars
    BY <2>11, <2>12 DEF Chars
  <2> HIDE DEF new
  <2>14. NewLines(<<new>>) \in Replacements
    BY <2>13 DEF NewLines, Replacements
  <2> QED
    BY <2>4, <2>5, <2>14, RefitFact
<1> HIDE DEF Crossing, new, order, inline
<1> QED
  BY <1>1, <1>3

LEMMA MergeFact ==
    ASSUME NEW q \in Seq(IssueSet), q # <<>>, NEW line \in Chars, \A k \in DOMAIN q : q[k].replacement # None
    PROVE  MergeLineIssues(q, line) = None \/ MergeLineIssues(q, line) \in Refits(q)
<1> DEFINE odd == {k \in DOMAIN q : Ranged(q[k]) \/ NotInline(q[k]) \/ InvalidInline(q[k], line)}
           r == MergeLineIssues(q, line)
<1>1. 1 \in DOMAIN q /\ \A k \in DOMAIN q : q[k] \in Refits(q)
  BY SelfRefit
<1>2. odd = {} => ApplyInlineFixes(q, line) = None \/ ApplyInlineFixes(q, line) \in Refits(q)
  BY InlineFact
<1>3. odd # {} => Min(odd) \in DOMAIN q
  <2>1. odd \in SUBSET Nat /\ odd \subseteq DOMAIN q
    OBVIOUS
  <2> HIDE DEF odd
  <2> QED
    BY <2>1, MinIn
<1>4. r = IF Len(q) = 1 /\ NotInline(q[1]) THEN q[1]
          ELSE IF odd = {} THEN ApplyInlineFixes(q, line)
          ELSE LET li == q[Min(odd)]
               IN  IF Ranged(li) THEN q[1] ELSE IF NotInline(li) THEN li ELSE None
  BY DEF MergeLineIssues
<1> HIDE DEF odd, r
<1> QED
  BY <1>1, <1>2, <1>3, <1>4 DEF r

LEMMA MergedFact ==
    ASSUME NEW q \in Seq(IssueSet), NEW lines \in Seq(Chars),
           \A k \in DOMAIN q : q[k].replacement # None /\ q[k].line \in DOMAIN lines
    PROVE  Merged(q, lines) \in Seq(Refits(q))
<1> DEFINE used == {q[k].line : k \in DOMAIN q}
           rank == [n \in used |-> n]
           number == InOrder(used, rank)
           merge(n) == MergeLineIssues(OnLine(q, n), lines[n])
           all == [k \in DOMAIN number |-> merge(number[k])]
           S == {None} \cup Refits(q)
           K == {k \in DOMAIN all : all[k] # None}
<1>1. Merged(q, lines) = Kept(all, K)
  BY DEF Merged, Select
<1>2. used \subseteq DOMAIN lines /\ IsFiniteSet(used)
  <2>1. Len(lines) \in Nat /\ DOMAIN lines = 1..Len(lines)
    OBVIOUS
  <2>2. IsFiniteSet(1..Len(lines))
    BY <2>1, FS_Interval
  <2>3. used \in SUBSET (1..Len(lines))
    BY <2>1
  <2> HIDE DEF used
  <2> QED
    BY <2>1, <2>2, <2>3, FS_Subset
<1>3. ASSUME NEW n \in used
      PROVE  merge(n) \in S
  <2> DEFINE Here == {k \in DOMAIN q : q[k].line = n}
             p == Kept(q, Here)
  <2>1. OnLine(q, n) = p
    BY DEF OnLine, Select
  <2>2. Here \in SUBSET (DOMAIN q) /\ Here # {}
    OBVIOUS
  <2> HIDE DEF Here, used
  <2>3. /\ p \in Seq(IssueSet)
        /\ \A j \in DOMAIN p : \E k \in Here : p[j] = q[k]
        /\ \A k \in Here : \E j \in DOMAIN p : p[j] = q[k]
    BY <2>2, KeptFact
  <2> HIDE DEF p
  <2>4. p # <<>> /\ \A j \in DOMAIN p : p[j].replacement # None
    <3>1. \A j \in DOMAIN p : p[j].replacement # None
      BY <2>2, <2>3
    <3>2. PICK j \in DOMAIN p : TRUE
      BY <2>2, <2>3
    <3> QED
      BY <3>1, <3>2
  <2>5. lines[n] \in Chars
    BY <1>2
  <2>6. MergeLineIssues(p, lines[n]) = None \/ MergeLineIssues(p, lines[n]) \in Refits(p)
    BY <2>3, <2>4, <2>5, MergeFact
  <2>7. Refits(p) \subseteq Refits(q)
    BY <2>2, <2>3 DEF Refits
  <2> QED
    BY <2>1, <2>6, <2>7
<1>4. (\A x \in used : rank[x] \in Int) /\ (\A x, y \in used : rank[x] = rank[y] => x = y)
  <2> HIDE DEF used
  <2>1. \A x \in used : rank[x] = x /\ x \in Int
    BY <1>2
  <2> HIDE DEF rank
  <2> QED
    BY <2>1
<1> HIDE DEF used, rank
<1>5. number \in Seq(used)
  BY <1>2, <1>4, InOrderFact
<1> HIDE DEF number, merge, S
<1>6. all \in Seq(S)
  BY <1>3, <1>5
<1>7. K \in SUBSET (DOMAIN all)
  OBVIOUS
<1>8. \A k \in K : all[k] \in Refits(q)
  BY <1>6 DEF S
<1> HIDE DEF all, K
<1>9. Kept(all, K) \in Seq({all[k] : k \in K})
  BY <1>6, <1>7, KeptFact
<1>10. {all[k] : k \in K} \subseteq Refits(q)
  BY <1>8
<1> DEFINE B == {all[k] : k \in K}
<1>11. Kept(all, K) \in Seq(B) /\ B \subseteq Refits(q)
  BY <1>9, <1>10
<1> HIDE DEF B
<1> QED
  BY <1>1, <1>11

LEMMA OverwrittenFact ==
    ASSUME NEW q \in Seq(IssueSet), NEW lines \in Seq(Chars),
           \A k \in DOMAIN q : q[k].replacement # None /\ q[k].line \in DOMAIN lines
    PROVE  Overwritten(q, lines) \in Seq(Refits(q))
<1> DEFINE merged == Merged(q, lines)
           R == Refits(q)
<1>1. merged \in Seq(R) /\ q \in Seq(R)
  BY MergedFact, SelfRefit
<1>2. Overwritten(q, lines) = merged \o SubSeq(q, Len(merged) + 1, Len(q))
  BY DEF Overwritten
<1> HIDE DEF merged, R
<1>3. Len(merged) + 1 \in Int /\ Len(merged) + 1 >= 1 /\ Len(q) \in Int /\ Len(q) <= Len(q)
  BY <1>1
<1>4. SubSeq(q, Len(merged) + 1, Len(q)) \in Seq(R)
  BY <1>1, <1>3, PartOfLine
<1>5. merged \o SubSeq(q, Len(merged) + 1, Len(q)) \in Seq(R)
  BY <1>1, <1>4
<1> QED
  BY <1>2, <1>5 DEF R

LEMMA LineRangeFact ==
    ASSUME NEW i \in IssueSet
    PROVE  LineRange(i).from \in Int /\ LineRange(i).to \in Int
BY DEF LineRange, IssueSet, Ranges

LEMMA NotIntersectingFact ==
    ASSUME NEW M \in SUBSET IssueSet, NEW s \in Seq(M)
    PROVE  FindNotIntersecting(s) \in Seq(M)
<1> DEFINE N == Len(s)
           Take(acc, i) == IF LineRange(i).from <= acc.end THEN acc
                           ELSE [end |-> LineRange(i).to, kept |-> Append(acc.kept, i)]
           start == [end |-> 0, kept |-> <<>>]
           Takes(f) == f = [k \in 0..N |-> IF k = 0 THEN start ELSE Take(f[k - 1], s[k])]
           after == CHOOSE f : Takes(f)
           V == [end : Int, kept : Seq(M)]
<1>1. N \in Nat /\ \A k \in 1..N : s[k] \in M
  OBVIOUS
<1>2. FindNotIntersecting(s) = after[N].kept
  BY DEF FindNotIntersecting, Loop
<1>3. start \in V
  OBVIOUS
<1>4. \A acc \in V, i \in M : Take(acc, i) \in V
  <2>1. \A i \in M : LineRange(i).to \in Int
    BY LineRangeFact
  <2>2. \A t \in Seq(M), i \in M : Append(t, i) \in Seq(M)
    OBVIOUS
  <2> QED
    BY <2>1, <2>2
<1>5. \A acc \in V : acc.kept \in Seq(M)
  OBVIOUS
<1> HIDE DEF N, Take, start, V
<1>6. \E f : Takes(f)
  <2> DEFINE round == [x \in (1..N) \X V |-> Take(x[2], s[x[1]])]
  <2>1. round \in [(1..N) \X V -> V]
    BY <1>1, <1>4
  <2>2. \A k \in 1..N, acc \in V : round[<<k, acc>>] = Take(acc, s[k])
    OBVIOUS
  <2> HIDE DEF round
  <2>3. PICK f \in [0..N -> V] : Follows(f, N, start, round)
    BY <1>1, <1>3, <2>1, Recursion
  <2>4. ASSUME NEW k \in 0..N
        PROVE  f[k] = IF k = 0 THEN start ELSE Take(f[k - 1], s[k])
    <3>1. CASE k = 0
      BY <2>3, <3>1 DEF Follows
    <3>2. CASE k # 0
      <4>1. k \in 1..N /\ f[k - 1] \in V
        BY <1>1, <3>2
      <4>2. f[k] = round[<<k, f[k - 1]>>]
        BY <2>3, <3>2 DEF Follows
      <4> QED
        BY <2>2, <3>2, <4>1, <4>2
    <3> QED
      BY <3>1, <3>2
  <2>5. f = [k \in 0..N |-> f[k]]
    OBVIOUS
  <2>6. Takes(f)
    BY <2>4, <2>5
  <2> QED
    BY <2>6
<1>7. Takes(after)
  <2> HIDE DEF Takes
  <2> QED
    BY <1>6
<1>8. \A k \in 0..N : after[k] = IF k = 0 THEN start ELSE Take(after[k - 1], s[k])
  <2> HIDE DEF after
  <2> QED
    BY <1>7
<1> HIDE DEF after, Takes
<1> DEFINE U == {k \in 0..N : after[k] \in V}
<1>9. 0 \in U
  <2>1. 0 \in 0..N
    BY <1>1
  <2> QED
    BY <1>3, <1>8, <2>1
<1>10. \A k \in 1..N : k - 1 \in U => k \in U
  <2> SUFFICES ASSUME NEW k \in 1..N, k - 1 \in U
               PROVE  k \in U
    OBVIOUS
  <2>1. after[k] = Take(after[k - 1], s[k]) /\ after[k - 1] \in V /\ s[k] \in M
    BY <1>1, <1>8
  <2> QED
    BY <1>4, <2>1
<1>11. \A k \in 0..N : k \in U
  <2> HIDE DEF U
  <2> QED
    BY <1>1, <1>9, <1>10, Induct
<1>12. N \in 0..N
  BY <1>1
<1> QED
  BY <1>2, <1>5, <1>11, <1>12

LEMMA EmptyLine == << <<>> >> \in Seq(Chars)
<1> DEFINE e == <<>>
<1>1. e \in Chars
  BY DEF Chars
<1> HIDE DEF e
<1>2. <<e>> \in Seq(Chars)
  BY <1>1
<1> QED
  BY <1>2 DEF e

LEMMA WrittenFact ==
    ASSUME NEW x \in Replacements
    PROVE  Written(x) \in Seq(Chars)
<1>1. x.lines \in Seq(Chars)
  BY ReplacementParts
<1>2. <<>> \in Seq(Chars)
  OBVIOUS
<1> QED
  BY <1>1, <1>2, EmptyLine DEF Written

LEMMA FixedLinesFact ==
    ASSUME NEW lines \in Seq(Chars), NEW s \in Seq(IssueSet), \A k \in DOMAIN s : s[k].replacement \in Replacements
    PROVE  FixedLines(lines, s) \in Seq(Chars)
<1> DEFINE starts(n) == {k \in DOMAIN s : LineRange(s[k]).from = n}
           inside(n) == \E k \in DOMAIN s : LineRange(s[k]).from < n /\ n <= LineRange(s[k]).to
           piece(n) == IF starts(n) # {} THEN Written(s[Min(starts(n))].replacement)
                       ELSE IF inside(n) THEN <<>> ELSE <<lines[n]>>
           pieces == [n \in DOMAIN lines |-> piece(n)]
           endDeleted == \E k \in DOMAIN s :
                            s[k].replacement.delete /\ LineRange(s[k]).to >= Len(lines)
           tail == IF endDeleted THEN << <<>> >> ELSE <<>>
<1>1. FixedLines(lines, s) = FlattenSeq(pieces) \o tail
  BY DEF FixedLines
<1>2. tail \in Seq(Chars)
  <2>1. <<>> \in Seq(Chars)
    OBVIOUS
  <2> QED
    BY <2>1, EmptyLine
<1>3. \A n \in DOMAIN lines : piece(n) \in Seq(Chars)
  <2> SUFFICES ASSUME NEW n \in DOMAIN lines
               PROVE  piece(n) \in Seq(Chars)
    OBVIOUS
  <2>1. CASE starts(n) # {}
    <3> DEFINE k == Min(starts(n))
    <3>1. starts(n) \in SUBSET Nat
      OBVIOUS
    <3>2. k \in starts(n)
      <4> HIDE DEF starts
      <4> QED
        BY <2>1, <3>1, MinIn
    <3>3. k \in DOMAIN s
      BY <3>2
    <3>4. piece(n) = Written(s[k].replacement)
      BY <2>1
    <3> HIDE DEF k, piece
    <3> QED
      BY <3>3, <3>4, WrittenFact
  <2>2. CASE starts(n) = {}
    BY <2>2
  <2> QED
    BY <2>1, <2>2
<1> HIDE DEF piece, tail
<1>4. pieces \in Seq(Seq(Chars))
  BY <1>3
<1> HIDE DEF pieces
<1>5. FlattenSeq(pieces) \in Seq(Chars)
  BY <1>4, FlattenFact
<1> QED
  BY <1>1, <1>2, <1>5

(* The issues of a file that has to be fixed, and what is shown of them.   *)
Fixable(s) ==
    {r \in IssueSet : \E k \in DOMAIN s :
        s[k].replacement # None /\ r.replacement # None /\ r = [s[k] EXCEPT !.replacement = r.replacement]}

LEMMA ToFixFact ==
    ASSUME issues \in Seq(IssueSet), NEW f
    PROVE  /\ ToFix(f) \in Seq(IssueSet)
           /\ \A k \in DOMAIN ToFix(f) : /\ ToFix(f)[k].replacement # None
                                         /\ \E j \in DOMAIN issues : ToFix(f)[k] = issues[j]
<1> DEFINE K == {k \in DOMAIN issues : issues[k].replacement # None /\ FileOf(issues[k].path) = f}
<1>1. ToFix(f) = Kept(issues, K)
  BY DEF ToFix, Select
<1>2. K \in SUBSET (DOMAIN issues) /\ \A k \in K : issues[k].replacement # None
  OBVIOUS
<1> HIDE DEF K
<1>3. /\ Kept(issues, K) \in Seq(IssueSet)
      /\ \A n \in DOMAIN Kept(issues, K) : \E k \in K : Kept(issues, K)[n] = issues[k]
  BY <1>2, KeptFact
<1> QED
  BY <1>1, <1>2, <1>3

LEMMA ToFixLines ==
    ASSUME issues \in Seq(IssueSet), source \in [DOMAIN source -> Files],
           NEW f \in DOMAIN source, LinesExist(f), source[f].readable, "create" \notin scenario.faults
    PROVE  /\ source[f].lines \in Seq(Chars)
           /\ \A k \in DOMAIN ToFix(f) : ToFix(f)[k].replacement # None /\ ToFix(f)[k].line \in DOMAIN source[f].lines
<1>1. source[f].lines \in Seq(Chars)
  BY FileParts
<1>2. \A k \in DOMAIN ToFix(f) : ToFix(f)[k].replacement # None
  BY ToFixFact
<1>3. \A k \in DOMAIN ToFix(f) : ToFix(f)[k].line \in DOMAIN source[f].lines
  BY DEF LinesExist
<1> QED
  BY <1>1, <1>2, <1>3

LEMMA StillShownFact ==
    ASSUME issues \in Seq(IssueSet), source \in [DOMAIN source -> Files], NEW f \in DOMAIN source, LinesExist(f)
    PROVE  StillShown(f) \in Seq(Fixable(issues))
<1> DEFINE q == ToFix(f)
<1>1. /\ q \in Seq(IssueSet)
      /\ \A k \in DOMAIN q : q[k].replacement # None /\ \E j \in DOMAIN issues : q[k] = issues[j]
  BY ToFixFact
<1>2. Refits(q) \subseteq Fixable(issues)
  <2> HIDE DEF q
  <2> QED
    BY <1>1 DEF Refits, Fixable
<1>3. q \in Seq(Refits(q))
  <2> HIDE DEF q
  <2> QED
    BY <1>1, SelfRefit
<1>4. CASE source[f].readable /\ "create" \notin scenario.faults
  <2> DEFINE lines == source[f].lines
  <2>1. lines \in Seq(Chars) /\ \A k \in DOMAIN q : q[k].replacement # None /\ q[k].line \in DOMAIN lines
    BY <1>4, ToFixLines
  <2>2. StillShown(f) = Overwritten(q, lines)
    BY <1>4 DEF StillShown
  <2> HIDE DEF q, lines
  <2>3. Overwritten(q, lines) \in Seq(Refits(q))
    BY <1>1, <2>1, OverwrittenFact
  <2> QED
    BY <1>2, <2>2, <2>3
<1>5. CASE ~(source[f].readable /\ "create" \notin scenario.faults)
  <2>1. StillShown(f) = q
    BY <1>5 DEF StillShown
  <2> HIDE DEF q
  <2> QED
    BY <1>2, <1>3, <2>1
<1> QED
  BY <1>4, <1>5

LEMMA NewLinesOfFile ==
    ASSUME issues \in Seq(IssueSet), source \in [DOMAIN source -> Files],
           NEW f \in FilesToFix \ CannotFix, LinesExist(f)
    PROVE  FixIssuesInFile(source[f].lines, ToFix(f)) \in Seq(Chars)
<1> DEFINE q == ToFix(f)
           lines == source[f].lines
           R == Refits(q)
<1>1. f \in DOMAIN source /\ source[f].readable /\ "create" \notin scenario.faults
  BY DEF FilesToFix, CannotFix
<1>2. lines \in Seq(Chars) /\ \A k \in DOMAIN q : q[k].replacement # None /\ q[k].line \in DOMAIN lines
  BY <1>1, ToFixLines
<1>3. q \in Seq(IssueSet)
  BY ToFixFact
<1>4. FixIssuesInFile(lines, q) = FixedLines(lines, FindNotIntersecting(Merged(q, lines)))
  BY DEF FixIssuesInFile
<1> HIDE DEF q, lines
<1>5. Merged(q, lines) \in Seq(R) /\ R \in SUBSET IssueSet /\ \A r \in R : r.replacement \in Replacements
  <2>1. Merged(q, lines) \in Seq(R)
    BY <1>2, <1>3, MergedFact
  <2>2. R \in SUBSET IssueSet /\ \A r \in R : r.replacement # None
    BY DEF Refits
  <2> HIDE DEF R
  <2>3. \A r \in IssueSet : r.replacement \in {None} \cup Replacements
    BY Zenon DEF IssueSet
  <2> QED
    BY <2>1, <2>2, <2>3
<1> HIDE DEF R
<1> DEFINE t == FindNotIntersecting(Merged(q, lines))
<1>6. t \in Seq(R)
  BY <1>5, NotIntersectingFact
<1> HIDE DEF t
<1>7. t \in Seq(IssueSet) /\ \A k \in DOMAIN t : t[k].replacement \in Replacements
  BY <1>5, <1>6
<1>8. FixedLines(lines, t) \in Seq(Chars)
  BY <1>2, <1>7, FixedLinesFact
<1> QED
  BY <1>4, <1>8 DEF t, q, lines

(* The fixer changes nothing of a file but its lines.                      *)
OnlyLines(new, old) ==
    DOMAIN new = DOMAIN old /\ \A f \in DOMAIN old : new[f].parses = old[f].parses /\ new[f].markers = old[f].markers

LEMMA FixedSource ==
    ASSUME issues \in Seq(IssueSet), source \in [DOMAIN source -> Files], \A f \in FilesToFix : LinesExist(f),
           NEW new, new = [f \in DOMAIN source |->
                             IF f \in FilesToFix \ CannotFix
                             THEN [source[f] EXCEPT !.lines = FixIssuesInFile(@, ToFix(f))]
                             ELSE source[f]]
    PROVE  new \in [DOMAIN source -> Files] /\ OnlyLines(new, source)
<1>1. ASSUME NEW f \in DOMAIN source
      PROVE  new[f] \in Files /\ new[f].parses = source[f].parses /\ new[f].markers = source[f].markers
  <2>1. CASE f \in FilesToFix \ CannotFix
    <3> DEFINE x == FixIssuesInFile(source[f].lines, ToFix(f))
               file == source[f]
    <3>1. x \in Seq(Chars)
      BY <2>1, NewLinesOfFile
    <3>2. new[f] = [file EXCEPT !.lines = x] /\ file \in Files
      BY <2>1
    <3> HIDE DEF x, file
    <3>3. /\ [file EXCEPT !.lines = x] \in Files
          /\ [file EXCEPT !.lines = x].parses = file.parses /\ [file EXCEPT !.lines = x].markers = file.markers
      BY <3>1, <3>2 DEF Files
    <3> QED
      BY <3>2, <3>3 DEF file
  <2>2. CASE f \notin FilesToFix \ CannotFix
    BY <2>2
  <2> QED
    BY <2>1, <2>2
<1>2. new = [f \in DOMAIN source |-> new[f]]
  OBVIOUS
<1> QED
  BY <1>1, <1>2 DEF OnlyLines

LEMMA OtherReplacement ==
    ASSUME NEW c, NEW old, NEW new, OnlyLines(new, old), NEW sk,
           NEW i, NEW j, Good(i, 19, c, old, sk), i.replacement # None, j.replacement # None,
           i \in IssueSet, j = [i EXCEPT !.replacement = j.replacement]
    PROVE  Good(j, 20, c, new, sk)
<1>1. /\ j.linter = i.linter /\ j.path = i.path /\ j.expect = i.expect /\ j.text = i.text /\ j.source = i.source
  BY DEF IssueSet
<1>2. ~TypeCheck(i) /\ ~TypeCheck(j)
  BY <1>1 DEF Good, Plain, TypeCheck
<1>3. Plain(j, 20)
  BY <1>1, <1>2 DEF Good, Plain
<1>4. Passes(i, 19, c, old, sk) /\ i.path # None
  BY <1>2 DEF Good, Plain
<1>5. Located(j, 20, new)
  BY <1>1, <1>4 DEF Passes, Located, GoPlace, OnlyLines
<1>6. PathPasses(j, 20, c)
  BY <1>1, <1>4 DEF Passes, PathPasses
<1>7. Handwritten(j, 20, c, new, sk)
  BY <1>1, <1>4 DEF Passes, Handwritten, Located, GoPlace, OnlyLines, Generated
<1>8. TextPasses(j, 20, c, new)
  <2>1. ASSUME NEW r, ByPath(r), RuleMatches(r, j, c, new)
        PROVE  RuleMatches(r, i, c, old)
    BY <1>1, <2>1 DEF ByPath, RuleMatches
  <2> QED
    BY <1>1, <1>4, <2>1 DEF Passes, TextPasses
<1> QED
  BY <1>3, <1>5, <1>6, <1>7, <1>8 DEF Good, Passes

LEMMA NotFixed ==
    ASSUME NEW c, NEW old, NEW new, OnlyLines(new, old), NEW sk, NEW i, Good(i, 19, c, old, sk)
    PROVE  Good(i, 20, c, new, sk)
<1>1. Plain(i, 20) /\ i.path # None
  BY DEF Good, Plain
<1>2. ASSUME ~TypeCheck(i)
      PROVE  Passes(i, 20, c, new, sk)
  <2>1. Passes(i, 19, c, old, sk)
    BY <1>2 DEF Good
  <2>2. Located(i, 20, new)
    BY <2>1 DEF Passes, Located, OnlyLines
  <2>3. PathPasses(i, 20, c)
    BY <2>1 DEF Passes, PathPasses
  <2>4. Handwritten(i, 20, c, new, sk)
    BY <1>1, <2>1 DEF Passes, Handwritten, Located, GoPlace, OnlyLines, Generated
  <2>5. TextPasses(i, 20, c, new)
    <3>1. ASSUME NEW r, ByPath(r), RuleMatches(r, i, c, new)
          PROVE  RuleMatches(r, i, c, old)
      BY <3>1 DEF ByPath, RuleMatches
    <3> QED
      BY <2>1, <3>1 DEF Passes, TextPasses
  <2> QED
    BY <2>2, <2>3, <2>4, <2>5 DEF Passes
<1> QED
  BY <1>1, <1>2 DEF Good

LEMMA FixServes ==
    ASSUME AllGood(issues, 19, cfg, source, skipped), source \in [DOMAIN source -> Files],
           IsFiniteSet(DOMAIN source), unfixed \subseteq DOMAIN source, Fix
    PROVE  /\ AllGood(issues', 20, cfg, source', skipped)
           /\ OnlyErrors(issues) => OnlyErrors(issues')
           /\ source' \in [DOMAIN source -> Files]
           /\ unfixed' \subseteq DOMAIN source
<1>1. issues \in Seq(IssueSet) /\ \A k \in DOMAIN issues : Good(issues[k], 19, cfg, source, skipped)
  BY DEF AllGood
<1>2. CASE ~cfg.fix
  <2>1. issues' = issues /\ source' = source /\ unfixed' = unfixed
    BY <1>2 DEF Fix
  <2>2. OnlyLines(source, source)
    BY DEF OnlyLines
  <2>3. \A k \in DOMAIN issues : Good(issues[k], 20, cfg, source, skipped)
    BY <1>1, <2>2, NotFixed
  <2> QED
    BY <1>1, <2>1, <2>3 DEF AllGood
<1>3. CASE cfg.fix
  <2> DEFINE K == {k \in DOMAIN issues : issues[k].replacement = None}
             a == Kept(issues, K)
  <2>1. \A f \in FilesToFix : LinesExist(f)
    BY <1>3 DEF Fix
  <2>2. PICK order \in SetToSeqs(CannotFix) : issues' = a \o FlattenSeq(Map(order, LAMBDA f : StillShown(f)))
    BY <1>3 DEF Fix, Select
  <2>3. /\ source' = [f \in DOMAIN source |->
                        IF f \in FilesToFix \ CannotFix
                        THEN [source[f] EXCEPT !.lines = FixIssuesInFile(@, ToFix(f))]
                        ELSE source[f]]
        /\ unfixed' = CannotFix
    BY <1>3 DEF Fix
  <2> DEFINE ss == [k \in DOMAIN order |-> StillShown(order[k])]
             b == FlattenSeq(ss)
             F == Fixable(issues)
  <2>4. issues' = a \o b
    BY <2>2 DEF Map
  <2>5. source' \in [DOMAIN source -> Files] /\ OnlyLines(source', source)
    <3> DEFINE new == source'
    <3>1. new = [f \in DOMAIN source |->
                   IF f \in FilesToFix \ CannotFix
                   THEN [source[f] EXCEPT !.lines = FixIssuesInFile(@, ToFix(f))]
                   ELSE source[f]]
      BY <2>3
    <3> HIDE DEF new
    <3>2. new \in [DOMAIN source -> Files] /\ OnlyLines(new, source)
      BY <1>1, <2>1, <3>1, FixedSource
    <3> QED
      BY <3>2 DEF new
  <2>6. CannotFix \subseteq FilesToFix /\ FilesToFix \subseteq DOMAIN source
    BY DEF CannotFix, FilesToFix
  <2>7. /\ order \in [1..Cardinality(CannotFix) -> CannotFix] /\ Cardinality(CannotFix) \in Nat
        /\ DOMAIN order = 1..Cardinality(CannotFix) /\ (CannotFix = {} => DOMAIN order = {})
    <3>1. IsFiniteSet(CannotFix)
      BY <2>6, FS_Subset
    <3>2. Cardinality(CannotFix) \in Nat
      BY <3>1, FS_CardinalityType
    <3>3. order \in [1..Cardinality(CannotFix) -> CannotFix]
      BY DEF SetToSeqs
    <3>4. CannotFix = {} => Cardinality(CannotFix) = 0
      BY FS_EmptySet
    <3> QED
      BY <3>2, <3>3, <3>4
  <2>8. \A k \in DOMAIN order : StillShown(order[k]) \in Seq(F)
    BY <1>1, <2>1, <2>6, <2>7, StillShownFact
  <2> HIDE DEF F
  <2>9. ss \in Seq(Seq(F)) /\ DOMAIN ss = DOMAIN order
    BY <2>7, <2>8
  <2> HIDE DEF ss
  <2>10. /\ b \in Seq(F)
         /\ \A n \in DOMAIN b : \E k \in DOMAIN ss : \E j \in DOMAIN ss[k] : b[n] = ss[k][j]
    BY <2>9, FlattenFact, FlattenMember
  <2>11. K \in SUBSET (DOMAIN issues) /\ \A k \in K : issues[k].replacement = None
    OBVIOUS
  <2>20. \A k \in DOMAIN issues : issues[k].replacement = None => k \in K
    OBVIOUS
  <2> HIDE DEF K
  <2>12. /\ a \in Seq(IssueSet)
         /\ \A n \in DOMAIN a : \E k \in K : a[n] = issues[k]
         /\ \A k \in K : \E n \in DOMAIN a : a[n] = issues[k]
    BY <1>1, <2>11, KeptFact
  <2> HIDE DEF a, b
  <2>13. /\ b \in Seq(IssueSet)
         /\ \A n \in DOMAIN b : b[n] \in F
    <3>1. F \subseteq IssueSet
      BY DEF F, Fixable
    <3> QED
      BY <2>10, <3>1
  <2>14. /\ a \o b \in Seq(IssueSet)
         /\ \A n \in DOMAIN (a \o b) : (\E k \in DOMAIN a : (a \o b)[n] = a[k]) \/ (\E k \in DOMAIN b : (a \o b)[n] = b[k])
    <3>1. a \o b \in Seq(IssueSet) /\ Len(a \o b) = Len(a) + Len(b) /\ Len(a) \in Nat /\ Len(b) \in Nat
      BY <2>12, <2>13
    <3>2. ASSUME NEW n \in 1..(Len(a) + Len(b))
          PROVE  (\E k \in DOMAIN a : (a \o b)[n] = a[k]) \/ (\E k \in DOMAIN b : (a \o b)[n] = b[k])
      <4>1. CASE n <= Len(a)
        <5>1. n \in DOMAIN a /\ (a \o b)[n] = a[n]
          BY <2>12, <2>13, <3>1, <4>1
        <5> QED
          BY <5>1
      <4>2. CASE ~(n <= Len(a))
        <5>1. n - Len(a) \in DOMAIN b /\ (a \o b)[n] = b[n - Len(a)]
          BY <2>12, <2>13, <3>1, <4>2
        <5> QED
          BY <5>1
      <4> QED
        BY <4>1, <4>2
    <3> QED
      BY <3>1, <3>2
  <2>15. \A n \in DOMAIN a : Good(a[n], 20, cfg, source', skipped)
    BY <1>1, <2>5, <2>11, <2>12, NotFixed
  <2>16. ASSUME NEW r \in F
         PROVE  Good(r, 20, cfg, source', skipped)
    <3>1. PICK k \in DOMAIN issues :
              /\ issues[k].replacement # None /\ r.replacement # None
              /\ r = [issues[k] EXCEPT !.replacement = r.replacement]
      BY Zenon DEF F, Fixable
    <3>2. issues[k] \in IssueSet /\ Good(issues[k], 19, cfg, source, skipped)
      BY <1>1
    <3> QED
      BY <2>5, <3>1, <3>2, OtherReplacement
  <2>17. AllGood(issues', 20, cfg, source', skipped)
    <3> DEFINE r == a \o b
    <3>1. \A n \in DOMAIN r : Good(r[n], 20, cfg, source', skipped)
      BY <2>13, <2>14, <2>15, <2>16
    <3>2. r \in Seq(IssueSet) /\ issues' = r
      BY <2>4, <2>14
    <3> HIDE DEF r
    <3> QED
      BY <3>1, <3>2 DEF AllGood
  <2>18. ASSUME OnlyErrors(issues)
         PROVE  OnlyErrors(issues')
    <3>1. \A k \in DOMAIN issues : TypeCheck(issues[k]) /\ issues[k].replacement = None
      BY <1>1, <2>18 DEF OnlyErrors, Good, Plain
    <3>2. FilesToFix = {}
      <4> SUFFICES ASSUME NEW f \in FilesToFix
                   PROVE  FALSE
        OBVIOUS
      <4>1. ToFix(f) # <<>> /\ ToFix(f) \in Seq(IssueSet)
        BY <1>1, ToFixFact DEF FilesToFix
      <4>2. 1 \in DOMAIN ToFix(f)
        BY <4>1
      <4>3. ToFix(f)[1].replacement # None /\ \E j \in DOMAIN issues : ToFix(f)[1] = issues[j]
        BY <1>1, <4>2, ToFixFact
      <4> QED
        BY <3>1, <4>3
    <3>3. DOMAIN b = {}
      BY <2>6, <2>7, <2>9, <2>10, <3>2
    <3>4. \A n \in DOMAIN (a \o b) : TypeCheck((a \o b)[n])
      BY <2>11, <2>12, <2>14, <3>1, <3>3
    <3>5. a \o b # <<>>
      <4>1. 1 \in DOMAIN issues
        BY <1>1, <2>18, FirstIn DEF OnlyErrors
      <4>2. PICK n \in DOMAIN a : TRUE
        BY <2>12, <2>20, <3>1, <4>1
      <4>3. Len(a) # 0 /\ Len(a) \in Nat /\ Len(b) \in Nat /\ Len(a \o b) = Len(a) + Len(b)
        BY <2>12, <2>13, <4>2
      <4>4. Len(<<>>) = 0 /\ Len(a \o b) # 0
        BY <4>3
      <4> QED
        BY <4>4
    <3> DEFINE r == a \o b
    <3>6. issues' = r
      BY <2>4
    <3>7. r # <<>> /\ \A n \in DOMAIN r : TypeCheck(r[n])
      BY <3>4, <3>5
    <3> HIDE DEF r
    <3> QED
      BY <3>6, <3>7 DEF OnlyErrors
  <2> QED
    BY <2>3, <2>5, <2>6, <2>17, <2>18
<1> QED
  BY <1>2, <1>3

-----------------------------------------------------------------------------
(* What the formatters report.                                             *)

DiffLine == [number : Int, kind : {"orig", "del", "add"}, data : Chars]
Changes == [from : Int, to : Int, replacement : Replacements]
ParserStates == [last : {None} \cup DiffLine, prepend : Seq(Chars), changes : Seq(Changes), next : Int]

LEMMA DiffLinesFact ==
    ASSUME NEW h \in Hunks
    PROVE  DiffLines(h) \in Seq(DiffLine)
<1> DEFINE Added(k) == {j \in 1..(k - 1) : h.body[j].kind # "add"}
           Number(k) == h.start + Cardinality(Added(k))
           body == [k \in DOMAIN h.body |-> [number |-> Number(k), kind |-> h.body[k].kind, data |-> h.body[k].data]]
           eol == IF h.noEol THEN <<[number |-> 0, kind |-> "add", data |-> <<>>]>> ELSE <<>>
           Pieces == [kind : {"orig", "del", "add"}, data : Chars]
<1>1. DiffLines(h) = body \o eol
  BY DEF DiffLines
<1>2. h.start \in Int /\ h.body \in Seq(Pieces)
  BY Zenon DEF Hunks
<1>3. DOMAIN h.body = 1..Len(h.body) /\ Len(h.body) \in Nat
  BY <1>2
<1>4. ASSUME NEW k \in DOMAIN h.body
      PROVE  body[k] \in DiffLine
  <2>1. Number(k) \in Int
    <3>1. k - 1 \in Nat /\ 1 \in Int
      BY <1>3
    <3>2. IsFiniteSet(1..(k - 1))
      BY <3>1, FS_Interval
    <3>3. IsFiniteSet(Added(k))
      BY <3>2, FS_Subset
    <3> HIDE DEF Added
    <3>4. Cardinality(Added(k)) \in Nat
      BY <3>3, FS_CardinalityType
    <3> QED
      BY <1>2, <3>4
  <2>2. h.body[k] \in Pieces
    <3> HIDE DEF Pieces
    <3> QED
      BY <1>2, <1>3
  <2> HIDE DEF Number
  <2> DEFINE p == h.body[k]
  <2>3. p.kind \in {"orig", "del", "add"} /\ p.data \in Chars
    BY <2>2
  <2>4. body[k] = [number |-> Number(k), kind |-> p.kind, data |-> p.data]
    OBVIOUS
  <2> HIDE DEF p, body
  <2> QED
    BY <2>1, <2>3, <2>4 DEF DiffLine
<1>5. body \in Seq(DiffLine)
  <2>1. body = [k \in 1..Len(h.body) |-> body[k]]
    BY <1>3
  <2> HIDE DEF body
  <2> QED
    BY <1>3, <1>4, <2>1
<1>6. eol \in Seq(DiffLine)
  <2> DEFINE e == <<>>
             x == [number |-> 0, kind |-> "add", data |-> e]
  <2>1. e \in Chars
    BY DEF Chars
  <2> HIDE DEF e
  <2>2. x \in DiffLine
    BY <2>1 DEF DiffLine
  <2>3. eol = IF h.noEol THEN <<x>> ELSE <<>>
    BY DEF e
  <2> HIDE DEF x, eol
  <2> QED
    BY <2>2, <2>3
<1> HIDE DEF body, eol
<1> QED
  BY <1>1, <1>5, <1>6

LEMMA EndOfRunFact ==
    ASSUME NEW lines \in Seq(DiffLine), NEW i \in 1..(Len(lines) + 1), NEW kind
    PROVE  /\ EndOfRun(lines, i, kind) \in i..(Len(lines) + 1)
           /\ i <= Len(lines) /\ lines[i].kind = kind => EndOfRun(lines, i, kind) > i
<1> DEFINE N == Len(lines)
           T == {k \in i..(N + 1) : k = N + 1 \/ lines[k].kind # kind}
<1>1. N \in Nat /\ i \in 1..(N + 1)
  OBVIOUS
<1>2. EndOfRun(lines, i, kind) = Min(T)
  BY DEF EndOfRun
<1> HIDE DEF N
<1>3. T \in SUBSET Nat /\ N + 1 \in T /\ T \subseteq i..(N + 1) /\ (i <= N /\ lines[i].kind = kind => i \notin T)
  BY <1>1
<1> HIDE DEF T
<1>4. Min(T) \in T
  BY <1>3, MinIn
<1>5. Min(T) \in i..(N + 1) /\ (i <= N /\ lines[i].kind = kind => Min(T) # i)
  BY <1>3, <1>4
<1> QED
  BY <1>1, <1>2, <1>5 DEF N

LEMMA DataFact ==
    ASSUME NEW lines \in Seq(DiffLine), NEW a \in Int, NEW b \in Int, a >= 1, b <= Len(lines) + 1
    PROVE  Data(lines, a, b) \in Seq(Chars)
<1>1. Len(lines) \in Nat /\ DOMAIN lines = 1..Len(lines)
  OBVIOUS
<1>2. ASSUME NEW k \in 1..(b - a)
      PROVE  lines[a + k - 1].data \in Chars
  <2>1. a + k - 1 \in 1..Len(lines)
    BY <1>1
  <2>2. lines[a + k - 1] \in DiffLine
    BY <2>1
  <2> QED
    BY <2>2 DEF DiffLine
<1>3. CASE b - a \in Nat
  BY <1>2, <1>3 DEF Data
<1>4. CASE b - a \notin Nat
  <2>1. 1..(b - a) = {}
    BY <1>4
  <2>2. Data(lines, a, b) = <<>>
    BY <2>1 DEF Data
  <2> QED
    BY <2>2
<1> QED
  BY <1>3, <1>4

LEMMA NewLinesFact ==
    ASSUME NEW x \in Seq(Chars)
    PROVE  NewLines(x) \in Replacements /\ OnlyDelete \in Replacements
<1>1. <<>> \in Seq(Chars)
  OBVIOUS
<1> QED
  BY <1>1 DEF NewLines, OnlyDelete, Replacements

LEMMA ChangeFact ==
    ASSUME NEW p \in DiffLine, NEW q \in DiffLine, NEW x \in Replacements
    PROVE  Change(p, q, x) \in Changes
BY DEF Change, Changes, DiffLine

LEMMA ParsedStates ==
    ASSUME NEW st \in ParserStates, NEW x \in Seq(Chars), NEW e \in Int
    PROVE  /\ [st EXCEPT !.next = e] \in ParserStates
           /\ [st EXCEPT !.prepend = x] \in ParserStates
           /\ \A p \in DiffLine : [st EXCEPT !.last = p] \in ParserStates
           /\ \A ch \in Changes : [st EXCEPT !.prepend = <<>>, !.changes = Append(@, ch)] \in ParserStates
           /\ \A p \in DiffLine, ch \in Changes :
                 [st EXCEPT !.last = p, !.prepend = <<>>, !.changes = Append(@, ch)] \in ParserStates
           /\ st.prepend \in Seq(Chars) /\ (st.last # None => st.last \in DiffLine)
<1>1. st.changes \in Seq(Changes) /\ <<>> \in Seq(Chars)
  BY DEF ParserStates
<1>2. \A ch \in Changes : Append(st.changes, ch) \in Seq(Changes)
  BY <1>1
<1>3. st.prepend \in Seq(Chars) /\ (st.last # None => st.last \in DiffLine)
  BY DEF ParserStates
<1>4. [st EXCEPT !.next = e] \in ParserStates
  BY DEF ParserStates
<1>5. [st EXCEPT !.prepend = x] \in ParserStates
  BY DEF ParserStates
<1>6. \A p \in DiffLine : [st EXCEPT !.last = p] \in ParserStates
  BY DEF ParserStates
<1>7. ASSUME NEW ch \in Changes
      PROVE  [st EXCEPT !.prepend = <<>>, !.changes = Append(@, ch)] \in ParserStates
  BY <1>1, <1>2 DEF ParserStates
<1>8. ASSUME NEW p \in DiffLine, NEW ch \in Changes
      PROVE  [st EXCEPT !.last = p, !.prepend = <<>>, !.changes = Append(@, ch)] \in ParserStates
  BY <1>1, <1>2 DEF ParserStates
<1> QED
  BY <1>3, <1>4, <1>5, <1>6, <1>7, <1>8

LEMMA ParseLineFact ==
    ASSUME NEW lines \in Seq(DiffLine), NEW i \in 1..Len(lines), NEW st \in ParserStates
    PROVE  ParseLine(lines, i, st) \in ParserStates
<1> DEFINE N == Len(lines)
           dels == EndOfRun(lines, i, "del")
           adds == EndOfRun(lines, dels, "add")
           follow == IF st.prepend = <<>> THEN i + 1 ELSE EndOfRun(lines, i + 1, "add")
           original == HandleOriginalLine(st, lines[i], Data(lines, i + 1, follow))
           deleted == HandleDeletedLines(st, lines[i], lines[dels - 1], Data(lines, dels, adds))
           added == HandleAddedOnlyLines(st, Data(lines, i, adds))
<1>1. N \in Nat /\ i \in 1..(N + 1) /\ i + 1 \in 1..(N + 1) /\ lines[i] \in DiffLine /\ lines[i].data \in Chars
  <2>1. N \in Nat /\ i \in 1..(N + 1) /\ i + 1 \in 1..(N + 1) /\ lines[i] \in DiffLine
    OBVIOUS
  <2> QED
    BY <2>1 DEF DiffLine
<1>2. dels \in i..(N + 1) /\ (lines[i].kind = "del" => dels > i)
  <2>1. \A kind : /\ EndOfRun(lines, i, kind) \in i..(Len(lines) + 1)
                  /\ i <= Len(lines) /\ lines[i].kind = kind => EndOfRun(lines, i, kind) > i
    BY <1>1, EndOfRunFact
  <2> QED
    BY <2>1
<1>3. adds \in dels..(N + 1)
  <2> HIDE DEF dels
  <2>1. dels \in 1..(Len(lines) + 1)
    BY <1>1, <1>2
  <2> QED
    BY <2>1, EndOfRunFact
<1>4. follow \in (i + 1)..(N + 1)
  <2>1. EndOfRun(lines, i + 1, "add") \in (i + 1)..(N + 1)
    BY <1>1, EndOfRunFact
  <2> QED
    BY <1>1, <2>1
<1> HIDE DEF N, dels, adds, follow
<1>5. /\ dels \in Int /\ adds \in Int /\ follow \in Int /\ dels >= 1 /\ i >= 1 /\ i + 1 >= 1
      /\ adds <= N + 1 /\ follow <= N + 1
  BY <1>1, <1>2, <1>3, <1>4
<1>6. /\ Data(lines, i + 1, follow) \in Seq(Chars)
      /\ Data(lines, dels, adds) \in Seq(Chars)
      /\ Data(lines, i, adds) \in Seq(Chars)
  <2>1. Data(lines, i + 1, follow) \in Seq(Chars)
    BY <1>1, <1>5, DataFact DEF N
  <2>2. Data(lines, dels, adds) \in Seq(Chars)
    BY <1>1, <1>5, DataFact DEF N
  <2>3. Data(lines, i, adds) \in Seq(Chars)
    BY <1>1, <1>5, DataFact DEF N
  <2> QED
    BY <2>1, <2>2, <2>3
<1>7. st.prepend \in Seq(Chars) /\ (st.last # None => st.last \in DiffLine /\ st.last.data \in Chars)
  BY ParsedStates, <1>5, <1>6 DEF DiffLine
<1>8. original \in ParserStates
  <2> DEFINE new == st.prepend \o <<lines[i].data>> \o Data(lines, i + 1, follow)
  <2>1. new \in Seq(Chars)
    BY <1>1, <1>6, <1>7
  <2> HIDE DEF new
  <2>2. Change(lines[i], lines[i], NewLines(new)) \in Changes
    BY <1>1, <2>1, NewLinesFact, ChangeFact
  <2>3. original = IF st.prepend = <<>> THEN [st EXCEPT !.last = lines[i]]
                   ELSE [st EXCEPT !.last = lines[i], !.prepend = <<>>,
                                   !.changes = Append(@, Change(lines[i], lines[i], NewLines(new)))]
    BY DEF HandleOriginalLine, new
  <2> DEFINE ch == Change(lines[i], lines[i], NewLines(new))
             p == lines[i]
  <2>4. ch \in Changes /\ p \in DiffLine
    BY <1>1, <2>2
  <2>5. original = IF st.prepend = <<>> THEN [st EXCEPT !.last = p]
                   ELSE [st EXCEPT !.last = p, !.prepend = <<>>, !.changes = Append(@, ch)]
    BY <2>3
  <2> HIDE DEF ch, p, original
  <2>6. [st EXCEPT !.last = p] \in ParserStates
    BY <1>5, <1>6, <2>4, ParsedStates
  <2>7. [st EXCEPT !.last = p, !.prepend = <<>>, !.changes = Append(@, ch)] \in ParserStates
    BY <1>5, <1>6, <2>4, ParsedStates
  <2> QED
    BY <2>5, <2>6, <2>7
<1>9. lines[i].kind = "del" => deleted \in ParserStates
  <2> SUFFICES ASSUME lines[i].kind = "del"
               PROVE  deleted \in ParserStates
    OBVIOUS
  <2> DEFINE new == st.prepend \o Data(lines, dels, adds)
             x == IF new = <<>> THEN OnlyDelete ELSE NewLines(new)
             p == lines[i]
             q == lines[dels - 1]
             ch == Change(p, q, x)
  <2>1. new \in Seq(Chars)
    BY <1>6, <1>7
  <2>2. deleted = [st EXCEPT !.prepend = <<>>, !.changes = Append(@, ch)]
    BY DEF HandleDeletedLines
  <2> HIDE DEF new
  <2>3. x \in Replacements
    BY <2>1, NewLinesFact
  <2>4. p \in DiffLine /\ q \in DiffLine
    <3>1. dels - 1 \in 1..N /\ DOMAIN lines = 1..N
      BY <1>1, <1>2 DEF N
    <3> QED
      BY <1>1, <3>1
  <2> HIDE DEF x, p, q
  <2>5. ch \in Changes
    BY <2>3, <2>4, ChangeFact
  <2> HIDE DEF ch, deleted
  <2> QED
    BY <1>5, <1>6, <2>2, <2>5, ParsedStates
<1>10. added \in ParserStates
  <2> DEFINE d == Data(lines, i, adds)
             new == st.prepend \o <<st.last.data>> \o d
             ch == Change(st.last, st.last, NewLines(new))
  <2>1. added = IF st.last = None THEN [st EXCEPT !.prepend = d]
                ELSE [st EXCEPT !.prepend = <<>>, !.changes = Append(@, ch)]
    BY DEF HandleAddedOnlyLines
  <2>2. d \in Seq(Chars)
    BY <1>6
  <2> HIDE DEF d, added
  <2>3. CASE st.last = None
    BY <1>5, <2>1, <2>2, <2>3, ParsedStates
  <2>4. CASE st.last # None
    <3>1. new \in Seq(Chars)
      BY <1>7, <2>2, <2>4
    <3> HIDE DEF new
    <3>2. ch \in Changes
      BY <1>7, <2>4, <3>1, NewLinesFact, ChangeFact
    <3> HIDE DEF ch
    <3> QED
      BY <1>5, <2>1, <2>2, <2>4, <3>2, ParsedStates
  <2> QED
    BY <2>3, <2>4
<1>11. ParseLine(lines, i, st) =
          CASE i < st.next -> st
            [] i = st.next /\ lines[i].kind = "orig" -> [original EXCEPT !.next = follow]
            [] i = st.next /\ lines[i].kind = "del" -> [deleted EXCEPT !.next = adds]
            [] OTHER -> [added EXCEPT !.next = adds]
  BY DEF ParseLine, dels, adds, follow
<1> HIDE DEF original, deleted, added
<1>12. [original EXCEPT !.next = follow] \in ParserStates
  BY <1>5, <1>6, <1>8, ParsedStates
<1>13. lines[i].kind = "del" => [deleted EXCEPT !.next = adds] \in ParserStates
  BY <1>5, <1>6, <1>9, ParsedStates
<1>14. [added EXCEPT !.next = adds] \in ParserStates
  BY <1>5, <1>6, <1>10, ParsedStates
<1>15. i < st.next \/ (i = st.next /\ lines[i].kind = "orig") \/ (i = st.next /\ lines[i].kind = "del")
       \/ ~(i < st.next \/ (i = st.next /\ lines[i].kind = "orig") \/ (i = st.next /\ lines[i].kind = "del"))
  OBVIOUS
<1>16. ~(i < st.next /\ i = st.next) /\ ~(lines[i].kind = "orig" /\ lines[i].kind = "del")
  BY <1>1 DEF ParserStates
<1> QED
  BY <1>11, <1>12, <1>13, <1>14, <1>16

LEMMA ParseFact ==
    ASSUME NEW h \in Hunks
    PROVE  Parse(h) \in Seq(Changes)
<1> DEFINE lines == DiffLines(h)
           N == Len(lines)
           start == [last |-> None, prepend |-> <<>>, changes |-> <<>>, next |-> 1]
           Reads(f) == f = [k \in 0..N |-> IF k = 0 THEN start ELSE ParseLine(lines, k, f[k - 1])]
           after == CHOOSE f : Reads(f)
           V == ParserStates
<1>1. lines \in Seq(DiffLine)
  BY DiffLinesFact
<1>2. Parse(h) = IF after[N].prepend # <<>> THEN <<>> ELSE after[N].changes
  BY DEF Parse, Loop
<1> HIDE DEF lines
<1>3. N \in Nat
  BY <1>1
<1>4. start \in V
  <2>1. <<>> \in Seq(Chars) /\ <<>> \in Seq(Changes)
    OBVIOUS
  <2> QED
    BY <2>1 DEF ParserStates
<1>5. \A st \in V, k \in 1..N : ParseLine(lines, k, st) \in V
  BY <1>1, ParseLineFact
<1>6. \A st \in V : st.changes \in Seq(Changes)
  BY Zenon DEF ParserStates
<1> HIDE DEF N, start, V
<1>7. \E f : Reads(f)
  <2> DEFINE round == [x \in (1..N) \X V |-> ParseLine(lines, x[1], x[2])]
  <2>1. round \in [(1..N) \X V -> V]
    BY <1>5
  <2>2. \A k \in 1..N, st \in V : round[<<k, st>>] = ParseLine(lines, k, st)
    OBVIOUS
  <2> HIDE DEF round
  <2>3. PICK f \in [0..N -> V] : Follows(f, N, start, round)
    BY <1>3, <1>4, <2>1, Recursion
  <2>4. ASSUME NEW k \in 0..N
        PROVE  f[k] = IF k = 0 THEN start ELSE ParseLine(lines, k, f[k - 1])
    <3>1. CASE k = 0
      BY <2>3, <3>1 DEF Follows
    <3>2. CASE k # 0
      <4>1. k \in 1..N /\ f[k - 1] \in V
        BY <1>3, <3>2
      <4>2. f[k] = round[<<k, f[k - 1]>>]
        BY <2>3, <3>2 DEF Follows
      <4> QED
        BY <2>2, <3>2, <4>1, <4>2
    <3> QED
      BY <3>1, <3>2
  <2>5. f = [k \in 0..N |-> f[k]]
    OBVIOUS
  <2>6. Reads(f)
    BY <2>4, <2>5
  <2> QED
    BY <2>6
<1>8. Reads(after)
  <2> HIDE DEF Reads
  <2> QED
    BY <1>7
<1>9. \A k \in 0..N : after[k] = IF k = 0 THEN start ELSE ParseLine(lines, k, after[k - 1])
  <2> HIDE DEF after
  <2> QED
    BY <1>8
<1> HIDE DEF after, Reads
<1> DEFINE U == {k \in 0..N : after[k] \in V}
<1>10. 0 \in U
  <2>1. 0 \in 0..N
    BY <1>3
  <2> QED
    BY <1>4, <1>9, <2>1
<1>11. \A k \in 1..N : k - 1 \in U => k \in U
  <2> SUFFICES ASSUME NEW k \in 1..N, k - 1 \in U
               PROVE  k \in U
    OBVIOUS
  <2>1. after[k] = ParseLine(lines, k, after[k - 1]) /\ after[k - 1] \in V
    BY <1>3, <1>9
  <2> QED
    BY <1>5, <2>1
<1>12. \A k \in 0..N : k \in U
  <2> HIDE DEF U
  <2> QED
    BY <1>3, <1>10, <1>11, Induct
<1>13. N \in 0..N
  BY <1>3
<1>14. after[N].changes \in Seq(Changes)
  BY <1>6, <1>12, <1>13
<1>15. <<>> \in Seq(Changes)
  OBVIOUS
<1> QED
  BY <1>2, <1>14, <1>15

(* What the program's own linters say of a place.                          *)
Notes(l, path) ==
    {i \in IssueSet : i.linter = l /\ i.path = path /\ i.source = <<>> /\ (i.expect # None => l = "nolintlint")}

LEMMA Words ==
    /\ "" \in STRING /\ "gofmt" \in STRING /\ "nolintlint" \in STRING /\ "not machine" \in STRING
    /\ "not specific" \in STRING /\ "parse error" \in STRING /\ "unused" \in STRING
    /\ "no explanation" \in STRING /\ "not formatted" \in STRING
BY WordAssumption

LEMMA NewIssue ==
    ASSUME NEW l \in STRING, NEW path \in Paths, NEW line \in Int, NEW text \in STRING
    PROVE  Issue(l, path, line, text) \in IssueSet
<1>1. <<>> \in Seq(Chars)
  OBVIOUS
<1>2. "" \in STRING
  BY Words
<1> DEFINE e == <<>>
           w == ""
<1>3. e \in Seq(Chars) /\ w \in STRING
  BY <1>1, <1>2
<1>4. Issue(l, path, line, text) =
        [linter |-> l, path |-> path, line |-> line, col |-> 0, offset |-> line, text |-> text,
         severity |-> w, source |-> e, replacement |-> None, range |-> None, expect |-> None]
  BY DEF Issue
<1> HIDE DEF e, w
<1> QED
  BY <1>3, <1>4 DEF IssueSet

LEMMA ExtractFact ==
    ASSUME NEW path \in Paths, NEW hunks \in Seq(Hunks)
    PROVE  ExtractIssues("gofmt", path, hunks) \in Seq(Notes("gofmt", path))
<1> DEFINE l == "gofmt"
           M == Notes(l, path)
           Report(c) == [Issue(l, path, c.from, "not formatted") EXCEPT
                            !.offset = 0,
                            !.replacement = c.replacement,
                            !.range = IF c.from # c.to THEN [from |-> c.from, to |-> c.to] ELSE None]
           ss == [n \in DOMAIN hunks |-> [k \in DOMAIN Parse(hunks[n]) |-> Report(Parse(hunks[n])[k])]]
<1>1. ExtractIssues(l, path, hunks) = FlattenSeq(ss)
  BY DEF ExtractIssues, Map
<1>2. ASSUME NEW c \in Changes
      PROVE  Report(c) \in M
  <2> DEFINE i == Issue(l, path, c.from, "not formatted")
             r == IF c.from # c.to THEN [from |-> c.from, to |-> c.to] ELSE None
  <2>1. c.from \in Int /\ c.to \in Int /\ c.replacement \in Replacements
    BY DEF Changes
  <2>2. i \in IssueSet
    BY <2>1, Words, NewIssue
  <2>3. i.linter = l /\ i.path = path /\ i.source = <<>> /\ i.expect = None
    BY DEF Issue
  <2>4. r \in {None} \cup Ranges
    BY <2>1 DEF Ranges
  <2>5. Report(c) = [i EXCEPT !.offset = 0, !.replacement = c.replacement, !.range = r]
    OBVIOUS
  <2> HIDE DEF i, r, Report, l
  <2> DEFINE x == c.replacement
  <2>8. x \in {None} \cup Replacements /\ Report(c) = [i EXCEPT !.offset = 0, !.replacement = x, !.range = r]
    BY <2>1, <2>5
  <2> HIDE DEF x
  <2> DEFINE j == [i EXCEPT !.offset = 0]
             o == [j EXCEPT !.replacement = x]
  <2>9. j \in IssueSet /\ \A y : [j EXCEPT !.replacement = y] = [i EXCEPT !.offset = 0, !.replacement = y]
    BY <2>2 DEF IssueSet
  <2> HIDE DEF j
  <2>10. o \in IssueSet
    BY <2>8, <2>9 DEF IssueSet
  <2>11. [o EXCEPT !.range = r] = Report(c)
    BY <2>8, <2>9
  <2> HIDE DEF o
  <2>6. Report(c) \in IssueSet
    <3>1. [o EXCEPT !.range = r] \in IssueSet
      BY <2>4, <2>10 DEF IssueSet
    <3> QED
      BY <2>11, <3>1
  <2>7. /\ Report(c).linter = i.linter /\ Report(c).path = i.path /\ Report(c).source = i.source
        /\ Report(c).expect = i.expect
    BY <2>2, <2>5 DEF IssueSet
  <2> QED
    BY <2>3, <2>6, <2>7 DEF Notes
<1> HIDE DEF Report, M
<1>3. \A n \in DOMAIN hunks : Parse(hunks[n]) \in Seq(Changes)
  BY ParseFact
<1>4. \A n \in DOMAIN hunks : ss[n] \in Seq(M)
  <2> SUFFICES ASSUME NEW n \in DOMAIN hunks
               PROVE  ss[n] \in Seq(M)
    OBVIOUS
  <2> DEFINE p == Parse(hunks[n])
  <2>1. p \in Seq(Changes) /\ ss[n] = [k \in DOMAIN p |-> Report(p[k])]
    BY <1>3
  <2> HIDE DEF p, ss
  <2> QED
    BY <1>2, <2>1
<1>5. ss \in Seq(Seq(M))
  <2>1. DOMAIN hunks = 1..Len(hunks) /\ Len(hunks) \in Nat /\ DOMAIN ss = DOMAIN hunks
    OBVIOUS
  <2>2. ss = [n \in DOMAIN hunks |-> ss[n]]
    OBVIOUS
  <2> HIDE DEF ss
  <2> QED
    BY <1>4, <2>1, <2>2
<1> HIDE DEF ss
<1>6. FlattenSeq(ss) \in Seq(M)
  BY <1>5, FlattenFact
<1> QED
  BY <1>1, <1>6 DEF M

(* What nolintlint says of the directive d.                                *)
Said(path, d) ==
    {i \in Notes("nolintlint", path) :
        /\ i.line = d.line /\ i.col = d.col
        /\ i.expect # None => d.full /\ IF Named(d) = <<>> THEN i.expect = "" ELSE i.expect \in Range(Named(d))}

LEMMA ReportDirectiveFact ==
    ASSUME NEW path \in Paths, NEW d \in Directives, NEW needs, NEW excluded
    PROVE  ReportDirective(path, d, needs, excluded) \in Seq(Said(path, d))
<1> DEFINE l == "nolintlint"
           M == Said(path, d)
           report == [Issue(l, path, d.line, "") EXCEPT !.col = d.col]
           Calls(name) == d.full /\ IF Named(d) = <<>> THEN name = "" ELSE name \in Range(Named(d))
<1>1. /\ d.line \in Int /\ d.col \in Int /\ d.length \in Int /\ d.spaces \in Int
      /\ d.names \in Seq(STRING)
  BY Zenon DEF Directives
<1>2. /\ report \in IssueSet /\ report.linter = l /\ report.path = path /\ report.source = <<>> /\ report.expect = None
      /\ report.line = d.line /\ report.col = d.col
  <2> DEFINE i == Issue(l, path, d.line, "")
  <2>1. i \in IssueSet
    BY <1>1, Words, NewIssue
  <2>2. i.linter = l /\ i.path = path /\ i.source = <<>> /\ i.expect = None /\ i.line = d.line
    BY DEF Issue
  <2>3. report = [i EXCEPT !.col = d.col]
    OBVIOUS
  <2> HIDE DEF i, report, l
  <2> QED
    BY <1>1, <2>1, <2>2, <2>3 DEF IssueSet
<1>3. ASSUME NEW x \in {None} \cup Replacements, NEW t \in STRING, NEW e \in STRING, Calls(e)
      PROVE  [report EXCEPT !.text = t, !.expect = e, !.replacement = x] \in M
  <2> DEFINE i == [report EXCEPT !.text = t, !.expect = e, !.replacement = x]
  <2> HIDE DEF report
  <2>1. i \in IssueSet
    BY <1>2 DEF IssueSet
  <2>2. /\ i.linter = report.linter /\ i.path = report.path /\ i.source = report.source
        /\ i.line = report.line /\ i.col = report.col /\ i.expect = e
    BY <1>2 DEF IssueSet
  <2> HIDE DEF i
  <2>3. i \in Notes(l, path)
    BY <1>2, <2>1, <2>2 DEF Notes
  <2>4. i.line = d.line /\ i.col = d.col /\ i.expect = e
    BY <1>2, <2>2
  <2> HIDE DEF report
  <2> QED
    BY <1>3, <2>3, <2>4 DEF Said, i
<1>4. ASSUME NEW t \in STRING
      PROVE  [report EXCEPT !.text = t] \in M
  <2> DEFINE i == [report EXCEPT !.text = t]
  <2> HIDE DEF report
  <2>1. i \in IssueSet
    BY <1>2 DEF IssueSet
  <2>2. /\ i.linter = report.linter /\ i.path = report.path /\ i.source = report.source /\ i.expect = report.expect
        /\ i.line = report.line /\ i.col = report.col
    BY <1>2 DEF IssueSet
  <2> HIDE DEF i
  <2> QED
    BY <1>2, <2>1, <2>2 DEF Said, Notes, i
<1>5. ASSUME NEW t \in STRING, NEW x \in Replacements
      PROVE  [report EXCEPT !.text = t, !.replacement = x] \in M
  <2> DEFINE i == [report EXCEPT !.text = t, !.replacement = x]
  <2> HIDE DEF report
  <2>1. i \in IssueSet
    BY <1>2 DEF IssueSet
  <2>2. /\ i.linter = report.linter /\ i.path = report.path /\ i.source = report.source /\ i.expect = report.expect
        /\ i.line = report.line /\ i.col = report.col
    BY <1>2 DEF IssueSet
  <2> HIDE DEF i
  <2> QED
    BY <1>2, <2>1, <2>2 DEF Said, Notes, i
<1>6. \A a, b \in Int : Inline(a, b, <<>>) \in Replacements
  <2> DEFINE e == <<>>
  <2>1. e \in Chars /\ <<>> \in Seq(Chars)
    BY DEF Chars
  <2> HIDE DEF e
  <2>2. \A a, b \in Int : Inline(a, b, e) \in Replacements
    BY <2>1 DEF Inline, Replacements, InlineFixes
  <2> QED
    BY <2>2 DEF e
<1> HIDE DEF M, report
<1>7. NotMachine(d, report) \in Seq(M)
  <2>1. d.col + 1 \in Int
    BY <1>1
  <2>2. Inline(d.col + 1, d.spaces, <<>>) \in Replacements
    BY <1>1, <1>6, <2>1
  <2> DEFINE x == Inline(d.col + 1, d.spaces, <<>>)
  <2>3. x \in Replacements /\ NotMachine(d, report) = IF d.spaces = 0 THEN <<>>
                              ELSE <<[report EXCEPT !.text = "not machine", !.replacement = x]>>
    BY <2>2 DEF NotMachine
  <2> HIDE DEF x
  <2>4. [report EXCEPT !.text = "not machine", !.replacement = x] \in M
    BY <1>5, <2>3, Words
  <2> DEFINE i == [report EXCEPT !.text = "not machine", !.replacement = x]
  <2> HIDE DEF i
  <2> QED
    BY <2>3, <2>4 DEF i
<1>8. NotSpecific(d, report, needs) \in Seq(M)
  <2> DEFINE i == [report EXCEPT !.text = "not specific"]
  <2>1. i \in M
    BY <1>4, Words
  <2>2. NotSpecific(d, report, needs) = <<i>> \/ NotSpecific(d, report, needs) = <<>>
    BY DEF NotSpecific
  <2> HIDE DEF i
  <2>3. <<i>> \in Seq(M) /\ <<>> \in Seq(M)
    BY <2>1
  <2> QED
    BY <2>2, <2>3, Zenon
<1>9. NoExplanation(d, report, needs, excluded) \in Seq(M)
  <2> DEFINE i == [report EXCEPT !.text = "no explanation"]
  <2>1. i \in M
    BY <1>4, Words
  <2>2. NoExplanation(d, report, needs, excluded) = <<i>> \/ NoExplanation(d, report, needs, excluded) = <<>>
    BY DEF NoExplanation
  <2> HIDE DEF i
  <2>3. <<i>> \in Seq(M) /\ <<>> \in Seq(M)
    BY <2>1
  <2> QED
    BY <2>2, <2>3, Zenon
<1>10. ASSUME d.full
       PROVE  UnusedCandidates(d, report, needs) \in Seq(M)
  <2> DEFINE removal == IF d.col = 1 THEN OnlyDelete ELSE Inline(d.col - 1, d.length, <<>>)
             x == IF Len(Named(d)) <= 1 THEN removal ELSE None
             Candidate(name) == [report EXCEPT !.text = "unused", !.expect = name, !.replacement = x]
             names == Named(d)
  <2>1. names \in Seq(STRING)
    <3>1. <<>> \in Seq(STRING)
      OBVIOUS
    <3> QED
      BY <1>1, <3>1 DEF Named
  <2>2. removal \in Replacements
    <3>1. OnlyDelete \in Replacements
      <4>1. <<>> \in Seq(Chars)
        OBVIOUS
      <4> QED
        BY <4>1, NewLinesFact
    <3>2. d.col - 1 \in Int
      BY <1>1
    <3> QED
      BY <1>1, <1>6, <3>1, <3>2
  <2> HIDE DEF removal
  <2>3. x \in {None} \cup Replacements
    BY <2>2
  <2>4. UnusedCandidates(d, report, needs) =
            CASE "unused" \notin needs -> <<>>
              [] "unused" \in needs /\ names = <<>> -> <<Candidate("")>>
              [] OTHER -> [k \in DOMAIN names |-> Candidate(names[k])]
    BY DEF UnusedCandidates, removal
  <2>5. \A name \in STRING : Calls(name) => Candidate(name) \in M
    <3> HIDE DEF x, Calls
    <3> QED
      BY <1>3, <2>3, Words
  <2>12. names = <<>> => Calls("")
    BY <1>10
  <2>13. \A k \in DOMAIN names : Calls(names[k])
    <3>1. names # <<>> => \A k \in DOMAIN names : names[k] \in Range(names)
      BY DEF Range
    <3>2. names = <<>> => \A k \in DOMAIN names : FALSE
      OBVIOUS
    <3> HIDE DEF names
    <3> QED
      BY <1>10, <3>1, <3>2 DEF names
  <2> HIDE DEF x, names, Calls
  <2>6. names = <<>> => Candidate("") \in M
    BY <2>5, <2>12, Words
  <2> HIDE DEF Candidate
  <2>7. \A k \in DOMAIN names : Candidate(names[k]) \in M
    <3>1. \A k \in DOMAIN names : names[k] \in STRING
      BY <2>1
    <3> QED
      BY <2>5, <2>13, <3>1
  <2>8. [k \in DOMAIN names |-> Candidate(names[k])] \in Seq(M)
    BY <2>1, <2>7
  <2> DEFINE i == Candidate("")
             t == [k \in DOMAIN names |-> Candidate(names[k])]
  <2>9. \/ UnusedCandidates(d, report, needs) = <<>>
        \/ names = <<>> /\ UnusedCandidates(d, report, needs) = <<i>>
        \/ UnusedCandidates(d, report, needs) = t
    BY <2>4
  <2>10. (names = <<>> => i \in M) /\ t \in Seq(M)
    BY <2>6, <2>8
  <2> HIDE DEF i, t, names
  <2>11. (i \in M => <<i>> \in Seq(M)) /\ <<>> \in Seq(M)
    OBVIOUS
  <2> QED
    BY <2>9, <2>10, <2>11, Zenon
<1>11. IF ~d.full THEN <<[report EXCEPT !.text = "parse error"]>> \in Seq(M) ELSE TRUE
  <2> DEFINE i == [report EXCEPT !.text = "parse error"]
  <2>1. i \in M
    BY <1>4, Words
  <2> HIDE DEF i
  <2>2. <<i>> \in Seq(M)
    BY <2>1
  <2> QED
    BY <2>2 DEF i
<1> DEFINE rest == IF ~d.full THEN <<[report EXCEPT !.text = "parse error"]>>
                   ELSE NotSpecific(d, report, needs) \o UnusedCandidates(d, report, needs)
                        \o NoExplanation(d, report, needs, excluded)
<1>12. rest \in Seq(M)
  <2>1. d.full => NotSpecific(d, report, needs) \o UnusedCandidates(d, report, needs)
                     \o NoExplanation(d, report, needs, excluded) \in Seq(M)
    BY <1>8, <1>9, <1>10
  <2> QED
    BY <1>11, <2>1
<1>13. ReportDirective(path, d, needs, excluded) = NotMachine(d, report) \o rest
  BY DEF ReportDirective, report
<1> HIDE DEF rest
<1>14. ReportDirective(path, d, needs, excluded) \in Seq(M)
  BY <1>7, <1>12, <1>13
<1> QED
  BY <1>14 DEF M

LEMMA NolintlintFact ==
    ASSUME NEW path \in Paths, NEW ds \in Seq(Directives), NEW needs, NEW excluded
    PROVE  RunNolintlint(path, ds, needs, excluded) \in Seq(UNION {Said(path, ds[k]) : k \in DOMAIN ds})
<1> DEFINE M == UNION {Said(path, ds[k]) : k \in DOMAIN ds}
           ss == [k \in DOMAIN ds |-> ReportDirective(path, ds[k], needs, excluded)]
<1>1. RunNolintlint(path, ds, needs, excluded) = FlattenSeq(ss)
  BY DEF RunNolintlint
<1>2. \A k \in DOMAIN ds : ds[k] \in Directives
  OBVIOUS
<1>3. ASSUME NEW k \in DOMAIN ds
      PROVE  ReportDirective(path, ds[k], needs, excluded) \in Seq(M)
  <2> DEFINE S == Said(path, ds[k])
             t == ReportDirective(path, ds[k], needs, excluded)
  <2>1. t \in Seq(S) /\ S \subseteq M
    BY <1>2, ReportDirectiveFact
  <2> HIDE DEF S, t, M
  <2> QED
    BY <2>1 DEF t
<1> HIDE DEF M
<1>4. ss \in Seq(Seq(M))
  BY <1>3
<1> HIDE DEF ss
<1>5. FlattenSeq(ss) \in Seq(M)
  BY <1>4, FlattenFact
<1> QED
  BY <1>1, <1>5 DEF M

(* Whoever reports it, an issue is one that the processors can handle.     *)
Renamed(i, l) == IF i.linter = "" THEN [i EXCEPT !.linter = l] ELSE i

LEMMA RenamedFact ==
    ASSUME NEW i \in IssueSet, NEW l \in STRING
    PROVE  /\ Renamed(i, l) \in IssueSet
           /\ Renamed(i, l).linter = IF i.linter = "" THEN l ELSE i.linter
           /\ Renamed(i, l).path = i.path /\ Renamed(i, l).source = i.source /\ Renamed(i, l).expect = i.expect
           /\ Renamed(i, l).replacement = i.replacement
BY DEF Renamed, IssueSet

LEMMA ParsedFiles ==
    ASSUME scenario \in Scenarios, source = scenario.source
    PROVE  LET files == InOrder({f \in DOMAIN source : source[f].parses}, FileRank)
           IN  files \in Seq({f \in DOMAIN source : source[f].parses}) /\ files \in Seq(DOMAIN source)
               /\ DOMAIN source \subseteq FileNames /\ source \in [DOMAIN source -> Files] /\ IsFiniteSet(DOMAIN source)
<1> DEFINE S == {f \in DOMAIN source : source[f].parses}
           files == InOrder(S, FileRank)
<1>1. FilesystemOf(scenario)
  BY ScenarioAssumption
<1>2. DOMAIN source \subseteq FileNames /\ IsFiniteSet(DOMAIN source) /\ source \in [DOMAIN source -> Files]
  BY <1>1 DEF FilesystemOf
<1>3. IsFiniteSet(S)
  BY <1>2, FS_Subset
<1>4. /\ \A x \in S : FileRank[x] \in Int
      /\ \A x, y \in S : FileRank[x] = FileRank[y] => x = y
  <2>1. S \subseteq DOMAIN FileRank
    BY OrderAssumption
  <2> HIDE DEF S
  <2>2. \A f \in DOMAIN FileRank : FileRank[f] \in Int
    BY OrderAssumption
  <2>3. \A f, g \in DOMAIN FileRank : FileRank[f] = FileRank[g] => f = g
    BY OrderAssumption
  <2> QED
    BY <2>1, <2>2, <2>3
<1>5. S \subseteq DOMAIN source
  OBVIOUS
<1> HIDE DEF S
<1>6. files \in Seq(S)
  BY <1>3, <1>4, InOrderFact
<1>7. files \in Seq(DOMAIN source)
  BY <1>5, <1>6
<1> QED
  BY <1>2, <1>6, <1>7 DEF S

(* What linters report is the least that is asked of an issue.             *)
LEMMA FirstGood ==
    ASSUME NEW n \in Int, n <= 1, NEW c, NEW src, NEW sk, NEW i,
           TypeCheck(i) => i.path # None /\ i.replacement = None,
           i.expect # None => i.linter = "nolintlint",
           i.source = <<>>,
           GoPlace(i) => \/ FileOf(i.path) \in DOMAIN src \/ Adjusted(i, src)
                         \/ i.path.dir = GoCache \/ i.path.base = "_cgo_gotypes"
    PROVE  Good(i, n, c, src, sk)
<1>1. ~(n > 3) /\ ~(n > 4) /\ ~(n > 5) /\ ~(n > 6) /\ ~(n > 7) /\ ~(n > 9) /\ ~(n > 10) /\ n <= 2
  OBVIOUS
<1>2. Plain(i, n)
  BY <1>1 DEF Plain
<1>3. Located(i, n, src)
  BY <1>1 DEF Located
<1>4. PathPasses(i, n, c) /\ Handwritten(i, n, c, src, sk) /\ TextPasses(i, n, c, src)
  BY <1>1 DEF PathPasses, Handwritten, TextPasses
<1> QED
  BY <1>2, <1>3, <1>4 DEF Good, Passes

LEMMA NoteGood ==
    ASSUME NEW c, NEW src, NEW sk, NEW l \in {"nolintlint", "gofmt"}, NEW f \in DOMAIN src, f \in FileNames,
           NEW i \in Notes(l, Path(f[1], f[2], f[3]))
    PROVE  i \in IssueSet /\ Renamed(i, l) = i /\ Good(i, 0, c, src, sk)
<1>1. /\ i \in IssueSet /\ i.linter = l /\ i.path = Path(f[1], f[2], f[3]) /\ i.source = <<>>
      /\ (i.expect # None => l = "nolintlint")
  BY DEF Notes
<1>2. ~TypeCheck(i) /\ i.linter # ""
  BY <1>1 DEF TypeCheck
<1>3. FileOf(i.path) \in DOMAIN src
  BY <1>1 DEF FileOf, Path, FileNames
<1>4. Renamed(i, l) = i
  BY <1>2 DEF Renamed
<1> DEFINE n == 0
<1>5. n \in Int /\ n <= 1
  OBVIOUS
<1> HIDE DEF n
<1>6. Good(i, n, c, src, sk)
  BY <1>1, <1>2, <1>3, <1>5, FirstGood
<1> QED
  BY <1>1, <1>4, <1>6 DEF n

(* What is said of a directive in the files that the loader has parsed.    *)
Directed(s, src) == \A k \in DOMAIN s : FromDirective(s[k], src)

LEMMA SaidFact ==
    ASSUME NEW src, PlacedDirectives(src), NEW f \in DOMAIN src, f \in FileNames, src[f].parses,
           NEW k \in DOMAIN src[f].directives, NEW path, path = Path(f[1], f[2], f[3]),
           NEW i \in Said(path, src[f].directives[k])
    PROVE  FromDirective(i, src)
<1> DEFINE ds == src[f].directives
           Calls(d) == d.full /\ IF Named(d) = <<>> THEN i.expect = "" ELSE i.expect \in Range(Named(d))
<1>1. /\ i.linter = "nolintlint" /\ i.path = path /\ i.line = ds[k].line /\ i.col = ds[k].col
      /\ i.expect # None => Calls(ds[k])
  BY DEF Said, Notes
<1>2. path # None /\ FileOf(path) = f
  <2>1. path \in Paths /\ FileOf(path) = f
    BY DEF Path, Paths, FileOf, FileNames
  <2> QED
    BY <2>1, NoneAssumption
<1>3. ds # <<>>
  OBVIOUS
<1>4. \A j \in DOMAIN ds : ds[j].line = i.line /\ ds[j].col = i.col => j = k
  BY <1>1 DEF PlacedDirectives
<1> HIDE DEF Calls
<1>5. i.expect # None => \A j \in DOMAIN ds : ds[j].line = i.line /\ ds[j].col = i.col => Calls(ds[j])
  BY <1>1, <1>4
<1> QED
  BY <1>1, <1>2, <1>3, <1>5 DEF FromDirective, Calls

LEMMA ReportsFact ==
    ASSUME scenario \in Scenarios, source = scenario.source,
           NEW k \in DOMAIN scenario.linters, scenario.linters[k] \notin scenario.faults
    PROVE  LET l == scenario.linters[k]
           IN  /\ l \in STRING
               /\ Reports(l) \in Seq(IssueSet)
               /\ \A j \in DOMAIN Reports(l) : /\ Good(Renamed(Reports(l)[j], l), 0, cfg, source, skipped)
                                               /\ FromDirective(Renamed(Reports(l)[j], l), source)
<1> DEFINE l == scenario.linters[k]
           S == {f \in DOMAIN source : source[f].parses}
           files == InOrder(S, FileRank)
           path(n) == Path(files[n][1], files[n][2], files[n][3])
           Fine(i) == Good(i, 0, cfg, source, skipped) /\ FromDirective(i, source)
           M == {i \in IssueSet : Fine(Renamed(i, l))}
<1>1. /\ files \in Seq(DOMAIN source) /\ DOMAIN source \subseteq FileNames
      /\ source \in [DOMAIN source -> Files] /\ IsFiniteSet(DOMAIN source)
  BY ParsedFiles
<1>2. l \in STRING
  <2>1. scenario.linters \in Seq(STRING)
    BY ScenarioAssumption
  <2> QED
    BY <2>1
<1>7. files \in Seq(S)
  BY ParsedFiles
<1>8. PlacedDirectives(source)
  BY DirectiveAssumption
<1> HIDE DEF S, files
<1>3. ASSUME NEW n \in DOMAIN files
      PROVE  /\ files[n] \in DOMAIN source /\ files[n] \in FileNames /\ path(n) \in Paths
             /\ source[files[n]].parses
  <2>1. files[n] \in DOMAIN source /\ files[n] \in FileNames
    BY <1>1
  <2>2. files[n] \in S
    BY <1>7
  <2> QED
    BY <2>1, <2>2 DEF Path, Paths, FileNames, S
<1>4. CASE l = "nolintlint"
  <2> DEFINE ss == [n \in DOMAIN files |->
                      RunNolintlint(path(n), source[files[n]].directives, cfg.needs, cfg.allowNoExplanation)]
  <2>1. Reports(l) = FlattenSeq(ss)
    BY <1>4 DEF Reports, files, S
  <2>2. ASSUME NEW n \in DOMAIN files
        PROVE  ss[n] \in Seq(M)
    <3> DEFINE p == path(n)
               t == RunNolintlint(p, source[files[n]].directives, cfg.needs, cfg.allowNoExplanation)
    <3>1. source[files[n]].directives \in Seq(Directives)
      BY <1>1, <1>3, FileParts
    <3>2. p \in Paths
      BY <1>3
    <3> HIDE DEF p
    <3> DEFINE ds == source[files[n]].directives
               Sayings == UNION {Said(p, ds[m]) : m \in DOMAIN ds}
    <3>3. t \in Seq(Sayings)
      BY <3>1, <3>2, NolintlintFact
    <3>4. Sayings \subseteq M
      <4> SUFFICES ASSUME NEW m \in DOMAIN ds, NEW i \in Said(p, ds[m])
                   PROVE  i \in IssueSet /\ Fine(Renamed(i, l))
        OBVIOUS
      <4>1. i \in Notes("nolintlint", p)
        BY DEF Said
      <4>2. i \in IssueSet /\ Renamed(i, l) = i /\ Good(i, 0, cfg, source, skipped)
        <5> HIDE DEF ds
        <5> QED
          BY SMTT(30), <1>3, <1>4, <4>1, NoteGood DEF p
      <4>3. FromDirective(i, source)
        BY <1>3, <1>8, SaidFact DEF p
      <4> QED
        BY <4>2, <4>3
    <3>5. ss[n] = t
      BY DEF p
    <3> HIDE DEF t, M, ss, Sayings
    <3> QED
      BY <3>3, <3>4, <3>5
  <2> HIDE DEF path, M
  <2>3. ss \in Seq(Seq(M))
    BY <1>1, <2>2
  <2> HIDE DEF ss
  <2>4. Reports(l) \in Seq(M)
    BY <2>1, <2>3, FlattenFact
  <2> QED
    BY <1>2, <2>4 DEF M
<1>5. CASE l = "gofmt"
  <2> DEFINE Piece(n) == IF files[n] \in DOMAIN scenario.hunks
                         THEN ExtractIssues(l, path(n), scenario.hunks[files[n]]) ELSE <<>>
             ss == [n \in DOMAIN files |-> Piece(n)]
  <2>1. Reports(l) = FlattenSeq(ss)
    BY <1>5 DEF Reports, files, S
  <2>2. ASSUME NEW n \in DOMAIN files
        PROVE  Piece(n) \in Seq(M)
    <3> DEFINE p == path(n)
               h == scenario.hunks[files[n]]
    <3>1. CASE files[n] \in DOMAIN scenario.hunks
      <4>1. h \in Seq(Hunks)
        BY <3>1, ScenarioAssumption
      <4>2. p \in Paths
        BY <1>3
      <4>3. Piece(n) = ExtractIssues("gofmt", p, h)
        BY <1>5, <3>1
      <4>4. Notes("gofmt", p) \subseteq M
        <5> SUFFICES ASSUME NEW i \in Notes("gofmt", p)
                     PROVE  i \in IssueSet /\ Fine(Renamed(i, l))
          OBVIOUS
        <5>1. i \in IssueSet /\ Renamed(i, l) = i /\ Good(i, 0, cfg, source, skipped)
          BY <1>3, <1>5, NoteGood
        <5>2. i.expect = None
          BY DEF Notes
        <5> HIDE DEF p
        <5> QED
          BY <5>1, <5>2 DEF FromDirective
      <4> HIDE DEF p, h, Piece, M
      <4>5. ExtractIssues("gofmt", p, h) \in Seq(Notes("gofmt", p))
        BY <4>1, <4>2, ExtractFact
      <4> QED
        BY <4>3, <4>4, <4>5
    <3>2. CASE files[n] \notin DOMAIN scenario.hunks
      <4>1. Piece(n) = <<>>
        BY <3>2
      <4> HIDE DEF Piece, M
      <4> QED
        BY <4>1
    <3> QED
      BY <3>1, <3>2
  <2> HIDE DEF Piece, M
  <2>3. ss \in Seq(Seq(M))
    BY <1>1, <2>2
  <2> HIDE DEF ss
  <2>4. Reports(l) \in Seq(M)
    BY <2>1, <2>3, FlattenFact
  <2> QED
    BY <1>2, <2>4 DEF M
<1>6. CASE l \notin {"nolintlint", "gofmt"}
  <2> DEFINE r == scenario.finds[l]
  <2>1. Reports(l) = r
    BY <1>6 DEF Reports
  <2>2. r \in Seq(IssueSet) /\ \A j \in DOMAIN r : Reportable(r[j], l, scenario)
    <3>1. l \notin {"nolintlint", "gofmt"} \cup scenario.faults
      BY <1>6
    <3> QED
      BY <3>1, ScenarioAssumption, Zenon
  <2> HIDE DEF r, l
  <2>3. ASSUME NEW i \in IssueSet, Reportable(i, l, scenario)
        PROVE  Fine(Renamed(i, l))
    <3> DEFINE j == Renamed(i, l)
    <3>1. /\ j.linter = IF i.linter = "" THEN l ELSE i.linter
          /\ j.path = i.path /\ j.source = i.source /\ j.expect = i.expect /\ j.replacement = i.replacement
      BY <1>2, RenamedFact
    <3> HIDE DEF j
    <3>2. TypeCheck(j) => j.path # None /\ j.replacement = None
      BY <2>3, <3>1 DEF Reportable, TypeCheck
    <3>3. j.source = <<>> /\ j.expect = None
      BY <2>3, <3>1 DEF Reportable
    <3>4. GoPlace(j) => \/ FileOf(j.path) \in DOMAIN source \/ Adjusted(j, source)
                        \/ j.path.dir = GoCache \/ j.path.base = "_cgo_gotypes"
      BY <2>3, <3>1 DEF GoPlace, Adjusted, Reportable
    <3> DEFINE n == 0
    <3>5. n \in Int /\ n <= 1
      OBVIOUS
    <3> HIDE DEF n
    <3>6. Good(j, n, cfg, source, skipped)
      BY <3>2, <3>3, <3>4, <3>5, FirstGood
    <3>7. FromDirective(j, source)
      BY <3>3 DEF FromDirective
    <3> QED
      BY <3>6, <3>7 DEF n, j
  <2> HIDE DEF Fine
  <2>4. \A j \in DOMAIN r : r[j] \in IssueSet /\ Fine(Renamed(r[j], l))
    BY <2>2, <2>3
  <2> QED
    BY <1>2, <2>1, <2>2, <2>4 DEF l, Fine
<1> QED
  BY <1>4, <1>5, <1>6

-----------------------------------------------------------------------------
(* What nolintlint says of a directive, on its way to the processor.       *)
LEMMA KeptDirected ==
    ASSUME NEW src, NEW s \in Seq(IssueSet), Directed(s, src), NEW K \in SUBSET (DOMAIN s)
    PROVE  Directed(Kept(s, K), src)
<1>1. \A n \in DOMAIN Kept(s, K) : \E k \in K : Kept(s, K)[n] = s[k]
  BY KeptFact
<1> QED
  BY <1>1 DEF Directed

LEMMA FiltersDirected ==
    ASSUME NEW src, NEW c, NEW s \in Seq(IssueSet), Directed(s, src)
    PROVE  /\ Directed(Cgo(s), src) /\ Directed(InvalidIssue(s), src)
           /\ Directed(SkipFiles(s, c), src) /\ Directed(SkipDirs(s, c), src)
           /\ Directed(AutogeneratedExclude(s, c, src), src)
           /\ Directed(Exclude(s, c), src) /\ Directed(ExcludeRules(s, c, src), src)
<1> DEFINE Cut(t) == \E K \in SUBSET (DOMAIN s) : t = Kept(s, K)
<1>1. Cut(Cgo(s))
  BY DEF Cgo, Filter, Select
<1>2. Cut(InvalidIssue(s))
  BY DEF InvalidIssue, Filter, Select
<1>3. Cut(SkipFiles(s, c))
  BY DEF SkipFiles, Filter, Select
<1>4. Cut(SkipDirs(s, c))
  BY DEF SkipDirs, Filter, Select
<1>5. c.generated # "disable" => Cut(AutogeneratedExclude(s, c, src))
  BY DEF AutogeneratedExclude, Filter, Select
<1>6. c.generated = "disable" => AutogeneratedExclude(s, c, src) = s
  BY DEF AutogeneratedExclude
<1>7. Cut(Exclude(s, c))
  BY DEF Exclude, Filter, Select
<1>8. Cut(ExcludeRules(s, c, src))
  BY DEF ExcludeRules, Filter, Select
<1>9. \A t : Cut(t) => Directed(t, src)
  BY KeptDirected
<1> HIDE DEF Cut
<1> QED
  BY <1>1, <1>2, <1>3, <1>4, <1>5, <1>6, <1>7, <1>8, <1>9

(* Changes that leave the place and what is said.                          *)
LEMMA MapDirected ==
    ASSUME NEW src, NEW s, Directed(s, src), NEW t, DOMAIN t = DOMAIN s,
           \A k \in DOMAIN s : LET i == s[k]
                                   j == t[k]
                               IN  /\ j.expect = i.expect /\ j.linter = i.linter /\ j.line = i.line /\ j.col = i.col
                                   /\ i.path # None => j.path # None /\ FileOf(j.path) = FileOf(i.path)
    PROVE  Directed(t, src)
<1> SUFFICES ASSUME NEW k \in DOMAIN s, t[k].expect # None
             PROVE  FromDirective(t[k], src)
  BY DEF Directed, FromDirective
<1> DEFINE i == s[k]
           j == t[k]
<1>1. FromDirective(i, src) /\ i.expect # None
  BY DEF Directed
<1>2. /\ j.expect = i.expect /\ j.linter = i.linter /\ j.line = i.line /\ j.col = i.col
      /\ j.path # None /\ FileOf(j.path) = FileOf(i.path)
  BY <1>1 DEF FromDirective
<1> HIDE DEF i, j
<1>3. FromDirective(j, src)
  BY <1>1, <1>2 DEF FromDirective
<1> QED
  BY <1>3 DEF j

LEMMA PrettifierDirected ==
    ASSUME NEW src, NEW s \in Seq(IssueSet), Directed(s, src)
    PROVE  Directed(PathPrettifier(s), src)
<1> DEFINE t == PathPrettifier(s)
           Pretty(i) == IF i.path = None THEN i ELSE [i EXCEPT !.path.abs = FALSE]
<1>1. t = [k \in DOMAIN s |-> Pretty(s[k])]
  BY DEF PathPrettifier, Map
<1>2. ASSUME NEW i \in IssueSet
      PROVE  LET j == Pretty(i)
             IN  /\ j.expect = i.expect /\ j.linter = i.linter /\ j.line = i.line /\ j.col = i.col
                 /\ i.path # None => j.path # None /\ FileOf(j.path) = FileOf(i.path)
  <2>1. CASE i.path = None
    BY <2>1
  <2>2. CASE i.path # None
    <3> DEFINE p == [i.path EXCEPT !.abs = FALSE]
               j == Pretty(i)
    <3>1. i.path \in Paths
      BY <2>2 DEF IssueSet
    <3>2. p \in Paths /\ FileOf(p) = FileOf(i.path)
      BY <3>1 DEF Paths, FileOf
    <3>3. p # None
      BY <3>2, NoneAssumption
    <3>4. j = [i EXCEPT !.path = p]
      BY <2>2
    <3> HIDE DEF p, j
    <3>5. j.expect = i.expect /\ j.linter = i.linter /\ j.line = i.line /\ j.col = i.col /\ j.path = p
      BY <3>4 DEF IssueSet
    <3> QED
      BY <3>2, <3>3, <3>5 DEF j
  <2> QED
    BY <2>1, <2>2
<1> HIDE DEF t, Pretty
<1>3. DOMAIN t = DOMAIN s /\ \A k \in DOMAIN s : t[k] = Pretty(s[k]) /\ s[k] \in IssueSet
  BY <1>1
<1> QED
  BY <1>2, <1>3, MapDirected DEF t

LEMMA MarkerDirected ==
    ASSUME NEW src, NEW s \in Seq(IssueSet), Directed(s, src)
    PROVE  Directed(IdentifierMarker(s), src)
<1> DEFINE t == IdentifierMarker(s)
           Marked(i) == [i EXCEPT !.text = IF @ \in DOMAIN Mark THEN Mark[@] ELSE @]
<1>1. t = [k \in DOMAIN s |-> Marked(s[k])]
  BY DEF IdentifierMarker, Map
<1>2. ASSUME NEW i \in IssueSet
      PROVE  LET j == Marked(i)
             IN  /\ j.expect = i.expect /\ j.linter = i.linter /\ j.line = i.line /\ j.col = i.col
                 /\ i.path # None => j.path # None /\ FileOf(j.path) = FileOf(i.path)
  BY DEF IssueSet
<1> HIDE DEF t, Marked
<1>3. DOMAIN t = DOMAIN s /\ \A k \in DOMAIN s : t[k] = Marked(s[k]) /\ s[k] \in IssueSet
  BY <1>1
<1> QED
  BY <1>2, <1>3, MapDirected DEF t

(* A file with a directive is the file that its own names tell.            *)
LEMMA UnadjusterDirected ==
    ASSUME NEW src, PlacedDirectives(src), NEW s \in Seq(IssueSet), Directed(s, src)
    PROVE  Directed(FilenameUnadjuster(s, src), src)
<1> DEFINE t == FilenameUnadjuster(s, src)
           Origin(i) == {f \in DOMAIN src : src[f].parses /\ src[f].adjusted = FileOf(i.path) /\ f[3] = ".go"}
           Moved(i, f) == [i EXCEPT !.path = [Path(f[1], f[2], f[3]) EXCEPT !.abs = TRUE],
                                    !.line = Max({i.offset, 1})]
           Unadjusted(i) == IF i.path = None \/ Origin(i) = {} THEN i
                            ELSE LET f == CHOOSE f \in Origin(i) : TRUE IN Moved(i, f)
<1>1. t = [k \in DOMAIN s |-> Unadjusted(s[k])]
  BY DEF FilenameUnadjuster, Map
<1>2. ASSUME NEW i \in IssueSet, FromDirective(i, src)
      PROVE  FromDirective(Unadjusted(i), src)
  <2>1. CASE i.expect = None
    <3>1. \A f : Moved(i, f).expect = None
      BY <2>1 DEF IssueSet
    <3> HIDE DEF Moved, Origin
    <3>2. Unadjusted(i).expect = None
      BY <2>1, <3>1
    <3> HIDE DEF Unadjusted
    <3> QED
      BY <3>2 DEF FromDirective
  <2>2. CASE i.expect # None
    <3>1. FileOf(i.path) \in DOMAIN src /\ src[FileOf(i.path)].directives # <<>>
      BY <1>2, <2>2 DEF FromDirective
    <3>2. Origin(i) = {}
      BY <3>1 DEF PlacedDirectives
    <3>3. Unadjusted(i) = i
      BY <3>2
    <3> QED
      BY <1>2, <3>3
  <2> QED
    BY <2>1, <2>2
<1> HIDE DEF t, Unadjusted
<1>3. DOMAIN t = DOMAIN s /\ \A k \in DOMAIN s : t[k] = Unadjusted(s[k]) /\ s[k] \in IssueSet
  BY <1>1
<1> QED
  BY <1>2, <1>3 DEF t, Directed

-----------------------------------------------------------------------------
(* The issues that will be fixed, on their way to the fixer: only the      *)
(* source lines and the severity of one are filled in.                     *)
Same(j, i) == [j EXCEPT !.source = <<>>, !.severity = i.severity] = i

Carried(u, s) == \A k \in DOMAIN u : u[k].replacement # None => \E j \in DOMAIN s : Same(s[j], u[k])

LEMMA SameReplacement ==
    ASSUME NEW j \in IssueSet, NEW i \in IssueSet, Same(j, i)
    PROVE  j.replacement = i.replacement
<1> DEFINE m == [j EXCEPT !.source = <<>>]
           o == [m EXCEPT !.severity = i.severity]
<1>1. m.replacement = j.replacement
  OBVIOUS
<1> HIDE DEF m
<1>2. o.replacement = m.replacement
  OBVIOUS
<1>3. o = i
  BY DEF Same, m
<1> HIDE DEF o
<1> QED
  BY <1>1, <1>2, <1>3

LEMMA SameSource ==
    ASSUME NEW j \in IssueSet, NEW i \in IssueSet, Same(j, i), NEW x
    PROVE  Same([j EXCEPT !.source = x], i)
BY DEF Same, IssueSet

LEMMA SameSeverity ==
    ASSUME NEW j \in IssueSet, NEW i \in IssueSet, Same(j, i), NEW x
    PROVE  Same([j EXCEPT !.severity = x], i)
BY DEF Same, IssueSet

LEMMA SameItself ==
    ASSUME NEW i \in IssueSet, i.source = <<>>
    PROVE  Same(i, i)
BY DEF Same, IssueSet

LEMMA LimitCarries ==
    ASSUME NEW n, NEW c, NEW src, NEW sk, NEW s \in Seq(IssueSet), NEW new, Limits(new, s, n, c, src, sk), c.fix,
           NEW u \in Seq(IssueSet), Carried(u, s)
    PROVE  Carried(u, new)
<1> SUFFICES ASSUME NEW k \in DOMAIN u, u[k].replacement # None
             PROVE  \E j \in DOMAIN new : Same(new[j], u[k])
  BY DEF Carried
<1>1. PICK j \in DOMAIN s : Same(s[j], u[k])
  BY DEF Carried
<1>2. s[j] \in IssueSet /\ u[k] \in IssueSet
  OBVIOUS
<1>3. ToBeFixed(s[j], c)
  BY <1>1, <1>2, SameReplacement DEF ToBeFixed
<1>4. PICK m \in DOMAIN new : new[m] = s[j]
  BY <1>3 DEF Limits
<1> QED
  BY <1>1, <1>4

LEMMA SourceCarries ==
    ASSUME NEW s \in Seq(IssueSet), NEW src, NEW u \in Seq(IssueSet), Carried(u, s)
    PROVE  Carried(u, SourceCode(s, src))
<1> DEFINE t == SourceCode(s, src)
<1>1. DOMAIN t = DOMAIN s
  BY DEF SourceCode, Map
<1>2. \A j \in DOMAIN s : t[j] = s[j] \/ \E x : t[j] = [s[j] EXCEPT !.source = x]
  BY DEF SourceCode, Map
<1> HIDE DEF t
<1> SUFFICES ASSUME NEW k \in DOMAIN u, u[k].replacement # None
             PROVE  \E j \in DOMAIN t : Same(t[j], u[k])
  BY DEF Carried, t
<1>3. PICK j \in DOMAIN s : Same(s[j], u[k])
  BY DEF Carried
<1>4. s[j] \in IssueSet /\ u[k] \in IssueSet
  OBVIOUS
<1>5. CASE t[j] = s[j]
  BY <1>1, <1>3, <1>5
<1>6. CASE \E x : t[j] = [s[j] EXCEPT !.source = x]
  <2>1. PICK x : t[j] = [s[j] EXCEPT !.source = x]
    BY <1>6
  <2>2. Same([s[j] EXCEPT !.source = x], u[k])
    BY <1>3, <1>4, SameSource
  <2> QED
    BY <1>1, <2>1, <2>2
<1> QED
  BY <1>2, <1>5, <1>6

LEMMA SeverityCarries ==
    ASSUME NEW s \in Seq(IssueSet), NEW c, NEW src, NEW u \in Seq(IssueSet), Carried(u, s)
    PROVE  Carried(u, Severity(s, c, src))
<1> DEFINE t == Severity(s, c, src)
<1>1. DOMAIN t = DOMAIN s
  BY DEF Severity, Map
<1>2. \A j \in DOMAIN s : t[j] = s[j] \/ \E x : t[j] = [s[j] EXCEPT !.severity = x]
  BY DEF Severity, Map
<1> HIDE DEF t
<1> SUFFICES ASSUME NEW k \in DOMAIN u, u[k].replacement # None
             PROVE  \E j \in DOMAIN t : Same(t[j], u[k])
  BY DEF Carried, t
<1>3. PICK j \in DOMAIN s : Same(s[j], u[k])
  BY DEF Carried
<1>4. s[j] \in IssueSet /\ u[k] \in IssueSet
  OBVIOUS
<1>5. CASE t[j] = s[j]
  BY <1>1, <1>3, <1>5
<1>6. CASE \E x : t[j] = [s[j] EXCEPT !.severity = x]
  <2>1. PICK x : t[j] = [s[j] EXCEPT !.severity = x]
    BY <1>6
  <2>2. Same([s[j] EXCEPT !.severity = x], u[k])
    BY <1>3, <1>4, SameSeverity
  <2> QED
    BY <1>1, <2>1, <2>2
<1> QED
  BY <1>2, <1>5, <1>6

-----------------------------------------------------------------------------
(* The processors in their order.                                          *)
LEMMA Stations ==
    /\ DOMAIN Processors = 1..21 /\ Done = 22
    /\ Processors[1] = "cgo" /\ Processors[2] = "filename_unadjuster" /\ Processors[3] = "invalid_issue"
    /\ Processors[4] = "path_prettifier" /\ Processors[5] = "skip_files" /\ Processors[6] = "skip_dirs"
    /\ Processors[7] = "autogenerated_exclude" /\ Processors[8] = "identifier_marker"
    /\ Processors[9] = "exclude" /\ Processors[10] = "exclude_rules" /\ Processors[11] = "nolint"
    /\ Processors[12] = "uniq_by_line" /\ Processors[13] = "diff"
    /\ Processors[14] = "max_per_file_from_linter" /\ Processors[15] = "max_same_issues"
    /\ Processors[16] = "max_from_linter" /\ Processors[17] = "source_code" /\ Processors[18] = "severity"
    /\ Processors[19] = "fixer" /\ Processors[20] = "path_prefixer" /\ Processors[21] = "sort_results"
BY DEF Processors, Done

LEMMA Turns ==
    /\ Turn("nolint") => at = 11
    /\ Turn("fixer") <=> at = 19
    /\ Turn("uniq_by_line") <=> at = 12
    /\ at \in DOMAIN Processors /\ Processors[at] = "autogenerated_exclude" => at = 7
    /\ at \in DOMAIN Processors /\ Processors[at] = "diff" => at = 13
<1>1. at \in DOMAIN Processors =>
        \/ at = 1 \/ at = 2 \/ at = 3 \/ at = 4 \/ at = 5 \/ at = 6 \/ at = 7 \/ at = 8 \/ at = 9 \/ at = 10 \/ at = 11
        \/ at = 12 \/ at = 13 \/ at = 14 \/ at = 15 \/ at = 16 \/ at = 17 \/ at = 18 \/ at = 19 \/ at = 20 \/ at = 21
  BY Stations
<1>2. Turn("nolint") => at = 11
  BY <1>1, Stations DEF Turn
<1>3. Turn("fixer") <=> at = 19
  BY <1>1, Stations DEF Turn
<1>4. Turn("uniq_by_line") <=> at = 12
  BY <1>1, Stations DEF Turn
<1>5. at \in DOMAIN Processors /\ Processors[at] = "autogenerated_exclude" => at = 7
  BY <1>1, Stations
<1>6. at \in DOMAIN Processors /\ Processors[at] = "diff" => at = 13
  BY <1>1, Stations
<1> QED
  BY <1>2, <1>3, <1>4, <1>5, <1>6

LEMMA Outputs ==
    /\ Output("cgo") = Cgo(issues) /\ Output("filename_unadjuster") = FilenameUnadjuster(issues, source)
    /\ Output("invalid_issue") = InvalidIssue(issues) /\ Output("path_prettifier") = PathPrettifier(issues)
    /\ Output("skip_files") = SkipFiles(issues, cfg) /\ Output("skip_dirs") = SkipDirs(issues, cfg)
    /\ Output("autogenerated_exclude") = AutogeneratedExclude(issues, cfg, source)
    /\ Output("identifier_marker") = IdentifierMarker(issues) /\ Output("exclude") = Exclude(issues, cfg)
    /\ Output("exclude_rules") = ExcludeRules(issues, cfg, source)
    /\ Output("nolint") = Nolint(issues, source, cfg.enabled)
    /\ Output("uniq_by_line") = UniqByLine(issues, cfg) /\ Output("diff") = Diff(issues, cfg)
    /\ Output("max_per_file_from_linter") = MaxPerFileFromLinter(issues, cfg)
    /\ Output("max_same_issues") = MaxSameIssues(issues, cfg)
    /\ Output("max_from_linter") = MaxFromLinter(issues, cfg)
    /\ Output("source_code") = SourceCode(issues, source) /\ Output("severity") = Severity(issues, cfg, source)
    /\ Output("path_prefixer") = PathPrefixer(issues, cfg)
    /\ Output("sort_results") = SortResults(issues, cfg)
BY DEF Output

-----------------------------------------------------------------------------
(* The inductive invariant.  What an issue is like depends on whose turn   *)
(* it is; the files are as they were until the fixer has had its turn.     *)
Listed == \A k \in DOMAIN todo : \E j \in DOMAIN scenario.linters : todo[k] = scenario.linters[j]

SourceInv ==
    /\ scenario \in Scenarios
    /\ source \in [DOMAIN scenario.source -> Files]
    /\ at <= 19 => source = scenario.source

ListInv ==
    /\ todo \in Seq(STRING) /\ Listed
    /\ found \in Seq(IssueSet) /\ unlimited \in Seq(IssueSet)
    /\ at \in 0..22 /\ (at > 0 => todo = <<>>)
    /\ skipped \subseteq {"autogenerated_exclude", "diff"}
    /\ unfixed \subseteq DOMAIN source
    /\ at \in 1..21 => found # <<>>
    /\ at = 0 \/ issues = <<>> \/ found # <<>>

(* Errors of the type checker are all that is left once they were seen.    *)
ErrorInv ==
    at > 0 /\ Erring(found) => (at <= 3 => Erring(issues)) /\ (at > 3 => OnlyErrors(issues))

FixInv == 12 < at /\ at <= 19 /\ cfg.fix /\ cfg.changed = None => Carried(unlimited, issues)

GoodInv == AllGood(issues, at, cfg, source, skipped)

IInv == SourceInv /\ ListInv /\ ErrorInv /\ FixInv /\ GoodInv

LEMMA SourceFacts ==
    ASSUME SourceInv
    PROVE  /\ cfg \in Configs
           /\ DOMAIN source = DOMAIN scenario.source /\ source \in [DOMAIN source -> Files]
           /\ DOMAIN source \subseteq FileNames /\ IsFiniteSet(DOMAIN source)
<1>1. FilesystemOf(scenario) /\ scenario.cfg \in Configs
  BY ScenarioAssumption DEF SourceInv
<1>2. DOMAIN source = DOMAIN scenario.source
  BY DEF SourceInv
<1> QED
  BY <1>1, <1>2 DEF SourceInv, FilesystemOf, cfg

LEMMA EmptyGood ==
    ASSUME NEW n, NEW c, NEW src, NEW sk
    PROVE  AllGood(<<>>, n, c, src, sk) /\ ~Erring(<<>>) /\ ~OnlyErrors(<<>>)
BY DEF AllGood, Erring, OnlyErrors

LEMMA InitInv == Init => IInv
<1> SUFFICES ASSUME Init
             PROVE  IInv
  OBVIOUS
<1>1. FilesystemOf(scenario) /\ scenario.linters \in Seq(STRING)
  BY ScenarioAssumption DEF Init
<1>2. SourceInv
  BY <1>1 DEF Init, SourceInv, FilesystemOf
<1>3. ListInv
  BY <1>1 DEF Init, ListInv, Listed
<1>4. ErrorInv /\ FixInv
  BY DEF Init, ErrorInv, FixInv
<1>5. GoodInv
  BY EmptyGood DEF Init, GoodInv
<1> QED
  BY <1>2, <1>3, <1>4, <1>5 DEF IInv

LEMMA RunLinterInv ==
    ASSUME IInv, RunLinter
    PROVE  IInv'
<1>1. /\ at = 0 /\ todo # <<>> /\ todo' = Tail(todo) /\ Head(todo) \notin scenario.faults
      /\ UNCHANGED <<source, scenario, found, unlimited, at, skipped, unfixed>>
  BY DEF RunLinter, LintStep
<1> DEFINE l == Head(todo)
           r == Reports(l)
           m == [j \in DOMAIN r |-> Renamed(r[j], l)]
<1>2. issues' = issues \o m
  BY DEF RunLinter, Map, Renamed
<1>3. todo \in Seq(STRING) /\ issues \in Seq(IssueSet) /\ scenario \in Scenarios /\ source = scenario.source
  BY <1>1 DEF IInv, ListInv, SourceInv, GoodInv, AllGood
<1>4. 1 \in DOMAIN todo /\ todo[1] = l /\ Tail(todo) \in Seq(STRING)
      /\ \A k \in DOMAIN Tail(todo) : k + 1 \in DOMAIN todo /\ Tail(todo)[k] = todo[k + 1]
  BY <1>1, <1>3
<1>5. PICK j \in DOMAIN scenario.linters : l = scenario.linters[j]
  BY <1>4 DEF IInv, ListInv, Listed
<1>6. l \in STRING /\ r \in Seq(IssueSet) /\ \A k \in DOMAIN r : Good(Renamed(r[k], l), 0, cfg, source, skipped)
  <2> DEFINE g == scenario.linters[j]
  <2>1. g \notin scenario.faults
    BY <1>1, <1>5
  <2>2. /\ g \in STRING /\ Reports(g) \in Seq(IssueSet)
        /\ \A k \in DOMAIN Reports(g) : Good(Renamed(Reports(g)[k], g), 0, cfg, source, skipped)
    BY <1>3, <2>1, ReportsFact
  <2> QED
    BY <1>5, <2>2
<1> HIDE DEF l, r
<1>7. \A k \in DOMAIN r : r[k] \in IssueSet
  BY <1>6
<1>8. \A k \in DOMAIN r : Renamed(r[k], l) \in IssueSet
  BY <1>6, <1>7, RenamedFact
<1>9. m \in Seq(IssueSet) /\ \A k \in DOMAIN m : Good(m[k], at, cfg, source, skipped)
  BY <1>1, <1>6, <1>8
<1> HIDE DEF m
<1>10. \A k \in DOMAIN issues : Good(issues[k], at, cfg, source, skipped)
  BY DEF IInv, GoodInv, AllGood
<1>11. AllGood(issues', at, cfg, source, skipped)
  <2>1. issues' \in Seq(IssueSet)
    BY <1>2, <1>3, <1>9
  <2>2. \A k \in DOMAIN issues' : (\E x \in DOMAIN issues : issues'[k] = issues[x]) \/ \E x \in DOMAIN m : issues'[k] = m[x]
    BY <1>2, <1>3, <1>9
  <2> QED
    BY <1>9, <1>10, <2>1, <2>2 DEF AllGood
<1>12. GoodInv'
  BY <1>1, <1>11 DEF GoodInv, cfg
<1>13. SourceInv' /\ ErrorInv' /\ FixInv'
  BY <1>1 DEF IInv, SourceInv, ErrorInv, FixInv
<1>14. Listed'
  BY <1>1, <1>4 DEF Listed, IInv, ListInv
<1>15. ListInv'
  BY <1>1, <1>4, <1>14 DEF IInv, ListInv
<1> QED
  BY <1>12, <1>13, <1>15 DEF IInv

LEMMA LinterFailsInv ==
    ASSUME IInv, LinterFails
    PROVE  IInv'
<1>1. /\ at = 0 /\ todo # <<>> /\ todo' = Tail(todo) /\ todo \in Seq(STRING)
      /\ UNCHANGED <<source, scenario, issues, found, unlimited, at, skipped, unfixed>>
  BY DEF LinterFails, LintStep, IInv, ListInv
<1>2. /\ Tail(todo) \in Seq(STRING)
      /\ \A k \in DOMAIN Tail(todo) : k + 1 \in DOMAIN todo /\ Tail(todo)[k] = todo[k + 1]
  BY <1>1
<1>3. Listed'
  BY <1>1, <1>2 DEF Listed, IInv, ListInv
<1>4. ListInv'
  BY <1>1, <1>2, <1>3 DEF IInv, ListInv
<1>5. SourceInv' /\ ErrorInv' /\ FixInv'
  BY <1>1 DEF IInv, SourceInv, ErrorInv, FixInv
<1>6. GoodInv'
  BY <1>1 DEF IInv, GoodInv, cfg
<1> QED
  BY <1>4, <1>5, <1>6 DEF IInv

(* The first processor is not told anything that the linters have not.     *)
LEMMA FirstServes ==
    ASSUME NEW c, NEW src, NEW sk, NEW i, Good(i, 0, c, src, sk)
    PROVE  Good(i, 1, c, src, sk)
<1>1. Plain(i, 1)
  BY DEF Good, Plain
<1>2. ASSUME ~TypeCheck(i)
      PROVE  Passes(i, 1, c, src, sk)
  BY <1>2 DEF Good, Passes, Located, PathPasses, Handwritten, TextPasses
<1> QED
  BY <1>1, <1>2 DEF Good

LEMMA StartProcessingInv ==
    ASSUME IInv, StartProcessing
    PROVE  IInv'
<1>1. /\ at = 0 /\ todo = <<>> /\ found' = issues /\ (at' = 22 \/ at' = 1)
      /\ (issues = <<>> => at' = 22) /\ (issues # <<>> => at' = 1)
      /\ UNCHANGED <<source, scenario, todo, issues, unlimited, skipped, unfixed>>
  BY Stations DEF StartProcessing
<1>2. issues \in Seq(IssueSet)
  BY DEF IInv, GoodInv, AllGood
<1>3. SourceInv'
  BY <1>1 DEF IInv, SourceInv
<1>4. Listed'
  BY <1>1 DEF IInv, ListInv, Listed
<1>5. ListInv'
  <2>1. at' \in 0..22 /\ todo' = <<>> /\ (at' \in 1..21 => found' # <<>>) /\ (issues' = <<>> \/ found' # <<>>)
    BY <1>1
  <2>2. /\ todo' \in Seq(STRING) /\ found' \in Seq(IssueSet) /\ unlimited' \in Seq(IssueSet)
        /\ skipped' \subseteq {"autogenerated_exclude", "diff"} /\ unfixed' \subseteq DOMAIN source'
    BY <1>1, <1>2 DEF IInv, ListInv
  <2> QED
    BY <1>4, <2>1, <2>2 DEF ListInv
<1>6. CASE issues = <<>>
  <2>1. ErrorInv'
    BY <1>1, <1>6, EmptyGood DEF ErrorInv
  <2>2. FixInv'
    BY <1>1, <1>6 DEF FixInv
  <2>3. GoodInv'
    BY <1>1, <1>6, EmptyGood DEF GoodInv
  <2> QED
    BY <1>3, <1>5, <2>1, <2>2, <2>3 DEF IInv
<1>7. CASE issues # <<>>
  <2>1. ErrorInv' /\ FixInv'
    BY <1>1, <1>7 DEF ErrorInv, FixInv
  <2>2. \A k \in DOMAIN issues : Good(issues[k], 1, cfg, source, skipped)
    BY <1>1, FirstServes DEF IInv, GoodInv, AllGood
  <2>3. GoodInv'
    BY <1>1, <1>2, <1>7, <2>2 DEF GoodInv, AllGood, cfg
  <2> QED
    BY <1>3, <1>5, <2>1, <2>3 DEF IInv
<1> QED
  BY <1>6, <1>7

-----------------------------------------------------------------------------
(* Each processor, at its turn.                                            *)
Passed ==
    /\ AllGood(issues', at + 1, cfg, source, skipped)
    /\ at < 3 => (Erring(issues) => Erring(issues'))
    /\ at = 3 => (Erring(issues) => OnlyErrors(issues'))
    /\ at > 3 => (OnlyErrors(issues) => OnlyErrors(issues'))

LEMMA ServesPassed ==
    ASSUME at \in 1..21, at # 3, Serves(issues', issues, at, cfg, source, skipped)
    PROVE  Passed
BY DEF Serves, Keeps, Passed

LEMMA LimitsPassed ==
    ASSUME at \in 1..21, at > 3, Limits(issues', issues, at, cfg, source, skipped)
    PROVE  Passed
BY DEF Limits, Passed

LEMMA ProcessPasses ==
    ASSUME IInv, Process
    PROVE  Passed
<1>1. /\ at \in 1..21 /\ at # 19
      /\ issues' = Output(Processors[at])
  BY Stations, Turns DEF Process
<1>2. /\ cfg \in Configs /\ source \in [DOMAIN source -> Files] /\ DOMAIN source \subseteq FileNames
      /\ AllGood(issues, at, cfg, source, skipped)
  BY SourceFacts DEF IInv, GoodInv
<1>3. CASE at = 1
  <2>1. issues' = Cgo(issues)
    BY <1>1, <1>3, Stations, Outputs
  <2> QED
    BY <1>1, <1>2, <1>3, <2>1, CgoServes, ServesPassed
<1>4. CASE at = 2
  <2>1. issues' = FilenameUnadjuster(issues, source)
    BY <1>1, <1>4, Stations, Outputs
  <2> QED
    BY <1>1, <1>2, <1>4, <2>1, UnadjusterServes, ServesPassed
<1>5. CASE at = 3
  <2>1. issues' = InvalidIssue(issues)
    BY <1>1, <1>5, Stations, Outputs
  <2>2. /\ AllGood(InvalidIssue(issues), 4, cfg, source, skipped)
        /\ Erring(issues) => OnlyErrors(InvalidIssue(issues))
    BY <1>2, <1>5, InvalidIssueServes
  <2> QED
    BY <1>5, <2>1, <2>2 DEF Passed
<1>6. CASE at = 4
  <2>1. issues' = PathPrettifier(issues)
    BY <1>1, <1>6, Stations, Outputs
  <2> QED
    BY <1>1, <1>2, <1>6, <2>1, PrettifierServes, ServesPassed
<1>7. CASE at = 5
  <2>1. issues' = SkipFiles(issues, cfg)
    BY <1>1, <1>7, Stations, Outputs
  <2> QED
    BY <1>1, <1>2, <1>7, <2>1, SkipFilesServes, ServesPassed
<1>8. CASE at = 6
  <2>1. issues' = SkipDirs(issues, cfg)
    BY <1>1, <1>8, Stations, Outputs
  <2> QED
    BY <1>1, <1>2, <1>8, <2>1, SkipDirsServes, ServesPassed
<1>9. CASE at = 7
  <2>1. issues' = AutogeneratedExclude(issues, cfg, source)
    BY <1>1, <1>9, Stations, Outputs
  <2> QED
    BY <1>1, <1>2, <1>9, <2>1, AutogeneratedServes, ServesPassed
<1>10. CASE at = 8
  <2>1. issues' = IdentifierMarker(issues)
    BY <1>1, <1>10, Stations, Outputs
  <2> QED
    BY <1>1, <1>2, <1>10, <2>1, MarkerServes, ServesPassed
<1>11. CASE at = 9
  <2>1. issues' = Exclude(issues, cfg)
    BY <1>1, <1>11, Stations, Outputs
  <2> QED
    BY <1>1, <1>2, <1>11, <2>1, ExcludeServes, ServesPassed
<1>12. CASE at = 10
  <2>1. issues' = ExcludeRules(issues, cfg, source)
    BY <1>1, <1>12, Stations, Outputs
  <2> QED
    BY <1>1, <1>2, <1>12, <2>1, ExcludeRulesServes, ServesPassed
<1>13. CASE at = 11
  <2>1. issues' = Nolint(issues, source, cfg.enabled)
    BY <1>1, <1>13, Stations, Outputs
  <2> QED
    BY <1>1, <1>2, <1>13, <2>1, NolintServes, ServesPassed
<1>14. CASE at = 12
  <2>1. issues' = UniqByLine(issues, cfg)
    BY <1>1, <1>14, Stations, Outputs
  <2> QED
    BY <1>1, <1>2, <1>14, <2>1, UniqByLineLimits, LimitsPassed
<1>15. CASE at = 13
  <2>1. issues' = Diff(issues, cfg)
    BY <1>1, <1>15, Stations, Outputs
  <2> QED
    BY <1>1, <1>2, <1>15, <2>1, DiffServes, ServesPassed
<1>16. CASE at = 14
  <2>1. issues' = MaxPerFileFromLinter(issues, cfg)
    BY <1>1, <1>16, Stations, Outputs
  <2> QED
    BY <1>1, <1>2, <1>16, <2>1, MaxPerFileLimits, LimitsPassed
<1>17. CASE at = 15
  <2>1. issues' = MaxSameIssues(issues, cfg)
    BY <1>1, <1>17, Stations, Outputs
  <2> QED
    BY <1>1, <1>2, <1>17, <2>1, MaxSameLimits, LimitsPassed
<1>18. CASE at = 16
  <2>1. issues' = MaxFromLinter(issues, cfg)
    BY <1>1, <1>18, Stations, Outputs
  <2> QED
    BY <1>1, <1>2, <1>18, <2>1, MaxFromLinterLimits, LimitsPassed
<1>19. CASE at = 17
  <2>1. issues' = SourceCode(issues, source)
    BY <1>1, <1>19, Stations, Outputs
  <2> QED
    BY <1>1, <1>2, <1>19, <2>1, SourceCodeServes, ServesPassed
<1>20. CASE at = 18
  <2>1. issues' = Severity(issues, cfg, source)
    BY <1>1, <1>20, Stations, Outputs
  <2> QED
    BY <1>1, <1>2, <1>20, <2>1, SeverityServes, ServesPassed
<1>21. CASE at = 20
  <2>1. issues' = PathPrefixer(issues, cfg)
    BY <1>1, <1>21, Stations, Outputs
  <2> QED
    BY <1>1, <1>2, <1>21, <2>1, PrefixerServes, ServesPassed
<1>22. CASE at = 21
  <2>1. issues' = SortResults(issues, cfg)
    BY <1>1, <1>22, Stations, Outputs
  <2>2. /\ AllGood(SortResults(issues, cfg), 22, cfg, source, skipped)
        /\ OnlyErrors(issues) => OnlyErrors(SortResults(issues, cfg))
    BY <1>2, <1>22, SortServes
  <2> QED
    BY <1>22, <2>1, <2>2 DEF Passed
<1> QED
  BY <1>1, <1>3, <1>4, <1>5, <1>6, <1>7, <1>8, <1>9, <1>10, <1>11, <1>12, <1>13, <1>14, <1>15, <1>16, <1>17,
     <1>18, <1>19, <1>20, <1>21, <1>22

LEMMA ProcessCarries ==
    ASSUME IInv, Process, 12 <= at, at <= 18, cfg.fix, cfg.changed = None
    PROVE  Carried(unlimited', issues')
<1>1. /\ at \in 1..21 /\ issues' = Output(Processors[at])
      /\ unlimited' = IF at = 12 THEN issues ELSE unlimited
  BY Stations, Turns DEF Process
<1>2. /\ cfg \in Configs /\ AllGood(issues, at, cfg, source, skipped)
      /\ issues \in Seq(IssueSet) /\ unlimited \in Seq(IssueSet)
  BY SourceFacts DEF IInv, GoodInv, ListInv, AllGood
<1>3. CASE at = 12
  <2>1. issues' = UniqByLine(issues, cfg)
    BY <1>1, <1>3, Stations, Outputs
  <2>2. Limits(issues', issues, 12, cfg, source, skipped)
    BY <1>2, <1>3, <2>1, UniqByLineLimits
  <2>3. Carried(issues, issues')
    <3> SUFFICES ASSUME NEW k \in DOMAIN issues, issues[k].replacement # None
                 PROVE  \E j \in DOMAIN issues' : Same(issues'[j], issues[k])
      BY DEF Carried
    <3>1. issues[k] \in IssueSet /\ Good(issues[k], at, cfg, source, skipped)
      BY <1>2 DEF AllGood
    <3>2. issues[k].source = <<>>
      BY <1>3, <3>1 DEF Good, Plain
    <3>3. PICK j \in DOMAIN issues' : issues'[j] = issues[k]
      BY <2>2 DEF Limits, ToBeFixed
    <3> QED
      BY <3>1, <3>2, <3>3, SameItself
  <2> QED
    BY <1>1, <1>3, <2>3
<1>4. ASSUME at > 12
      PROVE  Carried(unlimited, issues)
  BY <1>1, <1>4 DEF IInv, FixInv
<1>5. CASE at = 13
  <2>1. issues' = issues
    BY <1>1, <1>5, Stations, Outputs DEF Diff
  <2> QED
    BY <1>1, <1>4, <1>5, <2>1
<1>6. CASE at = 14
  <2>1. Limits(issues', issues, 14, cfg, source, skipped)
    BY <1>1, <1>2, <1>6, Stations, Outputs, MaxPerFileLimits
  <2> QED
    BY <1>1, <1>2, <1>4, <1>6, <2>1, LimitCarries
<1>7. CASE at = 15
  <2>1. Limits(issues', issues, 15, cfg, source, skipped)
    BY <1>1, <1>2, <1>7, Stations, Outputs, MaxSameLimits
  <2> QED
    BY <1>1, <1>2, <1>4, <1>7, <2>1, LimitCarries
<1>8. CASE at = 16
  <2>1. Limits(issues', issues, 16, cfg, source, skipped)
    BY <1>1, <1>2, <1>8, Stations, Outputs, MaxFromLinterLimits
  <2> QED
    BY <1>1, <1>2, <1>4, <1>8, <2>1, LimitCarries
<1>9. CASE at = 17
  <2>1. issues' = SourceCode(issues, source)
    BY <1>1, <1>9, Stations, Outputs
  <2> QED
    BY <1>1, <1>2, <1>4, <1>9, <2>1, SourceCarries
<1>10. CASE at = 18
  <2>1. issues' = Severity(issues, cfg, source)
    BY <1>1, <1>10, Stations, Outputs
  <2> QED
    BY <1>1, <1>2, <1>4, <1>10, <2>1, SeverityCarries
<1> QED
  BY <1>1, <1>3, <1>5, <1>6, <1>7, <1>8, <1>9, <1>10

LEMMA ProcessInv ==
    ASSUME IInv, Process
    PROVE  IInv'
<1>1. /\ at \in 1..21 /\ at # 19 /\ at' = at + 1
      /\ unlimited' = (IF at = 12 THEN issues ELSE unlimited)
      /\ UNCHANGED <<source, scenario, todo, found, skipped, unfixed>>
  BY Stations, Turns DEF Process
<1>2. Passed
  BY ProcessPasses
<1>3. issues \in Seq(IssueSet) /\ cfg' = cfg
  BY <1>1 DEF IInv, GoodInv, AllGood, cfg
<1>4. GoodInv'
  BY <1>1, <1>2, <1>3 DEF GoodInv, Passed
<1>5. SourceInv'
  BY <1>1 DEF IInv, SourceInv
<1>6. ListInv'
  <2>1. Listed'
    BY <1>1 DEF IInv, ListInv, Listed
  <2>2. found' # <<>> /\ todo' = <<>> /\ at' \in 0..22
    BY <1>1 DEF IInv, ListInv
  <2>3. /\ todo' \in Seq(STRING) /\ found' \in Seq(IssueSet) /\ unlimited' \in Seq(IssueSet)
        /\ skipped' \subseteq {"autogenerated_exclude", "diff"} /\ unfixed' \subseteq DOMAIN source'
    BY <1>1, <1>3 DEF IInv, ListInv
  <2> QED
    BY <2>1, <2>2, <2>3 DEF ListInv
<1>7. ErrorInv'
  <2> SUFFICES ASSUME Erring(found)
               PROVE  (at' <= 3 => Erring(issues')) /\ (at' > 3 => OnlyErrors(issues'))
    BY <1>1 DEF ErrorInv
  <2>1. (at <= 3 => Erring(issues)) /\ (at > 3 => OnlyErrors(issues))
    BY <1>1 DEF IInv, ErrorInv
  <2> QED
    BY <1>1, <1>2, <2>1 DEF Passed
<1>8. FixInv'
  <2> SUFFICES ASSUME 12 < at', at' <= 19, cfg.fix, cfg.changed = None
               PROVE  Carried(unlimited', issues')
    BY <1>3 DEF FixInv
  <2>1. 12 <= at /\ at <= 18
    BY <1>1
  <2> QED
    BY <2>1, ProcessCarries
<1> QED
  BY <1>4, <1>5, <1>6, <1>7, <1>8 DEF IInv

(* A processor that fails has not removed what it should have.             *)
LEMMA SkippedGood ==
    ASSUME NEW n \in Nat, NEW c, NEW src, NEW sk, NEW new, NEW i, Good(i, n, c, src, sk), sk \subseteq new,
           (n = 7 /\ "autogenerated_exclude" \in new) \/ n = 13
    PROVE  Good(i, n + 1, c, src, new)
<1>1. Plain(i, n + 1)
  BY DEF Good, Plain
<1>2. ASSUME ~TypeCheck(i)
      PROVE  Passes(i, n + 1, c, src, new)
  <2>1. Located(i, n, src) /\ PathPasses(i, n, c) /\ Handwritten(i, n, c, src, sk) /\ TextPasses(i, n, c, src)
    BY <1>2 DEF Good, Passes
  <2>2. Located(i, n + 1, src)
    BY <2>1 DEF Located
  <2>3. PathPasses(i, n + 1, c)
    BY <2>1 DEF PathPasses
  <2>4. Handwritten(i, n + 1, c, src, new)
    BY <2>1 DEF Handwritten
  <2>5. TextPasses(i, n + 1, c, src)
    BY <2>1 DEF TextPasses
  <2> QED
    BY <2>2, <2>3, <2>4, <2>5 DEF Passes
<1> QED
  BY <1>1, <1>2 DEF Good

LEMMA SkipProcessorInv ==
    ASSUME IInv, SkipProcessor
    PROVE  IInv'
<1>1. /\ at \in 1..21 /\ at' = at + 1 /\ Fails(Processors[at])
      /\ skipped' = skipped \cup {Processors[at]}
      /\ UNCHANGED <<source, scenario, todo, issues, found, unlimited, unfixed>>
  BY Stations DEF SkipProcessor
<1>2. \/ at = 7 /\ Processors[at] = "autogenerated_exclude"
      \/ at = 13 /\ Processors[at] = "diff" /\ cfg.changed # None
  BY <1>1, Stations, Turns DEF Fails
<1>3. issues \in Seq(IssueSet) /\ cfg' = cfg
  BY <1>1 DEF IInv, GoodInv, AllGood, cfg
<1>4. \A k \in DOMAIN issues : Good(issues[k], at + 1, cfg, source, skipped')
  <2> SUFFICES ASSUME NEW k \in DOMAIN issues
               PROVE  Good(issues[k], at + 1, cfg, source, skipped')
    OBVIOUS
  <2>1. Good(issues[k], at, cfg, source, skipped)
    BY DEF IInv, GoodInv, AllGood
  <2>2. at \in Nat /\ skipped \subseteq skipped' /\ ((at = 7 /\ "autogenerated_exclude" \in skipped') \/ at = 13)
    BY <1>1, <1>2
  <2> QED
    BY <2>1, <2>2, SkippedGood
<1>5. GoodInv'
  BY <1>1, <1>3, <1>4 DEF GoodInv, AllGood
<1>6. SourceInv'
  BY <1>1, <1>2 DEF IInv, SourceInv
<1>7. ListInv'
  <2>1. Listed'
    BY <1>1 DEF IInv, ListInv, Listed
  <2>2. found' # <<>> /\ todo' = <<>> /\ at' \in 0..22
    BY <1>1 DEF IInv, ListInv
  <2>3. /\ todo' \in Seq(STRING) /\ found' \in Seq(IssueSet) /\ unlimited' \in Seq(IssueSet)
        /\ skipped' \subseteq {"autogenerated_exclude", "diff"} /\ unfixed' \subseteq DOMAIN source'
    BY <1>1, <1>2 DEF IInv, ListInv
  <2> QED
    BY <2>1, <2>2, <2>3 DEF ListInv
<1>8. ErrorInv'
  BY <1>1, <1>2 DEF IInv, ErrorInv
<1>9. FixInv'
  BY <1>1, <1>2, <1>3 DEF FixInv
<1> QED
  BY <1>5, <1>6, <1>7, <1>8, <1>9 DEF IInv

LEMMA FixerInv ==
    ASSUME IInv, Fix
    PROVE  IInv'
<1>1. at = 19 /\ at' = 20 /\ UNCHANGED <<scenario, todo, found, unlimited, skipped>>
  BY Turns DEF Fix
<1>2. /\ AllGood(issues, 19, cfg, source, skipped) /\ source \in [DOMAIN source -> Files]
      /\ IsFiniteSet(DOMAIN source) /\ unfixed \subseteq DOMAIN source /\ DOMAIN source = DOMAIN scenario.source
  BY <1>1, SourceFacts DEF IInv, GoodInv, ListInv
<1>3. /\ AllGood(issues', 20, cfg, source', skipped) /\ (OnlyErrors(issues) => OnlyErrors(issues'))
      /\ source' \in [DOMAIN source -> Files] /\ unfixed' \subseteq DOMAIN source
  BY <1>2, FixServes
<1>4. cfg' = cfg
  BY <1>1 DEF cfg
<1>5. GoodInv'
  BY <1>1, <1>3, <1>4 DEF GoodInv
<1>6. SourceInv'
  BY <1>1, <1>2, <1>3 DEF IInv, SourceInv
<1>7. ListInv'
  <2>1. Listed'
    BY <1>1 DEF IInv, ListInv, Listed
  <2>2. found' # <<>> /\ todo' = <<>> /\ at' \in 0..22
    BY <1>1 DEF IInv, ListInv
  <2>3. /\ todo' \in Seq(STRING) /\ found' \in Seq(IssueSet) /\ unlimited' \in Seq(IssueSet)
        /\ skipped' \subseteq {"autogenerated_exclude", "diff"} /\ unfixed' \subseteq DOMAIN source'
    BY <1>1, <1>3 DEF IInv, ListInv
  <2> QED
    BY <2>1, <2>2, <2>3 DEF ListInv
<1>8. ErrorInv'
  BY <1>1, <1>3 DEF IInv, ErrorInv
<1>9. FixInv'
  BY <1>1 DEF FixInv
<1> QED
  BY <1>5, <1>6, <1>7, <1>8, <1>9 DEF IInv

(* The inductive invariant of the lint runner.                             *)
THEOREM LintInvariant == Spec => []IInv
<1>1. IInv /\ [Next]_vars => IInv'
  <2> SUFFICES ASSUME IInv, [Next]_vars
               PROVE  IInv'
    OBVIOUS
  <2>1. CASE RunLinter
    BY <2>1, RunLinterInv
  <2>2. CASE LinterFails
    BY <2>2, LinterFailsInv
  <2>3. CASE StartProcessing
    BY <2>3, StartProcessingInv
  <2>4. CASE Process
    BY <2>4, ProcessInv
  <2>5. CASE SkipProcessor
    BY <2>5, SkipProcessorInv
  <2>6. CASE Fix
    BY <2>6, FixerInv
  <2>7. CASE UNCHANGED vars
    BY <2>7 DEF vars, IInv, SourceInv, ListInv, Listed, ErrorInv, FixInv, GoodInv, cfg
  <2> QED
    BY <2>1, <2>2, <2>3, <2>4, <2>5, <2>6, <2>7 DEF Next
<1> QED
  BY <1>1, InitInv, PTL DEF Spec

-----------------------------------------------------------------------------
(* The parts of the state have their types; there is nothing to show       *)
(* unless a linter has reported something.                                 *)
THEOREM LintTypeCorrect == Spec => []TypeOK
<1>1. IInv => TypeOK
  BY Stations, SourceFacts DEF IInv, SourceInv, ListInv, GoodInv, AllGood, TypeOK
<1> QED
  BY <1>1, LintInvariant, PTL

(* When a linter has told that the code does not compile, that is shown,   *)
(* and nothing else: processor.InvalidIssue drops the rest, and no filter, *)
(* limit or fix takes an error of the type checker away.                   *)
THEOREM CompileErrorsShownCorrect == Spec => []CompileErrorsShown
<1>1. IInv => CompileErrorsShown
  BY Stations DEF IInv, ErrorInv, Erring, OnlyErrors, CompileErrorsShown, Ended
<1> QED
  BY <1>1, LintInvariant, PTL

(* What is shown passes every filter, whatever was done to it on the way:  *)
(* the texts are compared with their identifiers marked, the paths below   *)
(* the prefix, and the files are those that the loader has parsed.         *)
THEOREM ShownPassesFiltersCorrect == Spec => []ShownPassesFilters
<1>1. ASSUME IInv
      PROVE  ShownPassesFilters
  <2> SUFFICES ASSUME at = 22, NEW k \in DOMAIN issues, ~TypeCheck(issues[k])
               PROVE  LET i == issues[k] IN
                      /\ i.text \notin cfg.exclude /\ ~RulesOnPath(i)
                      /\ IsGoFile(i.path) \/ IsGoMod(i.path)
                      /\ IsGoFile(i.path) => FileOf(i.path) \in DOMAIN source
                      /\ <<cfg.prefix, i.path.dir, i.path.base>> \notin cfg.excludeFiles
                      /\ <<cfg.prefix, i.path.dir>> \in cfg.excludeDirs => i.path.dir \in cfg.args
                      /\ "autogenerated_exclude" \notin skipped /\ cfg.generated # "disable" /\ IsGoFile(i.path)
                            => ~Generated(cfg, source[FileOf(i.path)])
    BY Stations DEF ShownPassesFilters, Ended
  <2> DEFINE i == issues[k]
  <2>1. Good(i, at, cfg, source, skipped) /\ ~TypeCheck(i)
    BY <1>1 DEF IInv, GoodInv, AllGood
  <2> HIDE DEF i
  <2>2. Plain(i, at) /\ Located(i, at, source) /\ PathPasses(i, at, cfg)
        /\ Handwritten(i, at, cfg, source, skipped) /\ TextPasses(i, at, cfg, source)
    BY <2>1 DEF Good, Passes
  <2>3. i.text \notin cfg.exclude /\ ~RulesOnPath(i)
    BY <2>2 DEF TextPasses, ByPath, RulesOnPath
  <2>4. /\ IsGoFile(i.path) \/ IsGoMod(i.path)
        /\ <<cfg.prefix, i.path.dir, i.path.base>> \notin cfg.excludeFiles
        /\ <<cfg.prefix, i.path.dir>> \in cfg.excludeDirs => i.path.dir \in cfg.args
    BY <2>2 DEF PathPasses, WithPathPrefix
  <2>5. IsGoFile(i.path) => FileOf(i.path) \in DOMAIN source
    BY <2>2 DEF Plain, Located, GoPlace
  <2>6. "autogenerated_exclude" \notin skipped /\ cfg.generated # "disable" /\ IsGoFile(i.path)
           => ~Generated(cfg, source[FileOf(i.path)])
    BY <2>2 DEF Handwritten
  <2> QED
    BY <2>3, <2>4, <2>5, <2>6 DEF i
<1>2. IInv => ShownPassesFilters
  BY <1>1
<1> QED
  BY <1>2, LintInvariant, PTL

(* A directive that hides nothing is called unused: processor.Nolint drops *)
(* nolintlint's issue only for a directive that has matched something.     *)
THEOREM UnusedIsReportedCorrect == Spec => []UnusedIsReported
<1>1. ASSUME IInv, Turn("nolint")
      PROVE  UnusedAreReported(issues, source, cfg.enabled)
  <2>1. /\ AllGood(issues, 11, cfg, source, skipped) /\ cfg \in Configs /\ source \in [DOMAIN source -> Files]
    BY <1>1, Turns, SourceFacts DEF IInv, GoodInv
  <2> QED
    BY <2>1, NolintReports
<1>2. IInv => UnusedIsReported
  BY <1>1 DEF UnusedIsReported
<1> QED
  BY <1>2, LintInvariant, PTL

(* No limit takes away an issue that will be fixed, so that all fixes are  *)
(* made at once.                                                           *)
THEOREM FixesSurviveLimitsCorrect == Spec => []FixesSurviveLimits
<1>1. ASSUME IInv, Turn("fixer"), cfg.fix, cfg.changed = None
      PROVE  Carried(unlimited, issues)
  <2>1. 12 < at /\ at <= 19
    BY <1>1, Turns
  <2> QED
    BY <1>1, <2>1 DEF IInv, FixInv
<1>2. IInv => FixesSurviveLimits
  BY <1>1, Zenon DEF Carried, Same, FixesSurviveLimits
<1> QED
  BY <1>2, LintInvariant, PTL

-----------------------------------------------------------------------------
(* Until the directives are applied, what nolintlint has said of one is    *)
(* said at its place and in its words: no processor before moves it.       *)
DirectiveInv == at <= 11 => Directed(issues, source)

LEMMA RunLinterDirected ==
    ASSUME IInv, DirectiveInv, RunLinter
    PROVE  DirectiveInv'
<1>1. /\ at = 0 /\ todo # <<>> /\ Head(todo) \notin scenario.faults
      /\ UNCHANGED <<source, scenario, at>>
  BY DEF RunLinter, LintStep
<1> DEFINE l == Head(todo)
           r == Reports(l)
           m == [j \in DOMAIN r |-> Renamed(r[j], l)]
<1>2. issues' = issues \o m
  BY DEF RunLinter, Map, Renamed
<1>3. todo \in Seq(STRING) /\ issues \in Seq(IssueSet) /\ scenario \in Scenarios /\ source = scenario.source
  BY <1>1 DEF IInv, ListInv, SourceInv, GoodInv, AllGood
<1>4. 1 \in DOMAIN todo /\ todo[1] = l
  BY <1>1, <1>3
<1>5. PICK j \in DOMAIN scenario.linters : l = scenario.linters[j]
  BY <1>4 DEF IInv, ListInv, Listed
<1>6. l \in STRING /\ r \in Seq(IssueSet) /\ \A k \in DOMAIN r : FromDirective(Renamed(r[k], l), source)
  <2> DEFINE g == scenario.linters[j]
  <2>1. g \notin scenario.faults
    BY <1>1, <1>5
  <2>2. /\ g \in STRING /\ Reports(g) \in Seq(IssueSet)
        /\ \A k \in DOMAIN Reports(g) : FromDirective(Renamed(Reports(g)[k], g), source)
    BY <1>3, <2>1, ReportsFact
  <2> QED
    BY <1>5, <2>2
<1> HIDE DEF l, r
<1>7. \A k \in DOMAIN r : Renamed(r[k], l) \in IssueSet
  <2>1. \A k \in DOMAIN r : r[k] \in IssueSet
    BY <1>6
  <2> QED
    BY <1>6, <2>1, RenamedFact
<1>8. m \in Seq(IssueSet) /\ \A k \in DOMAIN m : FromDirective(m[k], source)
  BY <1>6, <1>7
<1> HIDE DEF m
<1>9. \A k \in DOMAIN issues : FromDirective(issues[k], source)
  BY <1>1 DEF DirectiveInv, Directed
<1>10. \A k \in DOMAIN issues' : (\E x \in DOMAIN issues : issues'[k] = issues[x]) \/ \E x \in DOMAIN m : issues'[k] = m[x]
  BY <1>2, <1>3, <1>8
<1> QED
  BY <1>1, <1>8, <1>9, <1>10 DEF DirectiveInv, Directed

LEMMA ProcessDirected ==
    ASSUME IInv, DirectiveInv, Process
    PROVE  DirectiveInv'
<1>1. at \in 1..21 /\ issues' = Output(Processors[at]) /\ at' = at + 1 /\ source' = source
  BY Stations DEF Process
<1> SUFFICES ASSUME at' <= 11
             PROVE  Directed(issues', source)
  BY <1>1 DEF DirectiveInv
<1>2. at \in 1..10
  BY <1>1
<1>3. /\ issues \in Seq(IssueSet) /\ Directed(issues, source) /\ PlacedDirectives(source)
  <2>1. scenario \in Scenarios /\ source = scenario.source
    BY <1>2 DEF IInv, SourceInv
  <2> QED
    BY <1>2, <2>1, DirectiveAssumption DEF IInv, GoodInv, AllGood, DirectiveInv
<1>4. CASE at = 1
  BY <1>1, <1>3, <1>4, Stations, Outputs, FiltersDirected
<1>5. CASE at = 2
  BY <1>1, <1>3, <1>5, Stations, Outputs, UnadjusterDirected
<1>6. CASE at = 3
  BY <1>1, <1>3, <1>6, Stations, Outputs, FiltersDirected
<1>7. CASE at = 4
  BY <1>1, <1>3, <1>7, Stations, Outputs, PrettifierDirected
<1>8. CASE at = 5
  BY <1>1, <1>3, <1>8, Stations, Outputs, FiltersDirected
<1>9. CASE at = 6
  BY <1>1, <1>3, <1>9, Stations, Outputs, FiltersDirected
<1>10. CASE at = 7
  BY <1>1, <1>3, <1>10, Stations, Outputs, FiltersDirected
<1>11. CASE at = 8
  BY <1>1, <1>3, <1>11, Stations, Outputs, MarkerDirected
<1>12. CASE at = 9
  BY <1>1, <1>3, <1>12, Stations, Outputs, FiltersDirected
<1>13. CASE at = 10
  BY <1>1, <1>3, <1>13, Stations, Outputs, FiltersDirected
<1> QED
  BY <1>2, <1>4, <1>5, <1>6, <1>7, <1>8, <1>9, <1>10, <1>11, <1>12, <1>13

(* What nolintlint has said of a directive reaches the nolint processor at *)
(* the place of the directive and in its words: the ten processors before *)
(* it drop such an issue or leave it where it is.                          *)
THEOREM DirectivesInvariant == Spec => []DirectiveInv
<1>1. Init => DirectiveInv
  BY DEF Init, DirectiveInv, Directed
<1>2. IInv /\ DirectiveInv /\ [Next]_vars => DirectiveInv'
  <2> SUFFICES ASSUME IInv, DirectiveInv, [Next]_vars
               PROVE  DirectiveInv'
    OBVIOUS
  <2>1. CASE RunLinter
    BY <2>1, RunLinterDirected
  <2>2. CASE LinterFails
    BY <2>2 DEF LinterFails, DirectiveInv
  <2>3. CASE StartProcessing
    BY <2>3 DEF StartProcessing, DirectiveInv
  <2>4. CASE Process
    BY <2>4, ProcessDirected
  <2>5. CASE SkipProcessor
    <3>1. at \in 1..21 /\ at' = at + 1 /\ UNCHANGED <<issues, source>>
      BY <2>5, Stations DEF SkipProcessor
    <3> QED
      BY <3>1 DEF DirectiveInv
  <2>6. CASE Fix
    <3>1. at = 19 /\ at' = 20
      BY <2>6, Turns DEF Fix
    <3> QED
      BY <3>1 DEF DirectiveInv
  <2>7. CASE UNCHANGED vars
    BY <2>7 DEF vars, DirectiveInv
  <2> QED
    BY <2>1, <2>2, <2>3, <2>4, <2>5, <2>6, <2>7 DEF Next
<1> QED
  BY <1>1, <1>2, LintInvariant, PTL DEF Spec

(* A directive that is called unused can go: no issue of the code comes    *)
(* back without it.  processor.Nolint hears nolintlint last, and drops     *)
(* what it says of a directive that has matched an issue of the linter.    *)
THEOREM UnusedIsHarmlessCorrect == Spec => []UnusedIsHarmless
<1>1. ASSUME IInv, DirectiveInv, Turn("nolint")
      PROVE  RemovalIsHarmless(issues, source, cfg.enabled)
  <2>1. at = 11 /\ scenario \in Scenarios /\ source = scenario.source
    BY <1>1, Turns DEF IInv, SourceInv
  <2>2. PlacedDirectives(source) /\ OwnNames(cfg.enabled)
    BY <2>1, DirectiveAssumption DEF cfg
  <2>3. cfg \in Configs /\ source \in [DOMAIN source -> Files]
    BY <1>1, SourceFacts DEF IInv
  <2>4. cfg.enabled \in SUBSET STRING
    BY <2>3, Zenon DEF Configs
  <2>5. issues \in Seq(IssueSet) /\ \A k \in DOMAIN issues : issues[k].expect # None => issues[k].linter = "nolintlint"
    BY <1>1 DEF IInv, GoodInv, AllGood, Good, Plain
  <2>6. \A k \in DOMAIN issues : FromDirective(issues[k], source)
    BY <1>1, <2>1 DEF DirectiveInv, Directed
  <2> QED
    BY <2>2, <2>3, <2>4, <2>5, <2>6, NolintHarmless
<1>2. IInv /\ DirectiveInv => UnusedIsHarmless
  BY <1>1 DEF UnusedIsHarmless
<1> QED
  BY <1>2, LintInvariant, DirectivesInvariant, PTL

=============================================================================
