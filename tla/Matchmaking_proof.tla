-------------------------- MODULE Matchmaking_proof --------------------------
(***************************************************************************)
(* What holds of Matchmaking for every queue, ratings, races and every     *)
(* bound.  First what sorts, filters and folds compute, whatever the       *)
(* sequence; then what a wave plans; then every step of the queue.         *)
(***************************************************************************)
EXTENDS Matchmaking, SequenceTheorems, FiniteSetTheorems, WellFoundedInduction, TLAPS

-----------------------------------------------------------------------------
(* Folds and sorts                                                           *)

\* What holds of 0, and of n + 1 when it holds of n, holds of every number.
LEMMA SetInduction ==
  ASSUME NEW S, 0 \in S, \A n \in Nat : n \in S => n + 1 \in S
  PROVE  Nat \subseteq S
<1> DEFINE R == OpToRel(<, Nat)
           T == Nat \ S
<1> SUFFICES ASSUME T # {} PROVE FALSE
  OBVIOUS
<1>1. \E x \in T : \A y \in T : ~ (<<y, x>> \in R)
  <2>1. IsWellFoundedOn(R, Nat)
    BY NatLessThanWellFounded
  <2>2. T \subseteq Nat
    OBVIOUS
  <2> QED BY <2>1, <2>2, WFMin
<1>2. PICK x \in T : \A y \in T : ~ (<<y, x>> \in R)
  BY <1>1
<1>3. \A y \in T : ~(y < x)
  BY <1>2 DEF OpToRel
<1>4. x # 0 /\ x - 1 \in Nat
  OBVIOUS
<1>5. x - 1 \in S
  BY <1>3, <1>4
<1> QED BY <1>4, <1>5

\* The greatest of some positions, the last one among them, is the last.
LEMMA MaxIsLast ==
  ASSUME NEW k \in Nat, NEW s \in SUBSET (1..(k + 1)), k + 1 \in s
  PROVE  Max(s) = k + 1
<1> DEFINE IsGreatest(x) == \A y \in s : x >= y
<1>1. \A x \in s : x \in Int /\ x <= k + 1
  OBVIOUS
<1>2. Max(s) = CHOOSE x \in s : IsGreatest(x)
  BY DEF Max
<1>3. \E x \in s : IsGreatest(x)
  BY <1>1
<1>4. Max(s) \in s /\ IsGreatest(Max(s))
  <2> HIDE DEF IsGreatest
  <2> QED BY <1>2, <1>3
<1>5. Max(s) >= k + 1
  BY <1>4
<1>6. Max(s) \in Int /\ Max(s) <= k + 1
  BY <1>1, <1>4
<1> HIDE DEF IsGreatest
<1> QED BY <1>5, <1>6

\* The greatest of some positions is one of them.
LEMMA MaxIn ==
  ASSUME NEW n \in Nat, NEW s \in SUBSET (1..n), s # {}
  PROVE  Max(s) \in s
<1> DEFINE IsGreatest(x) == \A y \in s : x >= y
           R == OpToRel(<, Nat)
           T == {y \in Nat : n - y \in s}
<1>1. T \subseteq Nat /\ T # {}
  <2>1. PICK x \in s : TRUE
    OBVIOUS
  <2>2. n - x \in T
    BY <2>1
  <2> QED BY <2>2
<1>2. IsWellFoundedOn(R, Nat)
  BY NatLessThanWellFounded
<1> HIDE DEF T
<1>3. PICK y \in T : \A z \in T : ~ (<<z, y>> \in R)
  BY <1>1, <1>2, WFMin
<1>4. \A z \in T : ~(z < y)
  BY <1>1, <1>3 DEF OpToRel
<1>5. n - y \in s /\ y \in Nat
  BY DEF T
<1>6. ASSUME NEW x \in s PROVE n - y >= x
  <2>1. n - x \in T
    BY DEF T
  <2> QED BY <1>4, <1>5, <2>1
<1>7. \E x \in s : IsGreatest(x)
  BY <1>5, <1>6
<1>8. Max(s) = CHOOSE x \in s : IsGreatest(x)
  BY DEF Max
<1> HIDE DEF IsGreatest
<1> QED BY <1>7, <1>8

\* What FoldLeft defines by recursion on the positions from 1 to n.
IsFold(f, n, base, step) ==
  \A s \in SUBSET (1..n) :
    f[s] = IF s = {} THEN base ELSE step[<<f[s \ {Max(s)}], Max(s)>>]

\* Such a function exists, ...
LEMMA FoldExists ==
  ASSUME NEW n \in Nat, NEW V, NEW base \in V, NEW step \in [V \X (1..n) -> V]
  PROVE  \E f \in [SUBSET (1..n) -> V] : IsFold(f, n, base, step)
<1> DEFINE Solves(f, k) ==
             /\ f \in [SUBSET (1..k) -> V]
             /\ \A s \in SUBSET (1..k) :
                  f[s] = IF s = {} THEN base ELSE step[<<f[s \ {Max(s)}], Max(s)>>]
           Good == {k \in Nat : k <= n => \E f : Solves(f, k)}
<1>1. 0 \in Good
  <2> DEFINE f == [s \in SUBSET (1..0) |-> base]
  <2>1. \A s \in SUBSET (1..0) : s = {}
    OBVIOUS
  <2>2. Solves(f, 0)
    BY <2>1
  <2> QED BY <2>2
<1>2. ASSUME NEW k \in Nat, k \in Good PROVE k + 1 \in Good
  <2> HIDE DEF Solves
  <2> SUFFICES ASSUME k + 1 <= n PROVE \E f : Solves(f, k + 1)
    OBVIOUS
  <2>1. PICK f : Solves(f, k)
    BY <1>2
  <2> USE DEF Solves
  <2> DEFINE g == [s \in SUBSET (1..(k + 1)) |->
                     IF k + 1 \in s THEN step[<<f[s \ {k + 1}], k + 1>>] ELSE f[s]]
  <2>2. \A s \in SUBSET (1..(k + 1)) : k + 1 \notin s => s \in SUBSET (1..k)
    OBVIOUS
  <2>3. \A s \in SUBSET (1..(k + 1)) : s \ {k + 1} \in SUBSET (1..k)
    OBVIOUS
  <2>4. \A s \in SUBSET (1..(k + 1)) : g[s] \in V
    <3> SUFFICES ASSUME NEW s \in SUBSET (1..(k + 1)) PROVE g[s] \in V
      OBVIOUS
    <3>1. CASE k + 1 \in s
      <4>1. f[s \ {k + 1}] \in V
        BY <2>1, <2>3
      <4>2. k + 1 \in 1..n
        OBVIOUS
      <4>3. g[s] = step[<<f[s \ {k + 1}], k + 1>>]
        BY <3>1
      <4> QED BY <4>1, <4>2, <4>3
    <3>2. CASE k + 1 \notin s
      BY <2>1, <2>2, <3>2
    <3> QED BY <3>1, <3>2
  <2>5. ASSUME NEW s \in SUBSET (1..(k + 1))
        PROVE  g[s] = IF s = {} THEN base ELSE step[<<g[s \ {Max(s)}], Max(s)>>]
    <3>1. CASE k + 1 \in s
      <4>1. Max(s) = k + 1
        BY <3>1, MaxIsLast
      <4>2. g[s \ {k + 1}] = f[s \ {k + 1}]
        BY <2>3
      <4>3. g[s] = step[<<f[s \ {k + 1}], k + 1>>]
        BY <3>1
      <4> QED BY <3>1, <4>1, <4>2, <4>3
    <3>2. CASE k + 1 \notin s
      <4>1. s \in SUBSET (1..k) /\ s \ {Max(s)} \in SUBSET (1..k)
        BY <2>2, <3>2
      <4>2. g[s] = f[s] /\ g[s \ {Max(s)}] = f[s \ {Max(s)}]
        BY <3>2, <4>1
      <4> QED BY <2>1, <4>1, <4>2
    <3> QED BY <3>1, <3>2
  <2>6. g \in [SUBSET (1..(k + 1)) -> V]
    BY <2>4
  <2> QED BY <2>5, <2>6
<1>3. n \in Good
  <2> HIDE DEF Good
  <2> QED BY <1>1, <1>2, SetInduction
<1>4. \E f : Solves(f, n)
  <2> HIDE DEF Solves
  <2> QED BY <1>3
<1> QED BY <1>4 DEF IsFold

\* ... and what the base has and every step keeps, the result has.
LEMMA FoldKeeps ==
  ASSUME NEW n \in Nat, NEW V, NEW f, f[{}] \in V,
         \A s \in SUBSET (1..n) :
           s # {} /\ Max(s) \in 1..n /\ f[s \ {Max(s)}] \in V => f[s] \in V
  PROVE  f[1..n] \in V
<1> DEFINE Good == {k \in Nat : k <= n => f[1..k] \in V}
<1>1. 0 \in Good
  <2>1. 1..0 = {}
    OBVIOUS
  <2> QED BY <2>1
<1>2. ASSUME NEW k \in Nat, k \in Good PROVE k + 1 \in Good
  <2> SUFFICES ASSUME k + 1 <= n PROVE f[1..(k + 1)] \in V
    BY DEF Good
  <2>1. Max(1..(k + 1)) = k + 1
    BY MaxIsLast
  <2>2. (1..(k + 1)) \ {k + 1} = 1..k
    OBVIOUS
  <2>3. 1..(k + 1) \in SUBSET (1..n) /\ 1..(k + 1) # {} /\ k + 1 \in 1..n
    OBVIOUS
  <2>4. f[1..k] \in V
    BY <1>2
  <2> QED BY <2>1, <2>2, <2>3, <2>4
<1>3. n \in Good
  <2> HIDE DEF Good
  <2> QED BY <1>1, <1>2, SetInduction
<1> QED BY <1>3

\* The positions a fold has gone through.
LEMMA FoldStep ==
  ASSUME NEW k \in Nat
  PROVE  /\ 1..0 = {} /\ 1..(k + 1) # {} /\ Max(1..(k + 1)) = k + 1
         /\ (1..(k + 1)) \ {k + 1} = 1..k
  BY MaxIsLast

\* What a fold has reached after each position.
LEMMA FoldChain ==
  ASSUME NEW n \in Nat, NEW W, NEW f, f[{}] \in W[0],
         \A k \in 0..(n - 1) : f[1..k] \in W[k] => f[1..(k + 1)] \in W[k + 1]
  PROVE  f[1..n] \in W[n]
<1> DEFINE Good == {k \in Nat : k <= n => f[1..k] \in W[k]}
<1>1. 0 \in Good
  <2>1. 1..0 = {}
    OBVIOUS
  <2> QED BY <2>1
<1>2. ASSUME NEW k \in Nat, k \in Good PROVE k + 1 \in Good
  <2> SUFFICES ASSUME k + 1 <= n PROVE f[1..(k + 1)] \in W[k + 1]
    BY DEF Good
  <2>1. k \in 0..(n - 1) /\ f[1..k] \in W[k]
    BY <1>2
  <2> QED BY <2>1
<1>3. n \in Good
  <2> HIDE DEF Good
  <2> QED BY <1>1, <1>2, SetInduction
<1> QED BY <1>3

\* o lists every position in `at` of s once, by ascending key, those of equal
\* keys as they come.
IsSortOf(o, s, at, key) ==
  \E pick \in [1..Cardinality(at) -> at] :
    /\ \A i \in at : \E k \in 1..Cardinality(at) : pick[k] = i
    /\ \A k, l \in 1..Cardinality(at) : k < l =>
         \/ key[pick[k]] < key[pick[l]]
         \/ key[pick[k]] = key[pick[l]] /\ pick[k] < pick[l]
    /\ o = [k \in 1..Cardinality(at) |-> s[pick[k]]]

\* InOrder is a stable sort.
LEMMA InOrderSorts ==
  ASSUME NEW s, IsFiniteSet(DOMAIN s), DOMAIN s \subseteq Int, NEW at \in SUBSET DOMAIN s,
         NEW key, \A i \in at : key[i] \in Int
  PROVE  /\ Cardinality(at) \in Nat
         /\ IsSortOf(InOrder(s, at, key), s, at, key)
<1> DEFINE before(i, j) == key[i] < key[j] \/ (key[i] = key[j] /\ i < j)
           above(i) == {j \in at : before(j, i)}
           N == Cardinality(at)
           rank == [i \in at |-> Cardinality(above(i))]
           pick == [k \in 1..N |-> CHOOSE i \in at : rank[i] = k - 1]
<1>1. IsFiniteSet(at) /\ N \in Nat
  BY FS_Subset, FS_CardinalityType
<1>2. \A i \in at : i \in Int
  OBVIOUS
<1>3. \A i, j, k \in at : /\ ~before(i, i)
                          /\ before(i, j) /\ before(j, k) => before(i, k)
                          /\ i = j \/ before(i, j) \/ before(j, i)
                          /\ ~(before(i, j) /\ before(j, i))
  BY <1>2
<1>4. InOrder(s, at, key) = [k \in 1..N |-> s[CHOOSE i \in at : rank[i] = k - 1]]
  BY DEF InOrder
<1> HIDE DEF before
<1>5. \A i \in at : above(i) \in SUBSET at /\ IsFiniteSet(above(i)) /\ Cardinality(above(i)) \in Nat
  BY <1>1, FS_Subset, FS_CardinalityType
<1>6. ASSUME NEW i \in at PROVE rank[i] \in 0..(N - 1)
  <2>1. above(i) \in SUBSET (at \ {i})
    BY <1>3
  <2>2. IsFiniteSet(at \ {i}) /\ Cardinality(at \ {i}) = N - 1
    BY <1>1, FS_RemoveElement
  <2>3. Cardinality(above(i)) <= N - 1
    BY <2>1, <2>2, FS_Subset
  <2> QED BY <1>1, <1>5, <2>3
<1>7. ASSUME NEW i \in at, NEW j \in at, before(i, j) PROVE rank[i] < rank[j]
  <2>1. above(i) \cup {i} \in SUBSET above(j)
    BY <1>3, <1>7
  <2>2. i \notin above(i)
    BY <1>3
  <2>3. Cardinality(above(i) \cup {i}) = Cardinality(above(i)) + 1
    BY <1>5, <2>2, FS_AddElement
  <2>4. Cardinality(above(i) \cup {i}) <= Cardinality(above(j))
    BY <1>5, <2>1, FS_Subset
  <2>5. Cardinality(above(i)) \in Nat /\ Cardinality(above(j)) \in Nat
    BY <1>5
  <2>6. rank[i] = Cardinality(above(i)) /\ rank[j] = Cardinality(above(j))
    OBVIOUS
  <2> HIDE DEF rank, above
  <2> QED BY <2>3, <2>4, <2>5, <2>6
<1> DEFINE place == [i \in at |-> rank[i] + 1]
<1>8. place \in [at -> 1..N]
  <2> HIDE DEF rank
  <2> QED BY <1>1, <1>6
<1>9. \A i, j \in at : place[i] = place[j] => i = j
  <2> SUFFICES ASSUME NEW i \in at, NEW j \in at, i # j PROVE place[i] # place[j]
    OBVIOUS
  <2>1. before(i, j) \/ before(j, i)
    BY <1>3
  <2>2. rank[i] \in Int /\ rank[j] \in Int
    BY <1>1, <1>6
  <2>3. rank[i] # rank[j]
    BY <1>7, <2>1, <2>2
  <2> HIDE DEF rank
  <2> QED BY <2>2, <2>3
<1>10. \A k \in 1..N : \E i \in at : rank[i] = k - 1
  <2>1. place \in Injection(at, 1..N)
    BY <1>8, <1>9 DEF Injection, IsInjective
  <2>2. IsFiniteSet(1..N) /\ Cardinality(1..N) = N
    BY <1>1, FS_Interval
  <2>3. place \in Surjection(at, 1..N)
    BY <2>1, <2>2, FS_Injection
  <2>4. \A k \in 1..N : \E i \in at : place[i] = k
    BY <2>3 DEF Surjection
  <2>5. \A i \in at : place[i] = rank[i] + 1 /\ rank[i] \in Int
    BY <1>1, <1>6
  <2> HIDE DEF rank, place, N
  <2> QED BY <2>4, <2>5
<1> HIDE DEF rank, place, above
<1>11. \A k \in 1..N : pick[k] \in at /\ rank[pick[k]] = k - 1
  BY <1>10
<1>12. pick \in [1..N -> at]
  <2>1. pick = [k \in 1..N |-> pick[k]]
    OBVIOUS
  <2> QED BY <1>11
<1>13. ASSUME NEW i \in at PROVE \E k \in 1..N : pick[k] = i
  <2>1. rank[i] + 1 \in 1..N /\ rank[i] \in Int
    BY <1>1, <1>6
  <2>2. pick[rank[i] + 1] \in at /\ rank[pick[rank[i] + 1]] = rank[i]
    BY <1>11, <2>1
  <2>3. pick[rank[i] + 1] = i
    BY <1>9, <2>2 DEF place
  <2> QED BY <2>1, <2>3
<1>14. ASSUME NEW k \in 1..N, NEW l \in 1..N, k < l
       PROVE  before(pick[k], pick[l])
  <2>1. pick[k] \in at /\ pick[l] \in at /\ rank[pick[k]] = k - 1 /\ rank[pick[l]] = l - 1
    BY <1>11
  <2>2. k \in Int /\ l \in Int
    BY <1>1
  <2>3. pick[k] # pick[l] /\ ~before(pick[l], pick[k])
    BY <1>7, <1>14, <2>1, <2>2
  <2> QED BY <1>3, <2>1, <2>3
<1>15. InOrder(s, at, key) = [k \in 1..N |-> s[pick[k]]]
  BY <1>4
<1> HIDE DEF pick, N
<1>16. \A k, l \in 1..N : k < l => \/ key[pick[k]] < key[pick[l]]
                                   \/ key[pick[k]] = key[pick[l]] /\ pick[k] < pick[l]
  BY <1>14 DEF before
<1> QED BY <1>1, <1>12, <1>13, <1>15, <1>16 DEF N, IsSortOf

HasEntries(o, T, s, at) ==
  /\ o \in Seq(T)
  /\ Len(o) \in Nat /\ DOMAIN o = 1..Len(o)
  /\ Len(o) = Cardinality(at)
  /\ \A k \in DOMAIN o : \E i \in at : o[k] = s[i]
  /\ \A i \in at : \E k \in DOMAIN o : o[k] = s[i]

\* A sorted or filtered sequence has the entries of the sequence it is made of.
LEMMA InOrderEntries ==
  ASSUME NEW T, NEW s \in Seq(T), NEW at \in SUBSET DOMAIN s, NEW key, \A i \in at : key[i] \in Int
  PROVE  HasEntries(InOrder(s, at, key), T, s, at)
<1> DEFINE N == Cardinality(at)
           o == InOrder(s, at, key)
<1>1. IsFiniteSet(DOMAIN s) /\ DOMAIN s \subseteq Int
  BY FS_Interval
<1>2. N \in Nat /\ IsSortOf(o, s, at, key)
  BY <1>1, InOrderSorts
<1>3. PICK pick \in [1..N -> at] :
         /\ \A i \in at : \E k \in 1..N : pick[k] = i
         /\ o = [k \in 1..N |-> s[pick[k]]]
  BY <1>2 DEF IsSortOf
<1> HIDE DEF N, o
<1>4. \A k \in 1..N : pick[k] \in at /\ s[pick[k]] \in T /\ o[k] = s[pick[k]]
  BY <1>3
<1>5. o \in Seq(T) /\ DOMAIN o = 1..N /\ Len(o) = N
  BY <1>2, <1>3, <1>4
<1>6. \A k \in DOMAIN o : \E i \in at : o[k] = s[i]
  BY <1>4, <1>5
<1>7. ASSUME NEW i \in at PROVE \E k \in DOMAIN o : o[k] = s[i]
  BY <1>3, <1>4, <1>5
<1> QED BY <1>2, <1>5, <1>6, <1>7 DEF o, N, HasEntries


-----------------------------------------------------------------------------
(* The pairing of a wave                                                     *)

RatingsTyped == rating \in [Player -> [bw : Nat, sc2 : Nat]]

\* Queue entries that may play a race, and those that may play either.
SideOf(E, race) == {e \in E : race \in e.races}
EitherSide(E) == {e \in E : IsBoth(e)}

LEMMA EntryFacts ==
  ASSUME RatingsTyped
  PROVE  \A e \in Entry : /\ Bw(e) \in Nat /\ Sc2(e) \in Nat /\ Bias(e) \in Int
                          /\ AbsOf(Bias(e)) \in Int /\ -Bw(e) \in Int /\ -Sc2(e) \in Int
                          /\ e.wait \in Nat /\ -e.wait \in Int
<1>1. \A e \in Entry : e.who \in Player /\ e.wait \in Nat
  BY DEF Entry
<1>2. \A e \in Entry : Bw(e) \in Nat /\ Sc2(e) \in Nat
  BY <1>1 DEF RatingsTyped, Bw, Sc2
<1> QED BY <1>1, <1>2 DEF Bias, AbsOf

LEMMA SideFacts ==
  ASSUME NEW E, E \subseteq Entry
  PROVE  /\ EitherSide(E) \subseteq SideOf(E, "bw") /\ EitherSide(E) \subseteq SideOf(E, "sc2")
         /\ SideOf(E, "bw") \subseteq E /\ SideOf(E, "sc2") \subseteq E
         /\ EitherSide(E) \subseteq E
  BY DEF EitherSide, SideOf, IsBoth

LEMMA MaxOfTwo ==
  ASSUME NEW a \in Int, NEW b \in Int
  PROVE  Max({a, b}) \in {a, b} /\ Max({a, b}) >= a /\ Max({a, b}) >= b
<1> DEFINE IsGreatest(x) == \A y \in {a, b} : x >= y
<1>1. Max({a, b}) = CHOOSE x \in {a, b} : IsGreatest(x)
  BY DEF Max
<1>2. \E x \in {a, b} : IsGreatest(x)
  <2>1. CASE a >= b
    BY <2>1
  <2>2. CASE ~(a >= b)
    BY <2>2
  <2> QED BY <2>1, <2>2
<1>3. Max({a, b}) \in {a, b} /\ IsGreatest(Max({a, b}))
  <2> HIDE DEF IsGreatest
  <2> QED BY <1>1, <1>2
<1> QED BY <1>3

\* Sorting keeps entries of a kind, filtering keeps those that pass.
LEMMA SortKeeps ==
  ASSUME NEW T, NEW s \in Seq(T), NEW key, \A i \in DOMAIN s : key[i] \in Int
  PROVE  LET o == InOrder(s, DOMAIN s, key)
         IN  o \in Seq(T) /\ Len(o) = Len(s) /\ Len(o) \in Nat
<1>1. DOMAIN s = 1..Len(s) /\ Len(s) \in Nat
  OBVIOUS
<1>2. \A n \in Nat : Cardinality(1..n) = n
  BY FS_Interval
<1>3. HasEntries(InOrder(s, DOMAIN s, key), T, s, DOMAIN s)
  BY InOrderEntries
<1> QED BY <1>1, <1>2, <1>3 DEF HasEntries

LEMMA FilterKeeps ==
  ASSUME NEW T, NEW s \in Seq(T), NEW at \in SUBSET DOMAIN s,
         NEW P, \A i \in at : s[i] \in P
  PROVE  InOrder(s, at, [i \in DOMAIN s |-> i]) \in Seq(T \cap P)
<1> DEFINE key == [i \in DOMAIN s |-> i]
           o == InOrder(s, at, key)
<1>1. \A i \in at : key[i] \in Int
  OBVIOUS
<1> HIDE DEF key
<1>2. HasEntries(o, T, s, at)
  BY <1>1, InOrderEntries
<1> HIDE DEF o
<1>3. \A k \in 1..Len(o) : o[k] \in T \cap P
  <2>1. DOMAIN o = 1..Len(o) /\ \A k \in DOMAIN o : \E i \in at : o[k] = s[i]
    BY <1>2 DEF HasEntries
  <2>2. \A i \in at : s[i] \in T \cap P
    OBVIOUS
  <2> QED BY <2>1, <2>2
<1>4. o = [k \in 1..Len(o) |-> o[k]] /\ Len(o) \in Nat
  BY <1>2 DEF HasEntries
<1> QED BY <1>3, <1>4 DEF o, key

LEMMA PoolsOK ==
  ASSUME RatingsTyped, NEW E, E \subseteq Entry, NEW q \in Seq(E)
  PROVE  /\ BwOnly(q) \in Seq(SideOf(E, "bw"))
         /\ Sc2Only(q) \in Seq(SideOf(E, "sc2"))
         /\ BothRaces(q) \in Seq(EitherSide(E))
<1>1. BwOnly(q) \in Seq(SideOf(E, "bw"))
  <2> DEFINE at == {i \in DOMAIN q : q[i].races = {"bw"}}
             x == InOrder(q, at, [i \in DOMAIN q |-> i])
             key == [i \in DOMAIN x |-> -Bw(x[i])]
             P == SideOf(E, "bw")
  <2>1. \A i \in at : q[i] \in P
    BY DEF SideOf
  <2>2. x \in Seq(E \cap P)
    BY <2>1, FilterKeeps
  <2>3. E \cap P = SideOf(E, "bw")
    BY DEF SideOf
  <2>4. BwOnly(q) = InOrder(x, DOMAIN x, key)
    BY DEF BwOnly, SortedBy, Kept
  <2> HIDE DEF at, x, P
  <2>5. x \in Seq(SideOf(E, "bw"))
    BY <2>2, <2>3
  <2>7. \A i \in DOMAIN x : x[i] \in Entry
    BY <2>5, SideFacts
  <2>6. \A i \in DOMAIN x : key[i] \in Int
    BY <2>7, EntryFacts
  <2> HIDE DEF key
  <2> QED BY <2>4, <2>5, <2>6, SortKeeps
<1>2. Sc2Only(q) \in Seq(SideOf(E, "sc2"))
  <2> DEFINE at == {i \in DOMAIN q : q[i].races = {"sc2"}}
             x == InOrder(q, at, [i \in DOMAIN q |-> i])
             key == [i \in DOMAIN x |-> -Sc2(x[i])]
             P == SideOf(E, "sc2")
  <2>1. \A i \in at : q[i] \in P
    BY DEF SideOf
  <2>2. x \in Seq(E \cap P)
    BY <2>1, FilterKeeps
  <2>3. E \cap P = SideOf(E, "sc2")
    BY DEF SideOf
  <2>4. Sc2Only(q) = InOrder(x, DOMAIN x, key)
    BY DEF Sc2Only, SortedBy, Kept
  <2> HIDE DEF at, x, P
  <2>5. x \in Seq(SideOf(E, "sc2"))
    BY <2>2, <2>3
  <2>7. \A i \in DOMAIN x : x[i] \in Entry
    BY <2>5, SideFacts
  <2>6. \A i \in DOMAIN x : key[i] \in Int
    BY <2>7, EntryFacts
  <2> HIDE DEF key
  <2> QED BY <2>4, <2>5, <2>6, SortKeeps
<1>3. BothRaces(q) \in Seq(EitherSide(E))
  <2> DEFINE at == {i \in DOMAIN q : IsBoth(q[i])}
             x == InOrder(q, at, [i \in DOMAIN q |-> i])
             key == [i \in DOMAIN x |-> -Max({Bw(x[i]), Sc2(x[i])})]
             P == EitherSide(E)
  <2>1. \A i \in at : q[i] \in P
    BY DEF EitherSide
  <2>2. x \in Seq(E \cap P)
    BY <2>1, FilterKeeps
  <2>3. E \cap P = EitherSide(E)
    BY DEF EitherSide
  <2>4. BothRaces(q) = InOrder(x, DOMAIN x, key)
    BY DEF BothRaces, SortedBy, Kept
  <2> HIDE DEF at, x, P
  <2>5. x \in Seq(EitherSide(E))
    BY <2>2, <2>3
  <2>7. \A i \in DOMAIN x : x[i] \in Entry
    BY <2>5, SideFacts
  <2>6. ASSUME NEW i \in DOMAIN x PROVE key[i] \in Int
    <3>1. Bw(x[i]) \in Int /\ Sc2(x[i]) \in Int
      BY <2>7, EntryFacts
    <3>2. Max({Bw(x[i]), Sc2(x[i])}) \in Int
      BY <3>1, MaxOfTwo
    <3>3. key[i] = -Max({Bw(x[i]), Sc2(x[i])})
      OBVIOUS
    <3> HIDE DEF key
    <3> QED BY <3>2, <3>3
  <2> HIDE DEF key
  <2> QED BY <2>4, <2>5, <2>6, SortKeeps
<1> QED BY <1>1, <1>2, <1>3

\* Parts of a sequence, within its bounds.
LEMMA PartsOK ==
  ASSUME NEW T, NEW s \in Seq(T), NEW n \in 0..Len(s), NEW m \in 0..Len(s)
  PROVE  /\ FirstOf(s, n) \in Seq(T) /\ Len(FirstOf(s, n)) = n
         /\ LastOf(s, n) \in Seq(T) /\ Len(LastOf(s, n)) = n
         /\ SubSeq(s, m + 1, n) \in Seq(T)
         /\ Len(SubSeq(s, m + 1, n)) = IF m <= n THEN n - m ELSE 0
<1>1. Len(s) \in Nat /\ \A i \in 1..Len(s) : s[i] \in T
  OBVIOUS
<1>2. FirstOf(s, n) \in Seq(T) /\ Len(FirstOf(s, n)) = n
  BY <1>1, SubSeqProperties DEF FirstOf
<1>3. SubSeq(s, m + 1, n) \in Seq(T) /\ Len(SubSeq(s, m + 1, n)) = IF m <= n THEN n - m ELSE 0
  BY <1>1, SubSeqProperties
<1>4. LastOf(s, n) \in Seq(T) /\ Len(LastOf(s, n)) = n
  <2> DEFINE r == SubSeq(s, Len(s) - n + 1, Len(s))
  <2>1. r \in Seq(T) /\ Len(r) = n
    BY <1>1, SubSeqProperties
  <2>2. LastOf(s, n) = [i \in 1..Len(r) |-> r[(Len(r) - i) + 1]]
    BY DEF LastOf, Reverse
  <2> HIDE DEF r
  <2>3. \A i \in 1..n : r[(n - i) + 1] \in T
    BY <2>1
  <2> QED BY <2>1, <2>2, <2>3
<1> QED BY <1>2, <1>3, <1>4

\* Whatever side a player of both races is dealt to, they have a race for it.
LEMMA DealtOK ==
  ASSUME RatingsTyped, NEW E, E \subseteq Entry, NEW x \in Seq(SideOf(E, "bw")), NEW y \in Seq(SideOf(E, "sc2")),
         NEW z \in Seq(EitherSide(E))
  PROVE  Dealt(x, y, z).bw \in Seq(SideOf(E, "bw")) /\ Dealt(x, y, z).sc2 \in Seq(SideOf(E, "sc2"))
<1> DEFINE byBias == SortedBy(z, Bias)
           n == Len(z)
           toBw == AtMost(Max({Len(y) - Len(x), 0}), n)
           toSc2 == AtMost(Max({Len(x) - Len(y), 0}), n)
           rest == SubSeq(byBias, toSc2 + 1, n - toBw)
           half == Len(rest) \div 2
<1>1. n \in Nat /\ Len(x) \in Nat /\ Len(y) \in Nat
  OBVIOUS
<1>2. byBias \in Seq(EitherSide(E)) /\ Len(byBias) = n
  <2> DEFINE key == [i \in DOMAIN z |-> Bias(z[i])]
  <2>1. byBias = InOrder(z, DOMAIN z, key)
    BY DEF SortedBy
  <2>2. \A i \in DOMAIN z : key[i] \in Int
    BY EntryFacts, SideFacts
  <2> HIDE DEF key, byBias
  <2> QED BY <2>1, <2>2, SortKeeps
<1>3. toBw \in 0..n /\ toSc2 \in 0..n
  <2>1. ASSUME NEW k \in Int PROVE Max({k, 0}) \in Nat
    <3>1. 0 \in Int
      OBVIOUS
    <3>2. Max({k, 0}) \in {k, 0} /\ Max({k, 0}) >= 0
      BY <3>1, MaxOfTwo
    <3> QED BY <3>2
  <2>2. Len(y) - Len(x) \in Int /\ Len(x) - Len(y) \in Int
    BY <1>1
  <2>3. Max({Len(y) - Len(x), 0}) \in Nat /\ Max({Len(x) - Len(y), 0}) \in Nat
    BY <2>1, <2>2
  <2> QED BY <1>1, <2>3 DEF AtMost
<1> HIDE DEF byBias, toBw, toSc2
<1>4. rest \in Seq(EitherSide(E)) /\ Len(rest) \in Nat
  <2>1. n - toBw \in 0..Len(byBias) /\ toSc2 \in 0..Len(byBias)
    BY <1>1, <1>2, <1>3
  <2>2. rest \in Seq(EitherSide(E))
    BY <1>2, <2>1, PartsOK
  <2> QED BY <2>2, LenProperties
<1>5. half \in 0..Len(rest) /\ Len(rest) - half \in 0..Len(rest) /\ n \div 2 \in 0..n
  <2>1. \A k \in Nat : k \div 2 \in 0..k /\ k - k \div 2 \in 0..k
    OBVIOUS
  <2> HIDE DEF rest
  <2> QED BY <1>1, <1>4, <2>1
<1> HIDE DEF rest, half, n
<1>6. /\ SubSeq(byBias, (n \div 2) + 1, n) \in Seq(EitherSide(E))
      /\ FirstOf(byBias, n \div 2) \in Seq(EitherSide(E))
  <2>1. n \in 0..Len(byBias) /\ n \div 2 \in 0..Len(byBias)
    BY <1>1, <1>2, <1>5
  <2> QED BY <1>2, <2>1, PartsOK
<1>7. LastOf(byBias, toBw) \in Seq(EitherSide(E)) /\ FirstOf(byBias, toSc2) \in Seq(EitherSide(E))
  BY <1>2, <1>3, PartsOK
<1>8. LastOf(rest, half) \in Seq(EitherSide(E)) /\ FirstOf(rest, Len(rest) - half) \in Seq(EitherSide(E))
  BY <1>4, <1>5, PartsOK
<1>9. \A s \in Seq(EitherSide(E)) : s \in Seq(SideOf(E, "bw")) /\ s \in Seq(SideOf(E, "sc2"))
  BY SideFacts, SeqMonotonic
<1>10. x \o LastOf(byBias, toBw) \o LastOf(rest, half) \in Seq(SideOf(E, "bw"))
  BY <1>7, <1>8, <1>9, ConcatProperties
<1>11. y \o FirstOf(byBias, toSc2) \o FirstOf(rest, Len(rest) - half) \in Seq(SideOf(E, "sc2"))
  BY <1>7, <1>8, <1>9, ConcatProperties
<1>12. Dealt(x, y, z) =
        IF x = <<>> /\ y = <<>>
        THEN [bw |-> SubSeq(byBias, (n \div 2) + 1, n), sc2 |-> FirstOf(byBias, n \div 2)]
        ELSE [bw |-> x \o LastOf(byBias, toBw) \o LastOf(rest, half),
              sc2 |-> y \o FirstOf(byBias, toSc2) \o FirstOf(rest, Len(rest) - half)]
  BY DEF Dealt, byBias, n, toBw, toSc2, rest, half
<1>13. CASE x = <<>> /\ y = <<>>
  <2>1. Dealt(x, y, z) = [bw |-> SubSeq(byBias, (n \div 2) + 1, n),
                          sc2 |-> FirstOf(byBias, n \div 2)]
    BY <1>12, <1>13, Zenon
  <2>2. /\ SubSeq(byBias, (n \div 2) + 1, n) \in Seq(SideOf(E, "bw"))
        /\ FirstOf(byBias, n \div 2) \in Seq(SideOf(E, "sc2"))
    BY <1>6, <1>9
  <2> QED BY <2>1, <2>2
<1>14. CASE ~(x = <<>> /\ y = <<>>)
  <2>1. Dealt(x, y, z) = [bw |-> x \o LastOf(byBias, toBw) \o LastOf(rest, half),
                          sc2 |-> y \o FirstOf(byBias, toSc2) \o FirstOf(rest, Len(rest) - half)]
    BY <1>12, <1>14, Zenon
  <2> QED BY <1>10, <1>11, <2>1
<1> QED BY <1>13, <1>14

\* The player who changes sides has a race for the other one.
LEMMA MovedOK ==
  ASSUME NEW T, NEW U, NEW from \in Seq(T), NEW to \in Seq(U), NEW mover \in U
  PROVE  Moved(from, to, mover).from \in Seq(T) /\ Moved(from, to, mover).to \in Seq(U)
<1> DEFINE at == {i \in DOMAIN from : from[i].id # mover.id}
           x == InOrder(from, at, [i \in DOMAIN from |-> i])
<1>1. \A i \in at : from[i] \in T
  OBVIOUS
<1>2. x \in Seq(T \cap T)
  BY <1>1, FilterKeeps
<1>3. Moved(from, to, mover) = [from |-> x, to |-> Append(to, mover)]
  BY DEF Moved, Kept
<1> HIDE DEF x
<1>4. x \in Seq(T)
  BY <1>2
<1> QED BY <1>3, <1>4, AppendProperties

LEMMA RebalancedOK ==
  ASSUME RatingsTyped, NEW E, E \subseteq Entry, NEW sides, sides.bw \in Seq(SideOf(E, "bw")), sides.sc2 \in Seq(SideOf(E, "sc2"))
  PROVE  /\ Rebalanced(sides).bw \in Seq(SideOf(E, "bw"))
         /\ Rebalanced(sides).sc2 \in Seq(SideOf(E, "sc2"))
<1> DEFINE bw == sides.bw
           sc2 == sides.sc2
           delta == SumOf(Bw, bw) * Len(sc2) - SumOf(Sc2, sc2) * Len(bw)
           limit == BalanceThreshold * Len(bw) * Len(sc2)
           neutral(s) == SortedBy(Kept(s, IsBoth), LAMBDA e : AbsOf(Bias(e)))
           fits(from, to) == /\ neutral(from) # <<>>
                             /\ AbsOf(Len(from) - Len(to) - 2) <= AbsOf(Len(from) - Len(to))
           toSc2 == Moved(bw, sc2, neutral(bw)[1])
           toBw == Moved(sc2, bw, neutral(sc2)[1])
<1>1. ASSUME NEW s \in Seq(E), neutral(s) # <<>> PROVE neutral(s)[1] \in EitherSide(E)
  <2> DEFINE at == {i \in DOMAIN s : IsBoth(s[i])}
             x == InOrder(s, at, [i \in DOMAIN s |-> i])
             key == [i \in DOMAIN x |-> AbsOf(Bias(x[i]))]
             P == EitherSide(E)
  <2>1. \A i \in at : s[i] \in P
    BY DEF EitherSide
  <2>2. x \in Seq(E \cap P)
    BY <2>1, FilterKeeps
  <2>3. E \cap P = EitherSide(E)
    BY DEF EitherSide
  <2>4. neutral(s) = InOrder(x, DOMAIN x, key)
    BY DEF SortedBy, Kept
  <2> HIDE DEF at, x, P
  <2>5. x \in Seq(EitherSide(E))
    BY <2>2, <2>3
  <2>6. \A i \in DOMAIN x : key[i] \in Int
    BY <2>5, EntryFacts, SideFacts
  <2> HIDE DEF key, neutral
  <2>7. neutral(s) \in Seq(EitherSide(E))
    BY <2>4, <2>5, <2>6, SortKeeps
  <2> QED BY <1>1, <2>7
<1>2. bw \in Seq(E) /\ sc2 \in Seq(E)
  BY SideFacts, SeqMonotonic
<1> HIDE DEF neutral
<1>3. \/ Rebalanced(sides) = sides
      \/ fits(bw, sc2) /\ Rebalanced(sides) = [bw |-> toSc2.from, sc2 |-> toSc2.to]
      \/ fits(sc2, bw) /\ Rebalanced(sides) = [bw |-> toBw.to, sc2 |-> toBw.from]
  <2>1. Rebalanced(sides) =
          CASE delta > limit /\ fits(bw, sc2) -> [bw |-> toSc2.from, sc2 |-> toSc2.to]
            [] delta < -limit /\ fits(sc2, bw) -> [bw |-> toBw.to, sc2 |-> toBw.from]
            [] OTHER -> sides
    BY DEF Rebalanced, neutral
  <2> DEFINE A == delta > limit /\ fits(bw, sc2)
             B == delta < -limit /\ fits(sc2, bw)
             a == [bw |-> toSc2.from, sc2 |-> toSc2.to]
             b == [bw |-> toBw.to, sc2 |-> toBw.from]
  <2>2. (A => fits(bw, sc2)) /\ (B => fits(sc2, bw))
    BY Zenon
  <2>3. Rebalanced(sides) = CASE A -> a [] B -> b [] OTHER -> sides
    BY <2>1
  <2> HIDE DEF A, B, a, b
  <2>4. \/ Rebalanced(sides) = sides
        \/ A /\ Rebalanced(sides) = a
        \/ B /\ Rebalanced(sides) = b
    BY <2>3
  <2> HIDE DEF fits
  <2>5. /\ a = [bw |-> toSc2.from, sc2 |-> toSc2.to]
        /\ b = [bw |-> toBw.to, sc2 |-> toBw.from]
    BY DEF a, b
  <2> HIDE DEF bw, sc2, toSc2, toBw
  <2> QED BY <2>2, <2>4, <2>5
<1>4. CASE fits(bw, sc2) /\ Rebalanced(sides) = [bw |-> toSc2.from, sc2 |-> toSc2.to]
  <2>1. neutral(bw)[1] \in EitherSide(E)
    BY <1>1, <1>2, <1>4
  <2>2. neutral(bw)[1] \in SideOf(E, "sc2")
    BY <2>1, SideFacts
  <2> HIDE DEF bw, sc2
  <2>3. bw \in Seq(SideOf(E, "bw")) /\ sc2 \in Seq(SideOf(E, "sc2"))
    BY DEF bw, sc2
  <2>4. toSc2.from \in Seq(SideOf(E, "bw")) /\ toSc2.to \in Seq(SideOf(E, "sc2"))
    BY <2>2, <2>3, MovedOK
  <2> QED BY <1>4, <2>4
<1>5. CASE fits(sc2, bw) /\ Rebalanced(sides) = [bw |-> toBw.to, sc2 |-> toBw.from]
  <2>1. neutral(sc2)[1] \in EitherSide(E)
    BY <1>1, <1>2, <1>5
  <2>2. neutral(sc2)[1] \in SideOf(E, "bw")
    BY <2>1, SideFacts
  <2> HIDE DEF bw, sc2
  <2>3. bw \in Seq(SideOf(E, "bw")) /\ sc2 \in Seq(SideOf(E, "sc2"))
    BY DEF bw, sc2
  <2>4. toBw.from \in Seq(SideOf(E, "sc2")) /\ toBw.to \in Seq(SideOf(E, "bw"))
    BY <2>2, <2>3, MovedOK
  <2> QED BY <1>5, <2>4
<1> QED BY <1>3, <1>4, <1>5

\* Each side of a wave has players who chose a race for it.
LEMMA EqualizedOK ==
  ASSUME RatingsTyped, NEW E, E \subseteq Entry, NEW q \in Seq(E)
  PROVE  Equalized(q).bw \in Seq(SideOf(E, "bw")) /\ Equalized(q).sc2 \in Seq(SideOf(E, "sc2"))
<1> DEFINE x == BwOnly(q)
           y == Sc2Only(q)
           z == BothRaces(q)
<1>1. x \in Seq(SideOf(E, "bw")) /\ y \in Seq(SideOf(E, "sc2")) /\ z \in Seq(EitherSide(E))
  BY PoolsOK
<1>2. Equalized(q) = IF z = <<>> THEN [bw |-> x, sc2 |-> y]
                     ELSE IF x = <<>> /\ y = <<>> THEN Dealt(x, y, z)
                     ELSE Rebalanced(Dealt(x, y, z))
  BY DEF Equalized
<1> HIDE DEF x, y, z
<1>3. Dealt(x, y, z).bw \in Seq(SideOf(E, "bw")) /\ Dealt(x, y, z).sc2 \in Seq(SideOf(E, "sc2"))
  BY <1>1, DealtOK
<1>4. /\ Rebalanced(Dealt(x, y, z)).bw \in Seq(SideOf(E, "bw"))
      /\ Rebalanced(Dealt(x, y, z)).sc2 \in Seq(SideOf(E, "sc2"))
  BY <1>3, RebalancedOK
<1> QED BY <1>1, <1>2, <1>3, <1>4

\* The members of a seq of entries that a wave keeps.
LEMMA FilteredOK ==
  ASSUME RatingsTyped, NEW A, NEW B, A \subseteq Entry, B \subseteq Entry,
         NEW sides, sides.bw \in Seq(A), sides.sc2 \in Seq(B)
  PROVE  Filtered(sides).bw \in Seq(A) /\ Filtered(sides).sc2 \in Seq(B)
<1>1. ASSUME NEW T, T \subseteq Entry, NEW s \in Seq(T), NEW n \in 0..Len(s)
      PROVE  Prioritized(s, n) \in Seq(T)
  <2> DEFINE key == [i \in DOMAIN s |-> -s[i].wait]
             o == InOrder(s, DOMAIN s, key)
  <2>1. Prioritized(s, n) = IF Len(s) = n THEN s ELSE FirstOf(o, n)
    BY DEF Prioritized, SortedBy
  <2>2. \A i \in DOMAIN s : key[i] \in Int
    <3>1. \A i \in DOMAIN s : s[i] \in Entry
      BY <1>1
    <3>2. \A i \in DOMAIN s : -s[i].wait \in Int
      BY <3>1, EntryFacts
    <3> QED BY <3>2
  <2> HIDE DEF key
  <2>3. o \in Seq(T) /\ Len(o) = Len(s)
    BY <2>2, SortKeeps
  <2> HIDE DEF o
  <2>4. FirstOf(o, n) \in Seq(T)
    BY <2>3, PartsOK
  <2> QED BY <2>1, <2>4
<1> DEFINE n == AtMost(Len(sides.bw), Len(sides.sc2))
<1>2. n \in 0..Len(sides.bw) /\ n \in 0..Len(sides.sc2)
  <2>1. Len(sides.bw) \in Nat /\ Len(sides.sc2) \in Nat
    OBVIOUS
  <2> QED BY <2>1 DEF AtMost
<1>3. Filtered(sides) = [bw |-> Prioritized(sides.bw, n), sc2 |-> Prioritized(sides.sc2, n)]
  BY DEF Filtered
<1> HIDE DEF n
<1>4. Prioritized(sides.bw, n) \in Seq(A) /\ Prioritized(sides.sc2, n) \in Seq(B)
  BY <1>1, <1>2
<1> QED BY <1>3, <1>4

\* Pairs whose difference one of the two accepts.
Fitting(A, B) == {pair \in [bw : A, sc2 : B] : InWindow(pair)}

\* The two nested loops stay within the two sides.
LEMMA LoopBounds ==
  ASSUME NEW n \in Nat, NEW k \in Nat, NEW i \in 1..(n * k)
  PROVE  ((i - 1) \div n) + 1 \in 1..k /\ ((i - 1) % n) + 1 \in 1..n
<1>1. n * k \in Nat /\ i - 1 \in Nat /\ i - 1 < n * k
  OBVIOUS
<1>2. n # 0
  <2>1. ASSUME n = 0 PROVE n * k = 0
    BY <2>1
  <2> QED BY <1>1, <2>1
<1>3. (i - 1) % n \in 0..(n - 1)
  BY <1>1, <1>2
<1>4. (i - 1) \div n \in Nat /\ n * ((i - 1) \div n) <= i - 1
  <2>1. \A a \in Nat, b \in Nat \ {0} : a \div b \in Nat /\ b * (a \div b) <= a
    OBVIOUS
  <2> QED BY <1>1, <1>2, <2>1
<1>5. (i - 1) \div n < k
  <2>1. \A b \in Nat \ {0}, c, d \in Nat : b * c < b * d => c < d
    OBVIOUS
  <2>2. n * ((i - 1) \div n) \in Int
    BY <1>4
  <2>3. n * ((i - 1) \div n) < n * k
    BY <1>1, <1>4, <2>2
  <2> QED BY <1>2, <1>4, <2>1, <2>3
<1> QED BY <1>3, <1>4, <1>5

\* The places the outer and the inner loop are at in their i-th turn; every
\* two places have a turn.
Outer(i, n) == ((i - 1) \div n) + 1
Inner(i, n) == ((i - 1) % n) + 1

LEMMA LoopCovers ==
  ASSUME NEW n \in Nat, NEW k \in Nat, NEW a \in 1..k, NEW b \in 1..n
  PROVE  \E i \in 1..(n * k) : Outer(i, n) = a /\ Inner(i, n) = b
<1> DEFINE c == a - 1
           d == b - 1
           j == n * c + d
<1>1. c \in 0..(k - 1) /\ d \in 0..(n - 1) /\ n \in Nat \ {0} /\ n * c \in Nat
  <2>1. c \in Nat /\ c \in 0..(k - 1) /\ d \in 0..(n - 1) /\ n \in Nat \ {0}
    OBVIOUS
  <2>2. \A x, y \in Nat : x * y \in Nat
    OBVIOUS
  <2> HIDE DEF c, d
  <2> QED BY <2>1, <2>2
<1> HIDE DEF c, d
<1>2. j \in Nat /\ n * c <= j /\ j < n * c + n
  BY <1>1
<1>3. n * c + n <= n * k
  <2>1. \A x, y \in Nat : x <= y => n * x <= n * y
    OBVIOUS
  <2>2. \A x \in Nat : n * (x + 1) = n * x + n
    OBVIOUS
  <2>3. c + 1 \in Nat /\ c + 1 <= k /\ c \in Nat
    BY <1>1
  <2> QED BY <2>1, <2>2, <2>3
<1>4. j \div n = c /\ j % n = d
  <2>1. ASSUME NEW x \in Nat, NEW y \in Nat \ {0}, NEW z \in 0..(y - 1), y * x \in Nat
        PROVE  (y * x + z) \div y = x
    OBVIOUS
  <2>2. ASSUME NEW x \in Nat, NEW y \in Nat \ {0}, NEW z \in 0..(y - 1), y * x \in Nat
        PROVE  (y * x + z) % y = z
    OBVIOUS
  <2> QED BY <1>1, <2>1, <2>2
<1> HIDE DEF j
<1>5. n * k \in Nat
  <2>1. \A x, y \in Nat : x * y \in Nat
    OBVIOUS
  <2> QED BY <2>1
<1>6. j + 1 \in 1..(n * k)
  BY <1>1, <1>2, <1>3, <1>5
<1>7. (j + 1) - 1 = j
  BY <1>2
<1>8. c + 1 = a /\ d + 1 = b
  BY DEF c, d
<1>9. Outer(j + 1, n) = a /\ Inner(j + 1, n) = b
  BY <1>4, <1>7, <1>8 DEF Outer, Inner
<1> QED BY <1>6, <1>9

\* Every two players on the sides who fit are offered as a pair.
Offers(c, sides) ==
  \A a \in DOMAIN sides.bw, b \in DOMAIN sides.sc2 :
    LET pair == [bw |-> sides.bw[a], sc2 |-> sides.sc2[b]]
    IN  pair.bw.who # pair.sc2.who /\ InWindow(pair) => \E i \in DOMAIN c : c[i] = pair

LEMMA CandidatesOK ==
  ASSUME NEW A, NEW B, NEW sides, sides.bw \in Seq(A), sides.sc2 \in Seq(B), NEW bwLeads \in BOOLEAN
  PROVE  Candidates(sides, bwLeads) \in Seq(Fitting(A, B)) /\ Offers(Candidates(sides, bwLeads), sides)
<1> DEFINE n == Len(sides.sc2)
           k == Len(sides.bw)
           pairOf(i) == IF bwLeads
                        THEN [bw |-> sides.bw[((i - 1) \div n) + 1], sc2 |-> sides.sc2[((i - 1) % n) + 1]]
                        ELSE [bw |-> sides.bw[((i - 1) % k) + 1], sc2 |-> sides.sc2[((i - 1) \div k) + 1]]
           all == [i \in 1..(n * k) |-> pairOf(i)]
           at == {i \in DOMAIN all : all[i].bw.who # all[i].sc2.who /\ InWindow(all[i])}
<1>1. n \in Nat /\ k \in Nat /\ n * k \in Nat /\ n * k = k * n
  <2>1. n \in Nat /\ k \in Nat
    OBVIOUS
  <2>2. \A a, b \in Nat : a * b \in Nat /\ a * b = b * a
    OBVIOUS
  <2> HIDE DEF n, k
  <2> QED BY <2>1, <2>2
<1>2. ASSUME NEW i \in 1..(n * k) PROVE pairOf(i) \in [bw : A, sc2 : B]
  <2> HIDE DEF n, k
  <2>1. /\ ((i - 1) \div n) + 1 \in 1..k /\ ((i - 1) % n) + 1 \in 1..n
    BY <1>1, LoopBounds
  <2>2. /\ ((i - 1) \div k) + 1 \in 1..n /\ ((i - 1) % k) + 1 \in 1..k
    BY <1>1, LoopBounds
  <2>3. \A j \in 1..k : sides.bw[j] \in A
    BY DEF k
  <2>4. \A j \in 1..n : sides.sc2[j] \in B
    BY DEF n
  <2>5. /\ sides.bw[((i - 1) \div n) + 1] \in A /\ sides.sc2[((i - 1) % n) + 1] \in B
        /\ sides.bw[((i - 1) % k) + 1] \in A /\ sides.sc2[((i - 1) \div k) + 1] \in B
    BY <2>1, <2>2, <2>3, <2>4
  <2> QED BY <2>5
<1>3. all \in Seq([bw : A, sc2 : B])
  <2> HIDE DEF pairOf, n, k
  <2> QED BY <1>1, <1>2
<1>4. Candidates(sides, bwLeads) = InOrder(all, at, [i \in DOMAIN all |-> i])
  BY DEF Candidates, Kept
<1>9. ASSUME NEW a \in 1..k, NEW b \in 1..n
      PROVE  \E i \in DOMAIN all : all[i] = [bw |-> sides.bw[a], sc2 |-> sides.sc2[b]]
  <2>1. CASE bwLeads
    <3>1. PICK i \in 1..(n * k) : Outer(i, n) = a /\ Inner(i, n) = b
      <4> HIDE DEF n, k
      <4>1. n \in Nat /\ k \in Nat
        BY <1>1
      <4> QED BY <4>1, LoopCovers
    <3>2. pairOf(i) = [bw |-> sides.bw[a], sc2 |-> sides.sc2[b]]
      <4> HIDE DEF n
      <4> QED BY <2>1, <3>1 DEF Outer, Inner
    <3> HIDE DEF pairOf, n, k
    <3> QED BY <3>1, <3>2
  <2>2. CASE ~bwLeads
    <3>1. PICK i \in 1..(k * n) : Outer(i, k) = b /\ Inner(i, k) = a
      <4> HIDE DEF n, k
      <4>1. n \in Nat /\ k \in Nat
        BY <1>1
      <4> QED BY <4>1, LoopCovers
    <3>2. pairOf(i) = [bw |-> sides.bw[a], sc2 |-> sides.sc2[b]]
      <4> HIDE DEF k
      <4> QED BY <2>2, <3>1 DEF Outer, Inner
    <3> HIDE DEF pairOf, n, k
    <3> QED BY <1>1, <3>1, <3>2
  <2> QED BY <2>1, <2>2
<1> HIDE DEF all
<1>5. at \in SUBSET DOMAIN all
  OBVIOUS
<1>6. ASSUME NEW i \in at PROVE all[i] \in Fitting(A, B)
  <2>1. i \in DOMAIN all /\ InWindow(all[i])
    OBVIOUS
  <2> DEFINE S == [bw : A, sc2 : B]
  <2>2. all \in Seq(S)
    BY <1>3
  <2> HIDE DEF S, at
  <2>3. all[i] \in S
    BY <2>1, <2>2
  <2> QED BY <2>1, <2>3 DEF Fitting, S
<1>10. ASSUME NEW a \in 1..k, NEW b \in 1..n, NEW pair, pair = [bw |-> sides.bw[a], sc2 |-> sides.sc2[b]],
              pair.bw.who # pair.sc2.who, InWindow(pair)
       PROVE  \E i \in DOMAIN Candidates(sides, bwLeads) : Candidates(sides, bwLeads)[i] = pair
  <2>1. PICK i \in DOMAIN all : all[i] = pair
    BY <1>9, <1>10
  <2>2. i \in at
    BY <1>10, <2>1
  <2> DEFINE S == [bw : A, sc2 : B]
             key == [p \in DOMAIN all |-> p]
  <2>3. DOMAIN all \subseteq Int /\ all \in Seq(S)
    BY <1>3
  <2>4. \A p \in at : key[p] \in Int
    BY <1>5, <2>3
  <2> HIDE DEF S, key, at
  <2>5. HasEntries(InOrder(all, at, key), S, all, at)
    BY <1>5, <2>3, <2>4, InOrderEntries
  <2>6. \E l \in DOMAIN InOrder(all, at, key) : InOrder(all, at, key)[l] = all[i]
    BY <2>2, <2>5 DEF HasEntries
  <2> QED BY <1>4, <2>1, <2>6 DEF key
<1> HIDE DEF at
<1>7. InOrder(all, at, [i \in DOMAIN all |-> i]) \in Seq([bw : A, sc2 : B] \cap Fitting(A, B))
  BY <1>3, <1>5, <1>6, FilterKeeps
<1>8. [bw : A, sc2 : B] \cap Fitting(A, B) = Fitting(A, B)
  BY DEF Fitting
<1>11. DOMAIN sides.bw = 1..k /\ DOMAIN sides.sc2 = 1..n
  OBVIOUS
<1>12. ASSUME NEW a \in DOMAIN sides.bw, NEW b \in DOMAIN sides.sc2
       PROVE  LET pair == [bw |-> sides.bw[a], sc2 |-> sides.sc2[b]]
              IN  pair.bw.who # pair.sc2.who /\ InWindow(pair)
                    => \E i \in DOMAIN Candidates(sides, bwLeads) : Candidates(sides, bwLeads)[i] = pair
  <2> DEFINE pair == [bw |-> sides.bw[a], sc2 |-> sides.sc2[b]]
             C == Candidates(sides, bwLeads)
  <2> HIDE DEF n, k, C
  <2>1. a \in 1..k /\ b \in 1..n
    BY <1>11
  <2>2. ASSUME pair.bw.who # pair.sc2.who, InWindow(pair)
        PROVE  \E i \in DOMAIN C : C[i] = pair
    <3>1. pair = [bw |-> sides.bw[a], sc2 |-> sides.sc2[b]]
      OBVIOUS
    <3> HIDE DEF pair
    <3> QED BY <1>10, <2>1, <2>2, <3>1 DEF C
  <2> HIDE DEF pair
  <2> QED BY <2>2 DEF C, pair
<1>14. Offers(Candidates(sides, bwLeads), sides)
  <2> DEFINE C == Candidates(sides, bwLeads)
  <2>1. \A a \in DOMAIN sides.bw, b \in DOMAIN sides.sc2 :
          LET pair == [bw |-> sides.bw[a], sc2 |-> sides.sc2[b]]
          IN  pair.bw.who # pair.sc2.who /\ InWindow(pair) => \E i \in DOMAIN C : C[i] = pair
    BY <1>12, Zenon
  <2> HIDE DEF C
  <2>2. Offers(C, sides)
    BY <2>1 DEF Offers
  <2> QED BY <2>2 DEF C
<1>13. Candidates(sides, bwLeads) \in Seq(Fitting(A, B))
  BY <1>4, <1>7, <1>8
<1> HIDE DEF n, k, pairOf
<1> QED BY <1>13, <1>14

\* Nobody is in two pairs.
EachOnce(pairs) ==
  \A i, j \in DOMAIN pairs : i # j => /\ pairs[i].bw.who # pairs[j].bw.who
                                      /\ pairs[i].sc2.who # pairs[j].sc2.who

\* Pairings of players of A with players of B.
Pairings(A, B) == {pairs \in Seq(Fitting(A, B)) : EachOnce(pairs)}

LEMMA ScoreTyped ==
  ASSUME RatingsTyped, NEW A, NEW B, A \subseteq Entry, B \subseteq Entry, NEW pair \in Fitting(A, B)
  PROVE  Score(pair) \in Int
<1>1. pair.bw \in Entry /\ pair.sc2 \in Entry
  BY DEF Fitting
<1>2. Bw(pair.bw) \in Nat /\ Sc2(pair.sc2) \in Nat /\ pair.bw.wait \in Nat /\ pair.sc2.wait \in Nat
  BY <1>1, EntryFacts
<1>3. Diff(pair) \in Int
  BY <1>2 DEF Diff, AbsOf
<1>4. \A a, b \in Int : a * b \in Int /\ a - b \in Int
  OBVIOUS
<1>5. pair.bw.wait + pair.sc2.wait \in Int /\ WaitPriority \in Int
  BY <1>2 DEF WaitPriority
<1>6. Diff(pair) * Diff(pair) \in Int /\ (pair.bw.wait + pair.sc2.wait) * WaitPriority \in Int
  BY <1>3, <1>4, <1>5
<1> QED BY <1>4, <1>6 DEF Score

LEMMA AddPair ==
  ASSUME NEW A, NEW B, NEW chosen \in Pairings(A, B), NEW pair \in Fitting(A, B), IsFree(chosen, pair)
  PROVE  Append(chosen, pair) \in Pairings(A, B)
<1> DEFINE F == Fitting(A, B)
           more == Append(chosen, pair)
<1>1. chosen \in Seq(F) /\ EachOnce(chosen)
  BY DEF Pairings
<1>2. pair \in F
  OBVIOUS
<1> HIDE DEF F
<1>3. /\ more \in Seq(F) /\ Len(chosen) \in Nat
      /\ DOMAIN chosen = 1..Len(chosen) /\ DOMAIN more = 1..(Len(chosen) + 1)
      /\ \A i \in 1..Len(chosen) : more[i] = chosen[i]
      /\ more[Len(chosen) + 1] = pair
  BY <1>1, <1>2, AppendProperties, LenProperties
<1> HIDE DEF more
<1>4. ASSUME NEW i \in DOMAIN more, NEW j \in DOMAIN more, i # j
      PROVE  more[i].bw.who # more[j].bw.who /\ more[i].sc2.who # more[j].sc2.who
  <2>1. CASE i \in 1..Len(chosen) /\ j \in 1..Len(chosen)
    BY <1>1, <1>3, <1>4, <2>1 DEF EachOnce
  <2>2. CASE i \in 1..Len(chosen) /\ j = Len(chosen) + 1
    BY <1>3, <2>2 DEF IsFree
  <2>3. CASE i = Len(chosen) + 1 /\ j \in 1..Len(chosen)
    BY <1>3, <2>3 DEF IsFree
  <2> QED BY <1>3, <1>4, <2>1, <2>2, <2>3
<1> QED BY <1>3, <1>4 DEF Pairings, EachOnce, F, more

\* A pair that is chosen is not free, and what was not free stays so.
LEMMA StaysTaken ==
  ASSUME NEW F, NEW chosen \in Seq(F), NEW pair \in F
  PROVE  /\ ~IsFree(Append(chosen, pair), pair)
         /\ \A other : ~IsFree(chosen, other) => ~IsFree(Append(chosen, pair), other)
<1> DEFINE more == Append(chosen, pair)
<1>1. /\ Len(chosen) \in Nat
      /\ DOMAIN chosen = 1..Len(chosen) /\ DOMAIN more = 1..(Len(chosen) + 1)
      /\ \A i \in 1..Len(chosen) : more[i] = chosen[i]
      /\ more[Len(chosen) + 1] = pair
  BY AppendProperties, LenProperties
<1> HIDE DEF more
<1>2. \A i \in DOMAIN chosen : i \in DOMAIN more /\ more[i] = chosen[i]
  BY <1>1
<1>3. \E i \in DOMAIN more : more[i] = pair
  BY <1>1
<1>4. ~IsFree(more, pair)
  BY <1>3 DEF IsFree
<1>5. \A other : ~IsFree(chosen, other) => ~IsFree(more, other)
  BY <1>2 DEF IsFree
<1> QED BY <1>4, <1>5 DEF more

\* The greedy choice never takes a player twice, and leaves no candidate free.
LEMMA SelectedOK ==
  ASSUME RatingsTyped, NEW A, NEW B, A \subseteq Entry, B \subseteq Entry,
         NEW c \in Seq(Fitting(A, B))
  PROVE  Selected(c) \in Pairings(A, B) /\ \A i \in DOMAIN c : ~IsFree(Selected(c), c[i])
<1> DEFINE s == SortedBy(c, Score)
           n == Len(s)
           V == Pairings(A, B)
           next(rest, i) == IF IsFree(rest, s[i]) THEN Append(rest, s[i]) ELSE rest
           Solves(f) == f = [d \in SUBSET DOMAIN s |->
                               IF d = {} THEN <<>> ELSE next(f[d \ {Max(d)}], Max(d))]
           iter == CHOOSE f : Solves(f)
<1>1. Selected(c) = iter[DOMAIN s]
  BY DEF Selected, FoldLeft, MapThenFoldSet
<1>2. /\ s \in Seq(Fitting(A, B)) /\ n \in Nat /\ DOMAIN s = 1..n
      /\ \A i \in DOMAIN c : \E k \in 1..n : s[k] = c[i]
  <2> DEFINE key == [i \in DOMAIN c |-> Score(c[i])]
  <2>1. \A i \in DOMAIN c : key[i] \in Int
    <3> SUFFICES ASSUME NEW i \in DOMAIN c PROVE Score(c[i]) \in Int
      OBVIOUS
    <3>1. c[i] \in Fitting(A, B)
      OBVIOUS
    <3> QED BY <3>1, ScoreTyped
  <2>2. s = InOrder(c, DOMAIN c, key)
    BY DEF SortedBy
  <2> HIDE DEF key, s
  <2>3. s \in Seq(Fitting(A, B))
    BY <2>1, <2>2, SortKeeps
  <2>4. HasEntries(s, Fitting(A, B), c, DOMAIN c)
    BY <2>1, <2>2, InOrderEntries
  <2> QED BY <2>3, <2>4, LenProperties DEF HasEntries
<1>3. <<>> \in V
  <2>1. <<>> \in Seq(Fitting(A, B)) /\ DOMAIN <<>> = {}
    OBVIOUS
  <2> QED BY <2>1 DEF Pairings, EachOnce
<1> HIDE DEF s, n
<1>4. ASSUME NEW rest \in V, NEW i \in 1..n PROVE next(rest, i) \in V
  <2>1. s[i] \in Fitting(A, B)
    BY <1>2
  <2>2. CASE IsFree(rest, s[i])
    <3>1. Append(rest, s[i]) \in V
      BY <2>1, <2>2, AddPair
    <3> QED BY <2>2, <3>1
  <2>3. CASE ~IsFree(rest, s[i])
    BY <2>3
  <2> QED BY <2>2, <2>3
<1> HIDE DEF V, next
<1>5. \E f : Solves(f)
  <2> DEFINE step == [x \in V \X (1..n) |-> next(x[1], x[2])]
  <2>1. step \in [V \X (1..n) -> V]
    BY <1>4
  <2> HIDE DEF step
  <2>2. PICK f \in [SUBSET (1..n) -> V] : IsFold(f, n, <<>>, step)
    BY <1>2, <1>3, <2>1, FoldExists
  <2>3. ASSUME NEW d \in SUBSET (1..n)
        PROVE  f[d] = IF d = {} THEN <<>> ELSE next(f[d \ {Max(d)}], Max(d))
    <3> SUFFICES ASSUME d # {} PROVE f[d] = next(f[d \ {Max(d)}], Max(d))
      BY <2>2 DEF IsFold
    <3>1. Max(d) \in 1..n
      BY <1>2, MaxIn
    <3>2. f[d \ {Max(d)}] \in V
      BY <2>2
    <3>3. step[<<f[d \ {Max(d)}], Max(d)>>] = next(f[d \ {Max(d)}], Max(d))
      BY <3>1, <3>2 DEF step
    <3> QED BY <2>2, <3>3 DEF IsFold
  <2>4. f = [d \in SUBSET (1..n) |-> f[d]]
    BY <2>2
  <2>5. f = [d \in SUBSET (1..n) |-> IF d = {} THEN <<>> ELSE next(f[d \ {Max(d)}], Max(d))]
    BY <2>3, <2>4
  <2> QED BY <1>2, <2>5
<1>6. Solves(iter)
  <2> HIDE DEF Solves
  <2> QED BY <1>5
<1> HIDE DEF iter
<1> DEFINE W == [k \in 0..n |-> {r \in V : \A i \in 1..k : ~IsFree(r, s[i])}]
<1>7. iter[1..n] \in W[n]
  <2>1. \A d \in SUBSET (1..n) :
          iter[d] = IF d = {} THEN <<>> ELSE next(iter[d \ {Max(d)}], Max(d))
    BY <1>2, <1>6
  <2> HIDE DEF Solves
  <2>2. iter[{}] \in W[0]
    <3>1. iter[{}] \in V
      BY <1>3, <2>1
    <3>2. 0 \in 0..n /\ 1..0 = {}
      BY <1>2
    <3> QED BY <3>1, <3>2
  <2>3. ASSUME NEW k \in 0..(n - 1), iter[1..k] \in W[k] PROVE iter[1..(k + 1)] \in W[k + 1]
    <3>1. k \in Nat /\ k \in 0..n /\ k + 1 \in 0..n /\ k + 1 \in 1..n /\ 1..(k + 1) \in SUBSET (1..n)
      BY <1>2
    <3>2. iter[1..(k + 1)] = next(iter[1..k], k + 1)
      <4>1. 1..(k + 1) # {} /\ Max(1..(k + 1)) = k + 1 /\ (1..(k + 1)) \ {k + 1} = 1..k
        BY <3>1, FoldStep
      <4> HIDE DEF W
      <4> QED BY <2>1, <3>1, <4>1
    <3>3. iter[1..k] \in V /\ \A i \in 1..k : ~IsFree(iter[1..k], s[i])
      BY <2>3, <3>1
    <3>4. next(iter[1..k], k + 1) \in V
      BY <1>4, <3>1, <3>3
    <3>5. /\ ~IsFree(next(iter[1..k], k + 1), s[k + 1])
          /\ \A i \in 1..k : ~IsFree(next(iter[1..k], k + 1), s[i])
      <4>1. iter[1..k] \in Seq(Fitting(A, B)) /\ s[k + 1] \in Fitting(A, B)
        BY <1>2, <3>1, <3>3 DEF V, Pairings
      <4>2. CASE IsFree(iter[1..k], s[k + 1])
        <5>1. next(iter[1..k], k + 1) = Append(iter[1..k], s[k + 1])
          BY <4>2 DEF next
        <5> QED BY <3>3, <4>1, <5>1, StaysTaken
      <4>3. CASE ~IsFree(iter[1..k], s[k + 1])
        <5>1. next(iter[1..k], k + 1) = iter[1..k]
          BY <4>3 DEF next
        <5> QED BY <3>3, <4>3, <5>1
      <4> QED BY <4>2, <4>3
    <3>6. \A i \in 1..(k + 1) : ~IsFree(next(iter[1..k], k + 1), s[i])
      <4>1. \A i \in 1..(k + 1) : i \in 1..k \/ i = k + 1
        BY <3>1
      <4> QED BY <3>5, <4>1
    <3> QED BY <3>1, <3>2, <3>4, <3>6
  <2> HIDE DEF W
  <2> QED BY <1>2, <2>2, <2>3, FoldChain
<1>8. iter[1..n] \in V /\ \A i \in 1..n : ~IsFree(iter[1..n], s[i])
  BY <1>2, <1>7
<1> HIDE DEF W, Solves
<1>9. \A i \in DOMAIN c : ~IsFree(iter[1..n], c[i])
  BY <1>2, <1>8
<1> QED BY <1>1, <1>2, <1>8, <1>9 DEF V

\* The total error of some pairs.
Square(pair) == Diff(pair) * Diff(pair)
ErrorOf(pairs) == SumOf(LAMBDA pair : Diff(pair) * Diff(pair), pairs)

LEMMA SquareTyped ==
  ASSUME RatingsTyped, NEW A, NEW B, A \subseteq Entry, B \subseteq Entry, NEW pair \in [bw : A, sc2 : B]
  PROVE  Diff(pair) \in Int /\ Square(pair) \in Int
<1>1. pair.bw \in Entry /\ pair.sc2 \in Entry
  OBVIOUS
<1>2. Bw(pair.bw) \in Nat /\ Sc2(pair.sc2) \in Nat
  BY <1>1, EntryFacts
<1>3. Diff(pair) \in Int
  BY <1>2 DEF Diff, AbsOf
<1>4. \A a, b \in Int : a * b \in Int
  OBVIOUS
<1> QED BY <1>3, <1>4 DEF Square

\* The sum, one pair after the other.
LEMMA ErrorRuns ==
  ASSUME NEW S, \A pair \in S : Square(pair) \in Int, NEW n \in Nat, NEW s \in Seq(S), Len(s) = n
  PROVE  \E h \in [0..n -> Int] :
           /\ h[0] = 0 /\ h[n] = ErrorOf(s)
           /\ \A k \in 0..(n - 1) : h[k + 1] = h[k] + Square(s[k + 1])
<1> DEFINE next(acc, i) == acc + Diff(s[i]) * Diff(s[i])
           Solves(f) == f = [d \in SUBSET DOMAIN s |->
                               IF d = {} THEN 0 ELSE next(f[d \ {Max(d)}], Max(d))]
           iter == CHOOSE f : Solves(f)
<1>1. ErrorOf(s) = iter[DOMAIN s]
  BY DEF ErrorOf, SumOf, FoldLeft, MapThenFoldSet
<1>2. DOMAIN s = 1..n
  OBVIOUS
<1>3. \A i \in 1..n : Square(s[i]) \in Int /\ \A acc : next(acc, i) = acc + Square(s[i])
  <2>1. \A i \in 1..n : s[i] \in S
    BY <1>2
  <2> QED BY <2>1 DEF Square
<1> HIDE DEF next
<1>4. \A acc \in Int, i \in 1..n : next(acc, i) \in Int
  BY <1>3
<1>5. \E f : Solves(f)
  <2> DEFINE step == [x \in Int \X (1..n) |-> next(x[1], x[2])]
  <2>1. step \in [Int \X (1..n) -> Int]
    BY <1>4
  <2> HIDE DEF step
  <2>0. 0 \in Int
    OBVIOUS
  <2>2. PICK f \in [SUBSET (1..n) -> Int] : IsFold(f, n, 0, step)
    BY <2>0, <2>1, FoldExists
  <2>3. ASSUME NEW d \in SUBSET (1..n)
        PROVE  f[d] = IF d = {} THEN 0 ELSE next(f[d \ {Max(d)}], Max(d))
    <3> SUFFICES ASSUME d # {} PROVE f[d] = next(f[d \ {Max(d)}], Max(d))
      BY <2>2 DEF IsFold
    <3>1. Max(d) \in 1..n
      BY MaxIn
    <3>2. f[d \ {Max(d)}] \in Int
      BY <2>2
    <3>3. step[<<f[d \ {Max(d)}], Max(d)>>] = next(f[d \ {Max(d)}], Max(d))
      BY <3>1, <3>2 DEF step
    <3> QED BY <2>2, <3>3 DEF IsFold
  <2>4. f = [d \in SUBSET (1..n) |-> f[d]]
    BY <2>2
  <2>5. f = [d \in SUBSET (1..n) |-> IF d = {} THEN 0 ELSE next(f[d \ {Max(d)}], Max(d))]
    BY <2>3, <2>4
  <2> QED BY <1>2, <2>5
<1>6. Solves(iter)
  <2> HIDE DEF Solves
  <2> QED BY <1>5
<1> HIDE DEF iter
<1>7. /\ iter[{}] = 0
      /\ \A k \in 0..(n - 1) : iter[1..(k + 1)] = iter[1..k] + Square(s[k + 1])
  <2>1. \A d \in SUBSET (1..n) :
          iter[d] = IF d = {} THEN 0 ELSE next(iter[d \ {Max(d)}], Max(d))
    BY <1>2, <1>6
  <2> HIDE DEF Solves
  <2>2. ASSUME NEW k \in 0..(n - 1) PROVE iter[1..(k + 1)] = iter[1..k] + Square(s[k + 1])
    <3>1. 1..(k + 1) \in SUBSET (1..n) /\ k \in Nat /\ k + 1 \in 1..n
      OBVIOUS
    <3>3. 1..(k + 1) # {} /\ Max(1..(k + 1)) = k + 1 /\ (1..(k + 1)) \ {k + 1} = 1..k
      BY <3>1, FoldStep
    <3>2. iter[1..(k + 1)] = next(iter[1..k], k + 1)
      BY <2>1, <3>1, <3>3
    <3> QED BY <1>3, <3>1, <3>2
  <2> QED BY <2>1, <2>2
<1> HIDE DEF Solves
<1> DEFINE h == [k \in 0..n |-> iter[1..k]]
           Good == {k \in Nat : k <= n => iter[1..k] \in Int}
<1>8. n \in Good /\ \A k \in 0..n : iter[1..k] \in Int
  <2>1. 0 \in Good
    <3>1. iter[1..0] = 0
      BY <1>7, FoldStep
    <3> QED BY <3>1
  <2>2. ASSUME NEW k \in Nat, k \in Good PROVE k + 1 \in Good
    <3> SUFFICES ASSUME k + 1 <= n PROVE iter[1..(k + 1)] \in Int
      OBVIOUS
    <3>1. k \in 0..(n - 1) /\ iter[1..k] \in Int /\ k + 1 \in 1..n
      BY <2>2
    <3> QED BY <1>3, <1>7, <3>1
  <2>3. Nat \subseteq Good
    <3> HIDE DEF Good
    <3> QED BY <2>1, <2>2, SetInduction
  <2> QED BY <2>3
<1>9. h \in [0..n -> Int] /\ h[0] = 0 /\ h[n] = ErrorOf(s)
  <2>1. 1..0 = {} /\ 0 \in 0..n /\ n \in 0..n
    OBVIOUS
  <2> QED BY <1>1, <1>2, <1>7, <1>8, <2>1
<1>10. \A k \in 0..(n - 1) : h[k + 1] = h[k] + Square(s[k + 1])
  <2>1. \A k \in 0..(n - 1) : k \in 0..n /\ k + 1 \in 0..n
    OBVIOUS
  <2> QED BY <1>7, <2>1
<1> HIDE DEF h
<1> QED BY <1>9, <1>10

\* Sums of numbers that differ at two neighbours.
LEMMA SumLess ==
  ASSUME NEW n \in Nat, NEW x \in [1..n -> Int], NEW y \in [1..n -> Int],
         NEW g \in [0..n -> Int], NEW h \in [0..n -> Int], g[0] = h[0],
         \A k \in 0..(n - 1) : h[k + 1] = h[k] + x[k + 1] /\ g[k + 1] = g[k] + y[k + 1],
         NEW i \in 1..(n - 1), \A k \in 1..n : k # i /\ k # i + 1 => y[k] = x[k],
         y[i] + y[i + 1] < x[i] + x[i + 1]
  PROVE  g[n] < h[n]
<1> DEFINE Good == {k \in Nat : k <= n => /\ k < i => g[k] = h[k]
                                          /\ k = i => g[k] + x[i] = h[k] + y[i]
                                          /\ k > i => g[k] < h[k]}
<1>1. 0 \in Good
  OBVIOUS
<1>2. ASSUME NEW k \in Nat, k \in Good PROVE k + 1 \in Good
  <2> SUFFICES ASSUME k + 1 <= n
               PROVE  /\ k + 1 < i => g[k + 1] = h[k + 1]
                      /\ k + 1 = i => g[k + 1] + x[i] = h[k + 1] + y[i]
                      /\ k + 1 > i => g[k + 1] < h[k + 1]
    BY DEF Good
  <2>0. /\ k < i => g[k] = h[k]
        /\ k = i => g[k] + x[i] = h[k] + y[i]
        /\ k > i => g[k] < h[k]
    BY <1>2
  <2> HIDE DEF Good
  <2>a. k \in 0..(n - 1) /\ k + 1 \in 1..n /\ k \in 0..n /\ k + 1 \in 0..n
    OBVIOUS
  <2>b. h[k] \in Int /\ g[k] \in Int /\ x[k + 1] \in Int /\ y[k + 1] \in Int
    BY <2>a
  <2>1. h[k + 1] = h[k] + x[k + 1] /\ g[k + 1] = g[k] + y[k + 1]
    BY <2>a
  <2>2. k + 1 # i /\ k + 1 # i + 1 => y[k + 1] = x[k + 1]
    BY <2>a
  <2>3. CASE k + 1 < i
    BY <2>0, <2>b, <2>1, <2>2, <2>3
  <2>4. CASE k + 1 = i
    <3>0. i = k + 1 /\ k < i
      BY <2>4
    <3>4. g[k] = h[k]
      BY <2>0, <3>0
    <3>5. x[i] = x[k + 1] /\ y[i] = y[k + 1]
      BY <3>0, Zenon
    <3>1. x[i] = x[k + 1] /\ y[i] = y[k + 1] /\ g[k] = h[k]
      BY <3>4, <3>5
    <3>2. g[k + 1] + x[k + 1] = h[k + 1] + y[k + 1]
      BY <2>b, <2>1, <3>1
    <3>3. ~(k + 1 < i) /\ ~(k + 1 > i)
      BY <2>4
    <3> QED BY <3>1, <3>2, <3>3
  <2>5. CASE k = i
    <3>1. x[i] \in Int /\ y[i] \in Int /\ x[i + 1] = x[k + 1] /\ y[i + 1] = y[k + 1]
      BY <2>a, <2>5
    <3>2. g[k] + x[i] = h[k] + y[i]
      BY <2>0, <2>5
    <3>3. y[i] + y[k + 1] < x[i] + x[k + 1]
      BY <3>1
    <3>6. \A a, b, c, d, v, w \in Int : a + c = b + d /\ d + w < c + v => a + w < b + v
      OBVIOUS
    <3>4. g[k + 1] < h[k + 1]
      <4>1. x[i] \in Int /\ y[i] \in Int
        BY <3>1
      <4>2. g[k] + y[k + 1] < h[k] + x[k + 1]
        BY <2>b, <3>2, <3>3, <3>6, <4>1
      <4> QED BY <2>1, <4>2
    <3>5. ~(k + 1 < i) /\ ~(k + 1 = i)
      BY <2>5
    <3> QED BY <3>4, <3>5
  <2>6. CASE k > i
    BY <2>0, <2>b, <2>1, <2>2, <2>6
  <2> QED BY <2>3, <2>4, <2>5, <2>6
<1>3. n \in Good
  <2> HIDE DEF Good
  <2> QED BY <1>1, <1>2, SetInduction
<1> QED BY <1>3

\* Two neighbours with less error between them, the others as they were.
LEMMA ErrorLess ==
  ASSUME NEW S, \A pair \in S : Square(pair) \in Int, NEW n \in Nat,
         NEW s \in Seq(S), Len(s) = n, NEW t \in Seq(S), Len(t) = n,
         NEW i \in 1..(n - 1), \A k \in 1..n : k # i /\ k # i + 1 => t[k] = s[k],
         Square(t[i]) + Square(t[i + 1]) < Square(s[i]) + Square(s[i + 1])
  PROVE  ErrorOf(t) < ErrorOf(s)
<1>1. PICK h \in [0..n -> Int] :
        /\ h[0] = 0 /\ h[n] = ErrorOf(s)
        /\ \A k \in 0..(n - 1) : h[k + 1] = h[k] + Square(s[k + 1])
  BY ErrorRuns
<1>2. PICK g \in [0..n -> Int] :
        /\ g[0] = 0 /\ g[n] = ErrorOf(t)
        /\ \A k \in 0..(n - 1) : g[k + 1] = g[k] + Square(t[k + 1])
  BY ErrorRuns
<1>3. \A k \in 1..n : Square(s[k]) \in Int /\ Square(t[k]) \in Int
  <2>1. DOMAIN s = 1..n /\ DOMAIN t = 1..n
    OBVIOUS
  <2>2. \A k \in 1..n : s[k] \in S
    BY <2>1
  <2>3. \A k \in 1..n : t[k] \in S
    BY <2>1
  <2> QED BY <2>2, <2>3
<1> DEFINE x == [k \in 1..n |-> Square(s[k])]
           y == [k \in 1..n |-> Square(t[k])]
<1>4. x \in [1..n -> Int] /\ y \in [1..n -> Int]
  BY <1>3
<1>5. \A k \in 1..n : x[k] = Square(s[k]) /\ y[k] = Square(t[k])
  OBVIOUS
<1> HIDE DEF x, y
<1>6. \A k \in 0..(n - 1) : h[k + 1] = h[k] + x[k + 1] /\ g[k + 1] = g[k] + y[k + 1]
  <2>1. \A k \in 0..(n - 1) : k + 1 \in 1..n
    OBVIOUS
  <2> QED BY <1>1, <1>2, <1>5, <2>1
<1>7. i \in 1..n /\ i + 1 \in 1..n
  OBVIOUS
<1>8. y[i] + y[i + 1] < x[i] + x[i + 1]
  BY <1>5, <1>7
<1>9. \A k \in 1..n : k # i /\ k # i + 1 => y[k] = x[k]
  BY <1>5
<1>10. g[n] < h[n]
  <2>1. g[0] = h[0]
    BY <1>1, <1>2
  <2> QED BY <1>4, <1>6, <1>8, <1>9, <2>1, SumLess
<1> QED BY <1>1, <1>2, <1>10

Pairing(A, B, n) == {pairs \in Pairings(A, B) : Len(pairs) = n}

\* In `to` the players of one side of two neighbours have changed places.
Exchanged(ps, to, i) ==
  LET a == [bw |-> ps[i].bw, sc2 |-> ps[i + 1].sc2]
      b == [bw |-> ps[i + 1].bw, sc2 |-> ps[i].sc2]
  IN  /\ \A k \in DOMAIN ps : k # i /\ k # i + 1 => to[k] = ps[k]
      /\ (to[i] = a /\ to[i + 1] = b) \/ (to[i] = b /\ to[i + 1] = a)

\* A swap leaves everybody in one pair, and the two new pairs are accepted.
LEMMA SwappedOK ==
  ASSUME NEW A, NEW B, NEW n \in Nat, NEW ps \in Pairing(A, B, n), NEW i \in 1..(n - 1),
         SwapHelps(ps[i], ps[i + 1]), NEW follow \in {"bw", "sc2"}
  PROVE  Swapped(ps, i, follow) \in Pairing(A, B, n) /\ Exchanged(ps, Swapped(ps, i, follow), i)
<1> DEFINE F == Fitting(A, B)
           to == Swapped(ps, i, follow)
           a2 == [bw |-> ps[i].bw, sc2 |-> ps[i + 1].sc2]
           b2 == [bw |-> ps[i + 1].bw, sc2 |-> ps[i].sc2]
           other(k) == IF k = i THEN i + 1 ELSE IF k = i + 1 THEN i ELSE k
<1>1. ps \in Seq(F) /\ Len(ps) = n /\ EachOnce(ps)
  BY DEF Pairing, Pairings
<1>2. i \in 1..n /\ i + 1 \in 1..n /\ i # i + 1
  OBVIOUS
<1>3. DOMAIN ps = 1..n
  BY <1>1
<1>4. ASSUME NEW k \in 1..n
      PROVE  /\ ps[k] \in [bw : A, sc2 : B] /\ InWindow(ps[k])
             /\ ps[k] = [bw |-> ps[k].bw, sc2 |-> ps[k].sc2]
             /\ ps[k].bw \in A /\ ps[k].sc2 \in B
  <2> HIDE DEF F
  <2>1. ps[k] \in F
    BY <1>1
  <2> QED BY <2>1 DEF F, Fitting
<1>5. a2 \in F /\ b2 \in F
  <2>1. /\ ps[i] = [bw |-> ps[i].bw, sc2 |-> ps[i].sc2]
        /\ ps[i + 1] = [bw |-> ps[i + 1].bw, sc2 |-> ps[i + 1].sc2]
    BY <1>2, <1>4
  <2>2. [ps[i] EXCEPT !.sc2 = ps[i + 1].sc2] = a2 /\ [ps[i + 1] EXCEPT !.sc2 = ps[i].sc2] = b2
    BY <2>1
  <2>3. InWindow(a2) /\ InWindow(b2)
    BY <2>2 DEF SwapHelps
  <2>4. a2 \in [bw : A, sc2 : B] /\ b2 \in [bw : A, sc2 : B]
    BY <1>2, <1>4
  <2> QED BY <2>3, <2>4 DEF Fitting
<1>6. /\ DOMAIN to = 1..n
      /\ \A k \in 1..n : k # i /\ k # i + 1 => to[k] = ps[k]
      /\ follow = "sc2" => to[i] = a2 /\ to[i + 1] = b2
      /\ follow = "bw" => to[i] = b2 /\ to[i + 1] = a2
  <2> DEFINE x == [ps[i] EXCEPT ![follow] = ps[i + 1][follow]]
             y == [ps[i + 1] EXCEPT ![follow] = ps[i][follow]]
  <2>1. to = [[ps EXCEPT ![i] = x] EXCEPT ![i + 1] = y]
    BY <1>2, <1>3 DEF Swapped
  <2>2. /\ ps[i] = [bw |-> ps[i].bw, sc2 |-> ps[i].sc2]
        /\ ps[i + 1] = [bw |-> ps[i + 1].bw, sc2 |-> ps[i + 1].sc2]
    BY <1>2, <1>4
  <2>3. /\ follow = "sc2" => x = a2 /\ y = b2
        /\ follow = "bw" => x = b2 /\ y = a2
    BY <2>2
  <2> HIDE DEF x, y, to, a2, b2
  <2>4. /\ DOMAIN to = 1..n /\ to[i] = x /\ to[i + 1] = y
        /\ \A k \in 1..n : k # i /\ k # i + 1 => to[k] = ps[k]
    BY <1>2, <1>3, <2>1
  <2> QED BY <2>3, <2>4
<1>7. ASSUME NEW k \in 1..n
      PROVE  /\ to[k] \in F
             /\ to[k].bw = IF follow = "bw" THEN ps[other(k)].bw ELSE ps[k].bw
             /\ to[k].sc2 = IF follow = "sc2" THEN ps[other(k)].sc2 ELSE ps[k].sc2
  <2>1. k # i /\ k # i + 1 => ps[k] \in F
    BY <1>4 DEF Fitting
  <2>2. /\ a2.bw = ps[i].bw /\ a2.sc2 = ps[i + 1].sc2
        /\ b2.bw = ps[i + 1].bw /\ b2.sc2 = ps[i].sc2
    OBVIOUS
  <2> HIDE DEF to, F, a2, b2
  <2>3. CASE k = i
    <3>1. to[k] \in F
      BY <1>5, <1>6, <2>3
    <3> QED BY <1>2, <1>6, <2>2, <2>3, <3>1
  <2>4. CASE k = i + 1
    <3>1. to[k] \in F
      BY <1>5, <1>6, <2>4
    <3> QED BY <1>2, <1>6, <2>2, <2>4, <3>1
  <2>5. CASE k # i /\ k # i + 1
    BY <1>2, <1>6, <2>1, <2>5
  <2> QED BY <2>3, <2>4, <2>5
<1> HIDE DEF F, to
<1>8. to = [k \in 1..n |-> to[k]] \/ DOMAIN to # 1..n
  BY DEF to, Swapped
<1>9. to \in Seq(F) /\ Len(to) = n
  BY <1>6, <1>7, <1>8
<1>10. ASSUME NEW j \in 1..n, NEW k \in 1..n, j # k
       PROVE  to[j].bw.who # to[k].bw.who /\ to[j].sc2.who # to[k].sc2.who
  <2>1. other(j) \in 1..n /\ other(k) \in 1..n /\ other(j) # other(k)
    BY <1>2, <1>10
  <2>2. ps[j].bw.who # ps[k].bw.who /\ ps[j].sc2.who # ps[k].sc2.who
    BY <1>1, <1>3, <1>10 DEF EachOnce
  <2>3. /\ ps[other(j)].bw.who # ps[other(k)].bw.who
        /\ ps[other(j)].sc2.who # ps[other(k)].sc2.who
    BY <1>1, <1>3, <2>1 DEF EachOnce
  <2> HIDE DEF other
  <2> QED BY <1>7, <2>2, <2>3
<1>11. to \in Pairing(A, B, n)
  BY <1>6, <1>9, <1>10 DEF Pairing, Pairings, EachOnce, F
<1>12. Exchanged(ps, to, i)
  <2> HIDE DEF a2, b2
  <2>1. (to[i] = a2 /\ to[i + 1] = b2) \/ (to[i] = b2 /\ to[i + 1] = a2)
    BY <1>6
  <2>2. \A k \in DOMAIN ps : k # i /\ k # i + 1 => to[k] = ps[k]
    BY <1>3, <1>6
  <2>3. Exchanged(ps, to, i) <=> /\ \A k \in DOMAIN ps : k # i /\ k # i + 1 => to[k] = ps[k]
                                 /\ (to[i] = a2 /\ to[i + 1] = b2) \/ (to[i] = b2 /\ to[i + 1] = a2)
    BY DEF Exchanged, a2, b2
  <2> QED BY <2>1, <2>2, <2>3
<1> QED BY <1>11, <1>12 DEF to

\* Pairings of the same players with no greater error.
Improving(A, B, base) ==
  {ps \in Pairing(A, B, Len(base)) :
     /\ ErrorOf(ps) \in Int /\ ErrorOf(ps) <= ErrorOf(base)
     /\ {ps[i].bw : i \in DOMAIN ps} = {base[i].bw : i \in DOMAIN base}
     /\ {ps[i].sc2 : i \in DOMAIN ps} = {base[i].sc2 : i \in DOMAIN base}}

LEMMA SwapImproves ==
  ASSUME RatingsTyped, NEW A, NEW B, A \subseteq Entry, B \subseteq Entry,
         NEW base \in Pairings(A, B), NEW ps \in Improving(A, B, base), NEW i \in 1..(Len(base) - 1),
         SwapHelps(ps[i], ps[i + 1]), NEW follow \in {"bw", "sc2"}
  PROVE  Swapped(ps, i, follow) \in Improving(A, B, base)
<1> DEFINE n == Len(base)
           F == Fitting(A, B)
           to == Swapped(ps, i, follow)
           a == [bw |-> ps[i].bw, sc2 |-> ps[i + 1].sc2]
           b == [bw |-> ps[i + 1].bw, sc2 |-> ps[i].sc2]
<1>1. n \in Nat /\ i \in 1..n /\ i + 1 \in 1..n /\ i \in 1..(n - 1)
  BY DEF Pairings
<1>2. /\ ps \in Pairing(A, B, n) /\ ErrorOf(ps) \in Int /\ ErrorOf(ps) <= ErrorOf(base)
      /\ ErrorOf(base) \in Int
  <2>1. \A pair \in F : Square(pair) \in Int
    BY SquareTyped DEF Fitting
  <2>2. base \in Seq(F)
    BY DEF Pairings
  <2> HIDE DEF F
  <2>3. \E h \in [0..n -> Int] : h[n] = ErrorOf(base)
    BY <1>1, <2>1, <2>2, ErrorRuns
  <2> QED BY <1>1, <2>3 DEF Improving
<1>3. to \in Pairing(A, B, n) /\ Exchanged(ps, to, i)
  BY <1>1, <1>2, SwappedOK
<1> HIDE DEF to, n
<1>4. /\ ps \in Seq(F) /\ Len(ps) = n /\ DOMAIN ps = 1..n
      /\ to \in Seq(F) /\ Len(to) = n /\ DOMAIN to = 1..n
  <2> HIDE DEF F
  <2>1. ps \in Seq(F) /\ Len(ps) = n /\ to \in Seq(F) /\ Len(to) = n
    BY <1>2, <1>3 DEF Pairing, Pairings, F
  <2> QED BY <2>1
<1>5. \A pair \in F : Square(pair) \in Int /\ pair = [bw |-> pair.bw, sc2 |-> pair.sc2]
  BY SquareTyped DEF Fitting
<1>6. ps[i] \in F /\ ps[i + 1] \in F /\ to[i] \in F /\ to[i + 1] \in F
  <2> HIDE DEF F
  <2> QED BY <1>1, <1>4
<1>7. /\ ps[i] = [bw |-> ps[i].bw, sc2 |-> ps[i].sc2]
      /\ ps[i + 1] = [bw |-> ps[i + 1].bw, sc2 |-> ps[i + 1].sc2]
  BY <1>5, <1>6
<1>8. [ps[i] EXCEPT !.sc2 = ps[i + 1].sc2] = a /\ [ps[i + 1] EXCEPT !.sc2 = ps[i].sc2] = b
  BY <1>7
<1>9. Square(a) + Square(b) < Square(ps[i]) + Square(ps[i + 1])
  BY <1>8 DEF SwapHelps, Square
<1>10. (to[i] = a /\ to[i + 1] = b) \/ (to[i] = b /\ to[i + 1] = a)
  BY <1>3 DEF Exchanged
<1>11. \A k \in 1..n : k # i /\ k # i + 1 => to[k] = ps[k]
  BY <1>3, <1>4 DEF Exchanged
<1>12. a.bw = ps[i].bw /\ a.sc2 = ps[i + 1].sc2 /\ b.bw = ps[i + 1].bw /\ b.sc2 = ps[i].sc2
  OBVIOUS
<1> HIDE DEF F, a, b
<1>13. Square(to[i]) + Square(to[i + 1]) < Square(ps[i]) + Square(ps[i + 1])
  <2>1. CASE to[i] = a /\ to[i + 1] = b
    BY <1>9, <2>1
  <2>2. CASE to[i] = b /\ to[i + 1] = a
    <3>1. Square(a) \in Int /\ Square(b) \in Int
      BY <1>5, <1>6, <2>2
    <3>2. Square(b) + Square(a) = Square(a) + Square(b)
      BY <3>1
    <3> QED BY <1>9, <2>2, <3>2
  <2> QED BY <1>10, <2>1, <2>2
<1>14. ErrorOf(to) < ErrorOf(ps) /\ ErrorOf(to) \in Int
  <2>1. \A pair \in F : Square(pair) \in Int
    BY <1>5
  <2>2. ErrorOf(to) < ErrorOf(ps)
    BY <1>1, <1>4, <1>11, <1>13, <2>1, ErrorLess
  <2>3. \E h \in [0..n -> Int] : h[n] = ErrorOf(to)
    BY <1>1, <1>4, <2>1, ErrorRuns
  <2> QED BY <1>1, <2>2, <2>3
<1>15. ErrorOf(to) <= ErrorOf(base)
  BY <1>2, <1>14
<1>16. /\ {to[k].bw : k \in 1..n} = {ps[k].bw : k \in 1..n}
       /\ {to[k].sc2 : k \in 1..n} = {ps[k].sc2 : k \in 1..n}
  <2> DEFINE other(k) == IF k = i THEN i + 1 ELSE IF k = i + 1 THEN i ELSE k
  <2>1. \A k \in 1..n : other(k) \in 1..n
    BY <1>1
  <2>2. ASSUME NEW k \in 1..n
        PROVE  /\ to[k].bw \in {ps[k].bw, ps[other(k)].bw} /\ to[k].sc2 \in {ps[k].sc2, ps[other(k)].sc2}
               /\ ps[k].bw \in {to[k].bw, to[other(k)].bw} /\ ps[k].sc2 \in {to[k].sc2, to[other(k)].sc2}
    <3>1. CASE k = i
      BY <1>1, <1>10, <1>12, <3>1
    <3>2. CASE k = i + 1
      BY <1>1, <1>10, <1>12, <3>2
    <3>3. CASE k # i /\ k # i + 1
      BY <1>11, <3>3
    <3> QED BY <3>1, <3>2, <3>3
  <2> HIDE DEF other
  <2>3. \A k \in 1..n : \E l \in 1..n : to[k].bw = ps[l].bw
    BY <2>1, <2>2
  <2>4. \A k \in 1..n : \E l \in 1..n : ps[k].bw = to[l].bw
    BY <2>1, <2>2
  <2>9. \A k \in 1..n : to[k].sc2 \in {ps[k].sc2, ps[other(k)].sc2}
    BY <2>2
  <2>10. \A k \in 1..n : ps[k].sc2 \in {to[k].sc2, to[other(k)].sc2}
    BY <2>2
  <2>5. \A k \in 1..n : \E l \in 1..n : to[k].sc2 = ps[l].sc2
    BY <2>1, <2>9
  <2>6. \A k \in 1..n : \E l \in 1..n : ps[k].sc2 = to[l].sc2
    BY <2>1, <2>10
  <2> HIDE DEF to
  <2>7. {to[k].bw : k \in 1..n} = {ps[k].bw : k \in 1..n}
    <3>1. {to[k].bw : k \in 1..n} \subseteq {ps[k].bw : k \in 1..n}
      BY <2>3
    <3>2. {ps[k].bw : k \in 1..n} \subseteq {to[k].bw : k \in 1..n}
      BY <2>4
    <3> QED BY <3>1, <3>2
  <2>8. {to[k].sc2 : k \in 1..n} = {ps[k].sc2 : k \in 1..n}
    <3>1. {to[k].sc2 : k \in 1..n} \subseteq {ps[k].sc2 : k \in 1..n}
      BY <2>5
    <3>2. {ps[k].sc2 : k \in 1..n} \subseteq {to[k].sc2 : k \in 1..n}
      BY <2>6
    <3> QED BY <3>1, <3>2
  <2> QED BY <2>7, <2>8
<1>17. /\ {ps[k].bw : k \in 1..n} = {base[k].bw : k \in DOMAIN base}
       /\ {ps[k].sc2 : k \in 1..n} = {base[k].sc2 : k \in DOMAIN base}
  BY <1>4 DEF Improving
<1> QED BY <1>3, <1>4, <1>14, <1>15, <1>16, <1>17 DEF Improving, n, to

LEMMA RefinedOnceOK ==
  ASSUME RatingsTyped, NEW A, NEW B, A \subseteq Entry, B \subseteq Entry,
         NEW base \in Pairings(A, B), Len(base) # 0,
         NEW pairs \in Improving(A, B, base), NEW follow \in {"bw", "sc2"}
  PROVE  RefinedOnce(pairs, follow) \in Improving(A, B, base)
<1> DEFINE m == Len(base) - 1
           V == Improving(A, B, base)
           s == [i \in 1..(Len(pairs) - 1) |-> i]
           next(ps, i) == IF SwapHelps(ps[s[i]], ps[s[i] + 1]) THEN Swapped(ps, s[i], follow) ELSE ps
           Solves(f) == f = [d \in SUBSET DOMAIN s |->
                               IF d = {} THEN pairs ELSE next(f[d \ {Max(d)}], Max(d))]
           iter == CHOOSE f : Solves(f)
<1>1. RefinedOnce(pairs, follow) = iter[DOMAIN s]
  BY DEF RefinedOnce, FoldLeft, MapThenFoldSet
<1>2. DOMAIN s = 1..m /\ m \in Nat /\ \A i \in 1..m : s[i] = i
  <2>1. Len(base) \in Nat /\ Len(pairs) = Len(base)
    BY DEF Pairings, Pairing, Improving
  <2> QED BY <2>1
<1> HIDE DEF s
<1>3. ASSUME NEW ps \in V, NEW i \in 1..m PROVE next(ps, i) \in V
  <2>1. s[i] = i
    BY <1>2
  <2>2. CASE SwapHelps(ps[i], ps[i + 1])
    <3>1. Swapped(ps, i, follow) \in V
      BY <2>2, SwapImproves
    <3> QED BY <2>1, <2>2, <3>1
  <2>3. CASE ~SwapHelps(ps[i], ps[i + 1])
    BY <2>1, <2>3
  <2> QED BY <2>2, <2>3
<1> HIDE DEF V, next, m
<1>4. pairs \in V
  BY DEF V
<1>5. \E f : Solves(f)
  <2> DEFINE step == [x \in V \X (1..m) |-> next(x[1], x[2])]
  <2>1. step \in [V \X (1..m) -> V]
    BY <1>3
  <2> HIDE DEF step
  <2>2. PICK f \in [SUBSET (1..m) -> V] : IsFold(f, m, pairs, step)
    BY <1>2, <1>4, <2>1, FoldExists
  <2>3. ASSUME NEW d \in SUBSET (1..m)
        PROVE  f[d] = IF d = {} THEN pairs ELSE next(f[d \ {Max(d)}], Max(d))
    <3> SUFFICES ASSUME d # {} PROVE f[d] = next(f[d \ {Max(d)}], Max(d))
      BY <2>2 DEF IsFold
    <3>1. Max(d) \in 1..m
      BY <1>2, MaxIn
    <3>2. f[d \ {Max(d)}] \in V
      BY <2>2
    <3>3. step[<<f[d \ {Max(d)}], Max(d)>>] = next(f[d \ {Max(d)}], Max(d))
      BY <3>1, <3>2 DEF step
    <3> QED BY <2>2, <3>3 DEF IsFold
  <2>4. f = [d \in SUBSET (1..m) |-> f[d]]
    BY <2>2
  <2>5. f = [d \in SUBSET (1..m) |-> IF d = {} THEN pairs ELSE next(f[d \ {Max(d)}], Max(d))]
    BY <2>3, <2>4
  <2> HIDE DEF next
  <2>6. SUBSET DOMAIN s = SUBSET (1..m)
    BY <1>2
  <2> QED BY <2>5, <2>6, Zenon
<1>6. Solves(iter)
  <2> HIDE DEF Solves
  <2> QED BY <1>5
<1> HIDE DEF iter
<1>7. iter[1..m] \in V
  <2>1. \A d \in SUBSET (1..m) :
          iter[d] = IF d = {} THEN pairs ELSE next(iter[d \ {Max(d)}], Max(d))
    BY <1>2, <1>6
  <2>2. iter[{}] \in V
    BY <1>4, <2>1
  <2>3. \A d \in SUBSET (1..m) :
          d # {} /\ Max(d) \in 1..m /\ iter[d \ {Max(d)}] \in V => iter[d] \in V
    BY <1>3, <2>1
  <2> HIDE DEF Solves
  <2> QED BY <1>2, <2>2, <2>3, FoldKeeps
<1> QED BY <1>1, <1>2, <1>7 DEF V

\* All passes together keep the players and do not add to the error.
LEMMA RefinedOK ==
  ASSUME RatingsTyped, NEW A, NEW B, A \subseteq Entry, B \subseteq Entry,
         NEW pairs \in Pairings(A, B), NEW follow \in {"bw", "sc2"}
  PROVE  Refined(pairs, follow) \in Improving(A, B, pairs)
<1> DEFINE n == Len(pairs)
           V == Improving(A, B, pairs)
           s == [i \in 1..RefinementPasses |-> i]
           next(ps, i) == RefinedOnce(ps, follow)
           Solves(f) == f = [d \in SUBSET DOMAIN s |->
                               IF d = {} THEN pairs ELSE next(f[d \ {Max(d)}], Max(d))]
           iter == CHOOSE f : Solves(f)
           m == RefinementPasses
<1>0. pairs \in V /\ n \in Nat
  <2>1. n \in Nat /\ pairs \in Seq(Fitting(A, B)) /\ pairs \in Pairing(A, B, n)
    BY DEF Pairing, Pairings
  <2>2. \A pair \in Fitting(A, B) : Square(pair) \in Int
    BY SquareTyped DEF Fitting
  <2>3. \E h \in [0..n -> Int] : h[n] = ErrorOf(pairs)
    BY <2>1, <2>2, ErrorRuns
  <2>4. ErrorOf(pairs) \in Int
    BY <2>1, <2>3
  <2> QED BY <2>1, <2>4 DEF Improving
<1> SUFFICES ASSUME ~(n < 2) PROVE Refined(pairs, follow) \in V
  BY <1>0 DEF Refined
<1>1. Refined(pairs, follow) = iter[DOMAIN s]
  BY DEF Refined, FoldLeft, MapThenFoldSet
<1>2. DOMAIN s = 1..m /\ m \in Nat
  BY DEF RefinementPasses
<1> HIDE DEF s, m
<1>3. ASSUME NEW ps \in V, NEW i \in 1..m PROVE next(ps, i) \in V
  BY <1>0, RefinedOnceOK
<1> HIDE DEF V, next
<1>5. \E f : Solves(f)
  <2> DEFINE step == [x \in V \X (1..m) |-> next(x[1], x[2])]
  <2>1. step \in [V \X (1..m) -> V]
    BY <1>3
  <2> HIDE DEF step
  <2>2. PICK f \in [SUBSET (1..m) -> V] : IsFold(f, m, pairs, step)
    BY <1>0, <1>2, <2>1, FoldExists
  <2>3. ASSUME NEW d \in SUBSET (1..m)
        PROVE  f[d] = IF d = {} THEN pairs ELSE next(f[d \ {Max(d)}], Max(d))
    <3> SUFFICES ASSUME d # {} PROVE f[d] = next(f[d \ {Max(d)}], Max(d))
      BY <2>2 DEF IsFold
    <3>1. Max(d) \in 1..m
      BY <1>2, MaxIn
    <3>2. f[d \ {Max(d)}] \in V
      BY <2>2
    <3>3. step[<<f[d \ {Max(d)}], Max(d)>>] = next(f[d \ {Max(d)}], Max(d))
      BY <3>1, <3>2 DEF step
    <3> QED BY <2>2, <3>3 DEF IsFold
  <2>4. f = [d \in SUBSET (1..m) |-> f[d]]
    BY <2>2
  <2>5. f = [d \in SUBSET (1..m) |-> IF d = {} THEN pairs ELSE next(f[d \ {Max(d)}], Max(d))]
    BY <2>3, <2>4
  <2> HIDE DEF next
  <2>6. SUBSET DOMAIN s = SUBSET (1..m)
    BY <1>2
  <2> QED BY <2>5, <2>6, Zenon
<1>6. Solves(iter)
  <2> HIDE DEF Solves
  <2> QED BY <1>5
<1> HIDE DEF iter
<1>7. iter[1..m] \in V
  <2>1. \A d \in SUBSET (1..m) :
          iter[d] = IF d = {} THEN pairs ELSE next(iter[d \ {Max(d)}], Max(d))
    BY <1>2, <1>6
  <2>2. iter[{}] \in V
    BY <1>0, <2>1
  <2>3. \A d \in SUBSET (1..m) :
          d # {} /\ Max(d) \in 1..m /\ iter[d \ {Max(d)}] \in V => iter[d] \in V
    BY <1>3, <2>1
  <2> HIDE DEF Solves
  <2> QED BY <1>2, <2>2, <2>3, FoldKeeps
<1> QED BY <1>1, <1>2, <1>7

\* What a wave plans is a pairing of two groups of queued players, nobody in both.
LEMMA PlanOK ==
  ASSUME RatingsTyped, NEW q \in Seq(Entry), Overlap(Equalized(q)) = {}
  PROVE  \E A, B \in SUBSET Entry :
           /\ \A e \in A : "bw" \in e.races
           /\ \A e \in B : "sc2" \in e.races
           /\ \A e \in A, f \in B : e.who # f.who
           /\ \A e \in A \cup B : \E i \in DOMAIN q : e = q[i]
           /\ Plan(q) \in Pairings(A, B)
<1> DEFINE E == {q[i] : i \in DOMAIN q}
           sides == Equalized(q)
           A == {sides.bw[i] : i \in DOMAIN sides.bw}
           B == {sides.sc2[i] : i \in DOMAIN sides.sc2}
           kept == Filtered(sides)
           bwLeads == Len(sides.bw) <= Len(sides.sc2)
           follow == IF bwLeads THEN "sc2" ELSE "bw"
           candidates == Candidates(kept, bwLeads)
<1>1. E \subseteq Entry /\ q \in Seq(E)
  OBVIOUS
<1>2. sides.bw \in Seq(SideOf(E, "bw")) /\ sides.sc2 \in Seq(SideOf(E, "sc2"))
  <2> HIDE DEF E
  <2> QED BY <1>1, EqualizedOK
<1>3. /\ A \subseteq SideOf(E, "bw") /\ B \subseteq SideOf(E, "sc2")
      /\ sides.bw \in Seq(A) /\ sides.sc2 \in Seq(B)
  <2> HIDE DEF E, sides
  <2> QED BY <1>2
<1>4. \A e \in A, f \in B : e.who # f.who
  <2>1. Overlap(sides) = {}
    OBVIOUS
  <2> HIDE DEF sides
  <2> QED BY <2>1 DEF Overlap, WhoOf
<1>5. /\ A \subseteq Entry /\ B \subseteq Entry
      /\ \A e \in A : "bw" \in e.races
      /\ \A e \in B : "sc2" \in e.races
      /\ \A e \in A \cup B : \E i \in DOMAIN q : e = q[i]
  <2> HIDE DEF A, B
  <2> QED BY <1>1, <1>3 DEF SideOf
<1> HIDE DEF A, B, E, sides
<1>6. kept.bw \in Seq(A) /\ kept.sc2 \in Seq(B)
  BY <1>3, <1>5, FilteredOK
<1>7. candidates \in Seq(Fitting(A, B))
  <2>1. bwLeads \in BOOLEAN
    OBVIOUS
  <2> HIDE DEF kept, bwLeads
  <2> QED BY <1>6, <2>1, CandidatesOK
<1>8. Selected(candidates) \in Pairings(A, B)
  <2> HIDE DEF candidates
  <2> QED BY <1>5, <1>7, SelectedOK
<1>9. Refined(Selected(candidates), follow) \in Pairings(A, B)
  <2>1. follow \in {"bw", "sc2"}
    OBVIOUS
  <2> HIDE DEF follow, candidates
  <2> QED BY <1>5, <1>8, <2>1, RefinedOK DEF Pairing, Improving
<1>10. Plan(q) = IF sides.bw = <<>> \/ sides.sc2 = <<>> THEN <<>>
                 ELSE Refined(Selected(candidates), follow)
  BY DEF Plan, sides
<1>11. <<>> \in Pairings(A, B)
  <2>1. <<>> \in Seq(Fitting(A, B)) /\ DOMAIN <<>> = {}
    OBVIOUS
  <2> QED BY <2>1 DEF Pairings, EachOnce
<1>12. Plan(q) \in Pairings(A, B)
  <2> HIDE DEF candidates, follow
  <2> QED BY <1>9, <1>10, <1>11
<1> QED BY <1>4, <1>5, <1>12

-----------------------------------------------------------------------------
(* How well a wave pairs                                                     *)

\* Whatever the queue, no two players who are kept and fit are both left out.
LEMMA OverlooksNothing ==
  ASSUME RatingsTyped, NEW q \in Seq(Entry)
  PROVE  NothingOverlooked(q)
<1> DEFINE sides == Equalized(q)
           kept == Filtered(sides)
           bwLeads == Len(sides.bw) <= Len(sides.sc2)
           follow == IF bwLeads THEN "sc2" ELSE "bw"
           candidates == Candidates(kept, bwLeads)
           first == Selected(candidates)
           plan == Plan(q)
           A == {sides.bw[i] : i \in DOMAIN sides.bw}
           B == {sides.sc2[i] : i \in DOMAIN sides.sc2}
<1>1. sides.bw \in Seq(A) /\ sides.sc2 \in Seq(B) /\ A \subseteq Entry /\ B \subseteq Entry
  <2>1. sides.bw \in Seq(SideOf(Entry, "bw")) /\ sides.sc2 \in Seq(SideOf(Entry, "sc2"))
    BY EqualizedOK
  <2> HIDE DEF sides
  <2> QED BY <2>1, SideFacts
<1>2. plan = IF sides.bw = <<>> \/ sides.sc2 = <<>> THEN <<>> ELSE Refined(first, follow)
  BY DEF Plan
<1>3. (A # {} => sides.bw # <<>>) /\ (B # {} => sides.sc2 # <<>>)
  OBVIOUS
<1> HIDE DEF sides, plan, A, B
<1>4. kept.bw \in Seq(A) /\ kept.sc2 \in Seq(B)
  BY <1>1, FilteredOK
<1>5. bwLeads \in BOOLEAN /\ follow \in {"bw", "sc2"}
  OBVIOUS
<1> HIDE DEF kept, bwLeads, follow
<1>6. candidates \in Seq(Fitting(A, B)) /\ Offers(candidates, kept)
  BY <1>4, <1>5, CandidatesOK
<1> HIDE DEF candidates
<1>7. first \in Pairings(A, B) /\ \A i \in DOMAIN candidates : ~IsFree(first, candidates[i])
  BY <1>1, <1>6, SelectedOK
<1> HIDE DEF first
<1>8. ASSUME NEW a \in DOMAIN kept.bw, NEW b \in DOMAIN kept.sc2,
             kept.bw[a].who # kept.sc2[b].who, InWindow([bw |-> kept.bw[a], sc2 |-> kept.sc2[b]])
      PROVE  \E pair \in Range(plan) : pair.bw.who = kept.bw[a].who \/ pair.sc2.who = kept.sc2[b].who
  <2> DEFINE e == kept.bw[a]
             f == kept.sc2[b]
             pair == [bw |-> e, sc2 |-> f]
  <2>1. PICK i \in DOMAIN candidates : candidates[i] = pair
    BY <1>6, <1>8 DEF Offers
  <2>2. PICK j \in DOMAIN first : first[j].bw.who = e.who \/ first[j].sc2.who = f.who
    BY <1>7, <2>1 DEF IsFree
  <2>3. e \in A /\ f \in B
    BY <1>4
  <2>4. plan = Refined(first, follow)
    BY <1>2, <1>3, <2>3
  <2>5. plan \in Improving(A, B, first)
    BY <1>1, <1>5, <1>7, <2>4, RefinedOK
  <2>6. /\ \E k \in DOMAIN plan : plan[k].bw = first[j].bw
        /\ \E k \in DOMAIN plan : plan[k].sc2 = first[j].sc2
    <3>1. /\ {plan[k].bw : k \in DOMAIN plan} = {first[k].bw : k \in DOMAIN first}
          /\ {plan[k].sc2 : k \in DOMAIN plan} = {first[k].sc2 : k \in DOMAIN first}
      BY <2>5 DEF Improving
    <3>2. /\ first[j].bw \in {plan[k].bw : k \in DOMAIN plan}
          /\ first[j].sc2 \in {plan[k].sc2 : k \in DOMAIN plan}
      BY <3>1
    <3> QED BY <3>2
  <2>7. \A k \in DOMAIN plan : plan[k] \in Range(plan)
    BY DEF Range
  <2> QED BY <2>2, <2>6, <2>7
<1>9. NothingOverlooked(q) <=>
        \A e \in Range(kept.bw), f \in Range(kept.sc2) :
          e.who # f.who /\ InWindow([bw |-> e, sc2 |-> f])
            => \E pair \in Range(plan) : pair.bw.who = e.who \/ pair.sc2.who = f.who
  BY DEF NothingOverlooked, kept, sides, plan
<1>10. ASSUME NEW e \in Range(kept.bw), NEW f \in Range(kept.sc2),
              e.who # f.who, InWindow([bw |-> e, sc2 |-> f])
       PROVE  \E pair \in Range(plan) : pair.bw.who = e.who \/ pair.sc2.who = f.who
  <2>1. PICK a \in DOMAIN kept.bw : e = kept.bw[a]
    BY DEF Range
  <2>2. PICK b \in DOMAIN kept.sc2 : f = kept.sc2[b]
    BY DEF Range
  <2> QED BY <1>8, <1>10, <2>1, <2>2
<1> QED BY <1>9, <1>10

LEMMA SidesOfRange ==
  ASSUME NEW s
  PROVE  /\ {pair.bw : pair \in Range(s)} = {s[i].bw : i \in DOMAIN s}
         /\ {pair.sc2 : pair \in Range(s)} = {s[i].sc2 : i \in DOMAIN s}
  BY DEF Range

\* Whatever the queue, the passes of swaps keep the players and the total error does not grow.
LEMMA RefinementIsHelp ==
  ASSUME RatingsTyped, NEW q \in Seq(Entry)
  PROVE  RefinementHelps(q)
<1> DEFINE kept == Filtered(Equalized(q))
           candidates == Candidates(kept, TRUE)
           first == Selected(candidates)
           refined == Refined(first, "sc2")
<1>1. Equalized(q).bw \in Seq(Entry) /\ Equalized(q).sc2 \in Seq(Entry)
  <2>1. /\ Equalized(q).bw \in Seq(SideOf(Entry, "bw"))
        /\ Equalized(q).sc2 \in Seq(SideOf(Entry, "sc2"))
    BY EqualizedOK
  <2> QED BY <2>1, SideFacts, SeqMonotonic
<1>2. kept.bw \in Seq(Entry) /\ kept.sc2 \in Seq(Entry)
  BY <1>1, FilteredOK
<1> HIDE DEF kept
<1>3. candidates \in Seq(Fitting(Entry, Entry))
  BY <1>2, CandidatesOK
<1> HIDE DEF candidates
<1>4. first \in Pairings(Entry, Entry)
  BY <1>3, SelectedOK
<1> HIDE DEF first
<1>5. refined \in Improving(Entry, Entry, first)
  BY <1>4, RefinedOK
<1> HIDE DEF refined
<1>6. /\ ErrorOf(refined) <= ErrorOf(first)
      /\ {refined[i].bw : i \in DOMAIN refined} = {first[i].bw : i \in DOMAIN first}
      /\ {refined[i].sc2 : i \in DOMAIN refined} = {first[i].sc2 : i \in DOMAIN first}
  BY <1>5 DEF Improving
<1>7. \A side \in {"bw", "sc2"} :
        {pair[side] : pair \in Range(refined)} = {pair[side] : pair \in Range(first)}
  <2>3. {refined[i].bw : i \in DOMAIN refined} = {first[i].bw : i \in DOMAIN first}
    BY <1>6
  <2>4. {refined[i].sc2 : i \in DOMAIN refined} = {first[i].sc2 : i \in DOMAIN first}
    BY <1>6
  <2>1. {pair.bw : pair \in Range(refined)} = {pair.bw : pair \in Range(first)}
    BY <2>3, SidesOfRange
  <2>2. {pair.sc2 : pair \in Range(refined)} = {pair.sc2 : pair \in Range(first)}
    BY <2>4, SidesOfRange
  <2> QED BY <2>1, <2>2
<1>8. RefinementHelps(q) <=>
        /\ ErrorOf(refined) <= ErrorOf(first)
        /\ \A side \in {"bw", "sc2"} :
             {pair[side] : pair \in Range(refined)} = {pair[side] : pair \in Range(first)}
  BY DEF RefinementHelps, ErrorOf, refined, first, candidates, kept
<1> QED BY <1>6, <1>7, <1>8

\* What a part of a sequence has in it.
LEMMA PartRange ==
  ASSUME NEW T, NEW s \in Seq(T), NEW a \in 1..(Len(s) + 1), NEW b \in 0..Len(s), a <= b + 1
  PROVE  /\ Len(SubSeq(s, a, b)) = b - a + 1 /\ DOMAIN SubSeq(s, a, b) = 1..(b - a + 1)
         /\ Range(SubSeq(s, a, b)) = {s[i] : i \in a..b}
<1> DEFINE r == SubSeq(s, a, b)
<1>1. \A i \in a..b : s[i] \in T
  OBVIOUS
<1>2. r \in Seq(T) /\ Len(r) = b - a + 1 /\ \A i \in 1..(b - a + 1) : r[i] = s[a + i - 1]
  BY <1>1, SubSeqProperties
<1> HIDE DEF r
<1>3. DOMAIN r = 1..(b - a + 1)
  BY <1>2
<1>4. \A i \in 1..(b - a + 1) : a + i - 1 \in a..b
  OBVIOUS
<1>5. \A i \in a..b : i - a + 1 \in 1..(b - a + 1) /\ a + (i - a + 1) - 1 = i
  OBVIOUS
<1>6. \A i \in a..b : \E k \in DOMAIN r : r[k] = s[i]
  BY <1>2, <1>3, <1>5
<1>7. \A k \in DOMAIN r : \E i \in a..b : r[k] = s[i]
  BY <1>2, <1>3, <1>4
<1>8. Range(r) = {s[i] : i \in a..b}
  BY <1>6, <1>7 DEF Range
<1> QED BY <1>2, <1>3, <1>8 DEF r

\* What parts of a sequence, and two in a row, have in them.
LEMMA PartsRange ==
  ASSUME NEW T, NEW s \in Seq(T), NEW n \in 0..Len(s), NEW m \in 0..n
  PROVE  /\ Range(SubSeq(s, m + 1, n)) = {s[i] : i \in (m + 1)..n}
         /\ Range(FirstOf(s, n)) = {s[i] : i \in 1..n}
         /\ Range(LastOf(s, n)) = {s[i] : i \in (Len(s) - n + 1)..Len(s)}
<1>1. Len(s) \in Nat /\ DOMAIN s = 1..Len(s) /\ \A i \in 1..Len(s) : s[i] \in T
  OBVIOUS
<1>3. Range(SubSeq(s, m + 1, n)) = {s[i] : i \in (m + 1)..n}
  <2>1. m + 1 \in 1..(Len(s) + 1) /\ m + 1 <= n + 1
    BY <1>1
  <2> QED BY <2>1, PartRange
<1>4. Range(FirstOf(s, n)) = {s[i] : i \in 1..n}
  <2>1. 1 \in 1..(Len(s) + 1) /\ 1 <= n + 1
    BY <1>1
  <2> QED BY <2>1, PartRange DEF FirstOf
<1>5. Range(LastOf(s, n)) = {s[i] : i \in (Len(s) - n + 1)..Len(s)}
  <2> DEFINE a == Len(s) - n + 1
             r == SubSeq(s, a, Len(s))
  <2>1. a \in 1..(Len(s) + 1) /\ Len(s) - a + 1 = n /\ n \in Nat
    BY <1>1
  <2>2. Len(r) = n /\ DOMAIN r = 1..n /\ Range(r) = {s[i] : i \in a..Len(s)}
    <3> HIDE DEF a
    <3>1. a <= Len(s) + 1 /\ Len(s) \in 0..Len(s)
      BY <1>1, <2>1
    <3> QED BY <2>1, <3>1, PartRange
  <2>3. LastOf(s, n) = [i \in 1..Len(r) |-> r[(Len(r) - i) + 1]]
    BY DEF LastOf, Reverse
  <2> HIDE DEF r, a
  <2>4. \A i \in 1..n : (n - i) + 1 \in 1..n /\ (n - ((n - i) + 1)) + 1 = i
    BY <2>1
  <2>5. DOMAIN LastOf(s, n) = 1..n /\ \A i \in 1..n : LastOf(s, n)[i] = r[(n - i) + 1]
    BY <2>2, <2>3
  <2>6. Range(LastOf(s, n)) = Range(r)
    BY <2>2, <2>4, <2>5 DEF Range
  <2> QED BY <2>2, <2>6 DEF a
<1> QED BY <1>3, <1>4, <1>5

\* One sequence after the other.
Joined(s, t) == s \o t

LEMMA ConcatRange ==
  ASSUME NEW T, NEW s \in Seq(T), NEW t \in Seq(T)
  PROVE  /\ Joined(s, t) \in Seq(T) /\ Len(Joined(s, t)) = Len(s) + Len(t)
         /\ Range(Joined(s, t)) = Range(s) \cup Range(t)
<1> DEFINE c == s \o t
<1>1. /\ Len(s) \in Nat /\ Len(t) \in Nat /\ DOMAIN s = 1..Len(s) /\ DOMAIN t = 1..Len(t)
      /\ c \in Seq(T) /\ Len(c) = Len(s) + Len(t) /\ DOMAIN c = 1..(Len(s) + Len(t))
      /\ \A i \in 1..(Len(s) + Len(t)) : c[i] = IF i <= Len(s) THEN s[i] ELSE t[i - Len(s)]
  <2>1. c \in Seq(T) /\ Len(c) = Len(s) + Len(t)
        /\ \A i \in 1..(Len(s) + Len(t)) : c[i] = IF i <= Len(s) THEN s[i] ELSE t[i - Len(s)]
    BY ConcatProperties
  <2> HIDE DEF c
  <2> QED BY <2>1
<1> HIDE DEF c
<1>2. \A i \in DOMAIN c : c[i] \in Range(s) \cup Range(t)
  <2>1. \A i \in DOMAIN c : i \in DOMAIN s \/ (i - Len(s) \in DOMAIN t /\ ~(i <= Len(s)))
    BY <1>1
  <2>2. \A i \in DOMAIN s : i <= Len(s)
    BY <1>1
  <2> QED BY <1>1, <2>1, <2>2 DEF Range
<1>3. \A i \in DOMAIN s : \E k \in DOMAIN c : c[k] = s[i]
  <2>1. \A i \in DOMAIN s : i \in DOMAIN c /\ i <= Len(s)
    BY <1>1
  <2> QED BY <1>1, <2>1
<1>4. \A i \in DOMAIN t : \E k \in DOMAIN c : c[k] = t[i]
  <2>1. \A i \in DOMAIN t : /\ i + Len(s) \in DOMAIN c /\ ~(i + Len(s) <= Len(s))
                            /\ (i + Len(s)) - Len(s) = i
    BY <1>1
  <2> QED BY <1>1, <2>1
<1>5. Range(c) = Range(s) \cup Range(t)
  BY <1>2, <1>3, <1>4 DEF Range
<1> QED BY <1>1, <1>5 DEF c, Joined

LEMMA ThreeRange ==
  ASSUME NEW T, NEW s \in Seq(T), NEW t \in Seq(T), NEW u \in Seq(T)
  PROVE  LET d == Joined(Joined(s, t), u)
         IN  /\ d \in Seq(T) /\ Len(d) = Len(s) + Len(t) + Len(u)
             /\ Range(d) = Range(s) \cup Range(t) \cup Range(u)
<1> DEFINE c == Joined(s, t)
<1>1. c \in Seq(T) /\ Len(c) = Len(s) + Len(t) /\ Range(c) = Range(s) \cup Range(t)
  BY ConcatRange
<1> HIDE DEF c
<1>2. c \in Seq(T)
  BY <1>1
<1>3. /\ Joined(c, u) \in Seq(T) /\ Len(Joined(c, u)) = Len(c) + Len(u)
      /\ Range(Joined(c, u)) = Range(c) \cup Range(u)
  BY <1>2, ConcatRange
<1>4. Len(s) \in Nat /\ Len(t) \in Nat /\ Len(u) \in Nat
  OBVIOUS
<1>5. /\ Joined(c, u) \in Seq(T) /\ Len(Joined(c, u)) = Len(s) + Len(t) + Len(u)
      /\ Range(Joined(c, u)) = Range(s) \cup Range(t) \cup Range(u)
  BY <1>1, <1>3, <1>4
<1> QED BY <1>5 DEF c

\* What is filtered and sorted has what passed, once each.
LEMMA SortedRange ==
  ASSUME NEW T, NEW s \in Seq(T), NEW key, \A i \in DOMAIN s : key[i] \in Int
  PROVE  LET o == InOrder(s, DOMAIN s, key)
         IN  o \in Seq(T) /\ Range(o) = Range(s) /\ Len(o) = Len(s)
<1> DEFINE o == InOrder(s, DOMAIN s, key)
<1>1. o \in Seq(T) /\ Len(o) = Len(s)
  BY SortKeeps
<1>2. HasEntries(o, T, s, DOMAIN s)
  BY InOrderEntries
<1> HIDE DEF o
<1>3. Range(o) = Range(s)
  BY <1>2 DEF HasEntries, Range
<1> QED BY <1>1, <1>3 DEF o

LEMMA KeptRange ==
  ASSUME NEW T, NEW s \in Seq(T), NEW at \in SUBSET DOMAIN s
  PROVE  LET x == InOrder(s, at, [i \in DOMAIN s |-> i])
         IN  x \in Seq(T) /\ Range(x) = {s[i] : i \in at} /\ Len(x) = Cardinality(at)
<1> DEFINE key == [i \in DOMAIN s |-> i]
           x == InOrder(s, at, key)
<1>1. \A i \in at : key[i] \in Int
  OBVIOUS
<1> HIDE DEF key
<1>2. HasEntries(x, T, s, at)
  BY <1>1, InOrderEntries
<1> HIDE DEF x
<1>3. x \in Seq(T) /\ Len(x) = Cardinality(at)
  BY <1>2 DEF HasEntries
<1>4. Range(x) = {s[i] : i \in at}
  BY <1>2 DEF HasEntries, Range
<1> QED BY <1>3, <1>4 DEF x, key

LEMMA DisjointSizes ==
  ASSUME NEW S, NEW T, IsFiniteSet(S), IsFiniteSet(T), S \cap T = {}
  PROVE  IsFiniteSet(S \cup T) /\ Cardinality(S \cup T) = Cardinality(S) + Cardinality(T)
<1>1. Cardinality(S) \in Nat /\ Cardinality(T) \in Nat /\ Cardinality({}) = 0
  BY FS_CardinalityType, FS_EmptySet
<1>2. /\ IsFiniteSet(S \cup T)
      /\ Cardinality(S \cup T) = Cardinality(S) + Cardinality(T) - Cardinality(S \cap T)
  BY FS_Union
<1>3. Cardinality(S \cap T) = 0
  BY <1>1
<1> QED BY <1>1, <1>2, <1>3

\* The three pools of a queue have everybody in it, once.
LEMMA PoolsSpread ==
  ASSUME RatingsTyped, NEW q \in Seq(Entry)
  PROVE  /\ BwOnly(q) \in Seq(Entry) /\ Sc2Only(q) \in Seq(Entry) /\ BothRaces(q) \in Seq(Entry)
         /\ Range(BwOnly(q)) \cup Range(Sc2Only(q)) \cup Range(BothRaces(q)) = Range(q)
         /\ Len(BwOnly(q)) + Len(Sc2Only(q)) + Len(BothRaces(q)) = Len(q)
<1> DEFINE at(races) == {i \in DOMAIN q : q[i].races = races}
           X(races) == InOrder(q, at(races), [i \in DOMAIN q |-> i])
           P == {"bw"}
           Q == {"sc2"}
           R == {"bw", "sc2"}
<1>1. DOMAIN q = 1..Len(q) /\ Len(q) \in Nat /\ \A i \in DOMAIN q : q[i] \in Entry
  OBVIOUS
<1>2. ASSUME NEW races
      PROVE  /\ X(races) \in Seq(Entry) /\ Range(X(races)) = {q[i] : i \in at(races)}
             /\ Len(X(races)) = Cardinality(at(races))
  <2>1. at(races) \in SUBSET DOMAIN q
    OBVIOUS
  <2> HIDE DEF at
  <2> QED BY <2>1, KeptRange
<1>3. /\ BwOnly(q) \in Seq(Entry) /\ Range(BwOnly(q)) = Range(X(P))
      /\ Len(BwOnly(q)) = Len(X(P))
  <2> DEFINE x == X(P)
             key == [i \in DOMAIN x |-> -Bw(x[i])]
  <2>1. BwOnly(q) = InOrder(x, DOMAIN x, key)
    BY DEF BwOnly, SortedBy, Kept
  <2>2. x \in Seq(Entry)
    BY <1>2
  <2> HIDE DEF x
  <2>3. \A i \in DOMAIN x : x[i] \in Entry
    BY <2>2
  <2>4. \A i \in DOMAIN x : key[i] \in Int
    BY <2>3, EntryFacts
  <2> HIDE DEF key
  <2>5. BwOnly(q) \in Seq(Entry) /\ Range(BwOnly(q)) = Range(x) /\ Len(BwOnly(q)) = Len(x)
    BY <2>1, <2>2, <2>4, SortedRange
  <2> QED BY <2>5 DEF x
<1>4. /\ Sc2Only(q) \in Seq(Entry) /\ Range(Sc2Only(q)) = Range(X(Q))
      /\ Len(Sc2Only(q)) = Len(X(Q))
  <2> DEFINE x == X(Q)
             key == [i \in DOMAIN x |-> -Sc2(x[i])]
  <2>1. Sc2Only(q) = InOrder(x, DOMAIN x, key)
    BY DEF Sc2Only, SortedBy, Kept
  <2>2. x \in Seq(Entry)
    BY <1>2
  <2> HIDE DEF x
  <2>3. \A i \in DOMAIN x : x[i] \in Entry
    BY <2>2
  <2>4. \A i \in DOMAIN x : key[i] \in Int
    BY <2>3, EntryFacts
  <2> HIDE DEF key
  <2>5. Sc2Only(q) \in Seq(Entry) /\ Range(Sc2Only(q)) = Range(x) /\ Len(Sc2Only(q)) = Len(x)
    BY <2>1, <2>2, <2>4, SortedRange
  <2> QED BY <2>5 DEF x
<1>5. /\ BothRaces(q) \in Seq(Entry) /\ Range(BothRaces(q)) = Range(X(R))
      /\ Len(BothRaces(q)) = Len(X(R))
  <2> DEFINE x == X(R)
             key == [i \in DOMAIN x |-> -Max({Bw(x[i]), Sc2(x[i])})]
  <2>1. BothRaces(q) = InOrder(x, DOMAIN x, key)
    BY DEF BothRaces, SortedBy, Kept, IsBoth
  <2>2. x \in Seq(Entry)
    BY <1>2
  <2> HIDE DEF x
  <2>3. \A i \in DOMAIN x : x[i] \in Entry
    BY <2>2
  <2>4. ASSUME NEW i \in DOMAIN x PROVE key[i] \in Int
    <3>1. Bw(x[i]) \in Int /\ Sc2(x[i]) \in Int
      BY <2>3, EntryFacts
    <3>2. Max({Bw(x[i]), Sc2(x[i])}) \in Int
      BY <3>1, MaxOfTwo
    <3>3. key[i] = -Max({Bw(x[i]), Sc2(x[i])})
      OBVIOUS
    <3> HIDE DEF key
    <3> QED BY <3>2, <3>3
  <2> HIDE DEF key
  <2>5. BothRaces(q) \in Seq(Entry) /\ Range(BothRaces(q)) = Range(x) /\ Len(BothRaces(q)) = Len(x)
    BY <2>1, <2>2, <2>4, SortedRange
  <2> QED BY <2>5 DEF x
<1>6. /\ at(P) \cup at(Q) \cup at(R) = DOMAIN q
      /\ at(P) \cap at(Q) = {} /\ (at(P) \cup at(Q)) \cap at(R) = {}
  <2>1. \A r \in Selection : r = P \/ r = Q \/ r = R
    BY DEF Selection
  <2>2. P # Q /\ P # R /\ Q # R
    <3>1. "bw" \in P /\ "bw" \notin Q /\ "sc2" \notin P /\ "sc2" \in Q /\ "bw" \in R /\ "sc2" \in R
      OBVIOUS
    <3> HIDE DEF P, Q, R
    <3> QED BY <3>1
  <2>3. \A i \in DOMAIN q : q[i].races \in Selection
    BY <1>1 DEF Entry
  <2> HIDE DEF P, Q, R
  <2> QED BY <2>1, <2>2, <2>3
<1> HIDE DEF P, Q, R
<1>7. Cardinality(at(P)) + Cardinality(at(Q)) + Cardinality(at(R)) = Len(q)
  <2>1. IsFiniteSet(DOMAIN q) /\ Cardinality(DOMAIN q) = Len(q)
    BY <1>1, FS_Interval
  <2>2. IsFiniteSet(at(P)) /\ IsFiniteSet(at(Q)) /\ IsFiniteSet(at(R))
    BY <2>1, FS_Subset
  <2> HIDE DEF at
  <2>4. /\ IsFiniteSet(at(P) \cup at(Q))
        /\ Cardinality(at(P) \cup at(Q)) = Cardinality(at(P)) + Cardinality(at(Q))
    BY <1>6, <2>2, DisjointSizes
  <2>5. Cardinality(at(P) \cup at(Q) \cup at(R)) = Cardinality(at(P) \cup at(Q)) + Cardinality(at(R))
    BY <1>6, <2>2, <2>4, DisjointSizes
  <2> QED BY <1>6, <2>1, <2>4, <2>5
<1>8. Range(X(P)) \cup Range(X(Q)) \cup Range(X(R)) = Range(q)
  <2>1. /\ Range(X(P)) = {q[i] : i \in at(P)} /\ Range(X(Q)) = {q[i] : i \in at(Q)}
        /\ Range(X(R)) = {q[i] : i \in at(R)}
    BY <1>2
  <2> HIDE DEF X, at
  <2> QED BY <1>6, <2>1 DEF Range
<1> HIDE DEF X, at
<1> QED BY <1>2, <1>3, <1>4, <1>5, <1>7, <1>8

\* How unequal the sides are in number.
Gap(sides) == AbsOf(Len(sides.bw) - Len(sides.sc2))

\* Everybody is dealt to one side, and the gap is closed as far as it can be.
LEMMA DealtSpread ==
  ASSUME RatingsTyped, NEW x \in Seq(Entry), NEW y \in Seq(Entry), NEW z \in Seq(Entry)
  PROVE  LET d == Dealt(x, y, z)
             forced == AbsOf(Len(x) - Len(y)) - Len(z)
         IN  /\ d.bw \in Seq(Entry) /\ d.sc2 \in Seq(Entry)
             /\ Range(d.bw) \cup Range(d.sc2) = Range(x) \cup Range(y) \cup Range(z)
             /\ Len(d.bw) + Len(d.sc2) = Len(x) + Len(y) + Len(z)
             /\ Gap(d) <= 1 \/ Gap(d) <= forced
<1> DEFINE b == SortedBy(z, Bias)
           n == Len(z)
           toBw == AtMost(Max({Len(y) - Len(x), 0}), n)
           toSc2 == AtMost(Max({Len(x) - Len(y), 0}), n)
           rest == SubSeq(b, toSc2 + 1, n - toBw)
           half == Len(rest) \div 2
           forced == AbsOf(Len(x) - Len(y)) - Len(z)
           d == Dealt(x, y, z)
<1>1. n \in Nat /\ Len(x) \in Nat /\ Len(y) \in Nat
  OBVIOUS
<1>2. b \in Seq(Entry) /\ Len(b) = n /\ Range(b) = Range(z) /\ Range(b) = {b[i] : i \in 1..n}
  <2> DEFINE key == [i \in DOMAIN z |-> Bias(z[i])]
  <2>1. b = InOrder(z, DOMAIN z, key)
    BY DEF SortedBy
  <2>3. \A i \in DOMAIN z : z[i] \in Entry
    OBVIOUS
  <2>2. \A i \in DOMAIN z : key[i] \in Int
    BY <2>3, EntryFacts
  <2> HIDE DEF key, b
  <2>4. b \in Seq(Entry) /\ Len(b) = n /\ Range(b) = Range(z)
    BY <2>1, <2>2, SortedRange
  <2>5. DOMAIN b = 1..n
    BY <2>4
  <2> HIDE DEF n
  <2>6. Range(b) = {b[i] : i \in 1..n}
    BY <2>5 DEF Range
  <2> QED BY <2>4, <2>6
<1>3. /\ toBw \in 0..n /\ toSc2 \in 0..n
      /\ Len(x) >= Len(y) => toBw = 0 /\ toSc2 = AtMost(Len(x) - Len(y), n)
      /\ Len(x) <= Len(y) => toSc2 = 0 /\ toBw = AtMost(Len(y) - Len(x), n)
  <2>1. ASSUME NEW k \in Int PROVE Max({k, 0}) = IF k >= 0 THEN k ELSE 0
    <3>1. 0 \in Int
      OBVIOUS
    <3>2. Max({k, 0}) \in {k, 0} /\ Max({k, 0}) >= k /\ Max({k, 0}) >= 0
      BY <3>1, MaxOfTwo
    <3> QED BY <3>2
  <2>2. Len(y) - Len(x) \in Int /\ Len(x) - Len(y) \in Int
    BY <1>1
  <2>3. /\ Max({Len(y) - Len(x), 0}) = IF Len(y) >= Len(x) THEN Len(y) - Len(x) ELSE 0
        /\ Max({Len(x) - Len(y), 0}) = IF Len(x) >= Len(y) THEN Len(x) - Len(y) ELSE 0
    BY <1>1, <2>1, <2>2
  <2> QED BY <1>1, <2>3 DEF AtMost
<1> HIDE DEF b, toBw, toSc2
<1>4. toSc2 <= n - toBw /\ n - toBw \in 0..n /\ toSc2 \in 0..(n - toBw)
  BY <1>1, <1>3 DEF AtMost
<1>5. /\ rest \in Seq(Entry) /\ Len(rest) = n - toBw - toSc2 /\ Len(rest) \in Nat
      /\ Range(rest) = {b[i] : i \in (toSc2 + 1)..(n - toBw)}
  <2>1. n - toBw \in 0..Len(b) /\ toSc2 \in 0..Len(b)
    BY <1>1, <1>2, <1>3, <1>4
  <2>2. rest \in Seq(Entry) /\ Len(rest) = (n - toBw) - toSc2
    BY <1>2, <1>4, <2>1, PartsOK
  <2>3. Range(rest) = {b[i] : i \in (toSc2 + 1)..(n - toBw)}
    BY <1>2, <1>4, <2>1, PartsRange
  <2> HIDE DEF rest
  <2>4. Len(rest) = n - toBw - toSc2 /\ Len(rest) \in Nat
    BY <1>1, <1>3, <1>4, <2>2
  <2> QED BY <2>2, <2>3, <2>4
<1>6. /\ LastOf(b, toBw) \in Seq(Entry) /\ Len(LastOf(b, toBw)) = toBw
      /\ FirstOf(b, toSc2) \in Seq(Entry) /\ Len(FirstOf(b, toSc2)) = toSc2
      /\ Range(LastOf(b, toBw)) = {b[i] : i \in (n - toBw + 1)..n}
      /\ Range(FirstOf(b, toSc2)) = {b[i] : i \in 1..toSc2}
  <2>1. toBw \in 0..Len(b) /\ toSc2 \in 0..Len(b) /\ 0 \in 0..toBw /\ 0 \in 0..toSc2 /\ 0 \in 0..Len(b)
    BY <1>1, <1>2, <1>3
  <2>2. /\ LastOf(b, toBw) \in Seq(Entry) /\ Len(LastOf(b, toBw)) = toBw
        /\ FirstOf(b, toSc2) \in Seq(Entry) /\ Len(FirstOf(b, toSc2)) = toSc2
    BY <1>2, <2>1, PartsOK
  <2>3. Range(LastOf(b, toBw)) = {b[i] : i \in (n - toBw + 1)..n}
    BY <1>2, <2>1, PartsRange
  <2>4. Range(FirstOf(b, toSc2)) = {b[i] : i \in 1..toSc2}
    BY <1>2, <2>1, PartsRange
  <2> QED BY <2>2, <2>3, <2>4
<1>7. half \in Nat /\ half + half <= Len(rest) /\ Len(rest) <= half + half + 1
  <2>1. \A k \in Nat : k \div 2 \in Nat /\ k \div 2 + k \div 2 <= k /\ k <= k \div 2 + k \div 2 + 1
    OBVIOUS
  <2> HIDE DEF rest
  <2> QED BY <1>5, <2>1
<1> HIDE DEF rest, half
<1>8. /\ LastOf(rest, half) \in Seq(Entry) /\ Len(LastOf(rest, half)) = half
      /\ FirstOf(rest, Len(rest) - half) \in Seq(Entry)
      /\ Len(FirstOf(rest, Len(rest) - half)) = Len(rest) - half
      /\ Range(LastOf(rest, half)) \cup Range(FirstOf(rest, Len(rest) - half)) = Range(rest)
  <2> DEFINE l == Len(rest)
             k == l - half
  <2>0. l \in Nat /\ half \in 0..l /\ k \in 0..l /\ 0 \in 0..l /\ 0 \in 0..half /\ 0 \in 0..k
        /\ l - half + 1 = k + 1
    BY <1>5, <1>7
  <2>1. /\ LastOf(rest, half) \in Seq(Entry) /\ Len(LastOf(rest, half)) = half
        /\ FirstOf(rest, k) \in Seq(Entry) /\ Len(FirstOf(rest, k)) = k
    BY <1>5, <2>0, PartsOK
  <2>2. Range(LastOf(rest, half)) = {rest[i] : i \in (l - half + 1)..l}
    BY <1>5, <2>0, PartsRange
  <2>3. Range(FirstOf(rest, k)) = {rest[i] : i \in 1..k}
    BY <1>5, <2>0, PartsRange
  <2>7. rest \in Seq(Entry)
    BY <1>5
  <2>8. DOMAIN rest = 1..l
    BY <2>7
  <2>4. Range(rest) = {rest[i] : i \in 1..l}
    BY <2>8 DEF Range
  <2> HIDE DEF l, k
  <2>5. 1..l = (1..k) \cup ((k + 1)..l)
    BY <2>0
  <2>6. Range(LastOf(rest, half)) \cup Range(FirstOf(rest, k)) = Range(rest)
    BY <2>0, <2>2, <2>3, <2>4, <2>5
  <2> QED BY <2>1, <2>6 DEF l, k
<1>9. Range(b) = Range(FirstOf(b, toSc2)) \cup Range(rest) \cup Range(LastOf(b, toBw))
  <2>1. 1..n = (1..toSc2) \cup ((toSc2 + 1)..(n - toBw)) \cup ((n - toBw + 1)..n)
    BY <1>1, <1>3, <1>4
  <2>2. Range(b) = {b[i] : i \in 1..n}
    BY <1>2
  <2> QED BY <1>5, <1>6, <2>1, <2>2
<1> HIDE DEF n
<1>10. Dealt(x, y, z) =
        IF x = <<>> /\ y = <<>>
        THEN [bw |-> SubSeq(b, (n \div 2) + 1, n), sc2 |-> FirstOf(b, n \div 2)]
        ELSE [bw |-> x \o LastOf(b, toBw) \o LastOf(rest, half),
              sc2 |-> y \o FirstOf(b, toSc2) \o FirstOf(rest, Len(rest) - half)]
  BY DEF Dealt, b, n, toBw, toSc2, rest, half
<1> HIDE DEF forced, d
<1> DEFINE Goal == /\ d.bw \in Seq(Entry) /\ d.sc2 \in Seq(Entry)
                   /\ Range(d.bw) \cup Range(d.sc2) = Range(x) \cup Range(y) \cup Range(z)
                   /\ Len(d.bw) + Len(d.sc2) = Len(x) + Len(y) + Len(z)
                   /\ Gap(d) <= 1 \/ Gap(d) <= forced
<1>11. ASSUME x = <<>> /\ y = <<>> PROVE Goal
  <2> DEFINE k == n \div 2
             low == FirstOf(b, k)
             high == SubSeq(b, k + 1, n)
  <2>1. k \in 0..n /\ k + k <= n /\ n <= k + k + 1 /\ 0 \in 0..k
    <3>1. \A l \in Nat : l \div 2 \in Nat /\ l \div 2 + l \div 2 <= l /\ l <= l \div 2 + l \div 2 + 1
      OBVIOUS
    <3> QED BY <1>1, <3>1
  <2> HIDE DEF k
  <2>2. k \in 0..Len(b) /\ n \in 0..Len(b) /\ k \in 0..n /\ 0 \in 0..Len(b)
    BY <1>1, <1>2, <2>1
  <2>3. /\ low \in Seq(Entry) /\ Len(low) = k
        /\ high \in Seq(Entry) /\ Len(high) = n - k
    <3>1. low \in Seq(Entry) /\ Len(low) = k
      BY <1>2, <2>2, PartsOK
    <3>2. high \in Seq(Entry) /\ Len(high) = IF k <= n THEN n - k ELSE 0
      BY <1>2, <2>2, PartsOK
    <3> QED BY <2>1, <3>1, <3>2
  <2>4. Range(high) = {b[i] : i \in (k + 1)..n}
    BY <1>2, <2>2, PartsRange
  <2>5. Range(low) = {b[i] : i \in 1..k}
    <3>1. b \in Seq(Entry) /\ k \in 0..Len(b) /\ 0 \in 0..k
      BY <1>2, <2>1, <2>2
    <3> QED BY <3>1, PartsRange
  <2>6. Range(b) = {b[i] : i \in 1..n}
    BY <1>2
  <2>7. 1..n = (1..k) \cup ((k + 1)..n)
    BY <1>1, <2>1
  <2>8. Range(high) \cup Range(low) = Range(b)
    BY <2>4, <2>5, <2>6, <2>7
  <2>9. d = [bw |-> high, sc2 |-> low]
    BY <1>10, <1>11, Zenon DEF d, k
  <2> HIDE DEF low, high
  <2>10. d.bw = high /\ d.sc2 = low
    BY <2>9
  <2>11. Len(x) = 0 /\ Len(y) = 0 /\ Range(x) = {} /\ Range(y) = {}
    BY <1>11 DEF Range
  <2>12. Gap(d) <= 1
    BY <1>1, <2>1, <2>3, <2>10 DEF Gap, AbsOf
  <2>13. Len(d.bw) + Len(d.sc2) = Len(x) + Len(y) + Len(z)
    BY <1>1, <2>1, <2>3, <2>10, <2>11 DEF n
  <2> QED BY <1>2, <2>3, <2>8, <2>10, <2>11, <2>12, <2>13
<1>12. ASSUME ~(x = <<>> /\ y = <<>>) PROVE Goal
  <2> DEFINE high == x \o LastOf(b, toBw) \o LastOf(rest, half)
             low == y \o FirstOf(b, toSc2) \o FirstOf(rest, Len(rest) - half)
  <2>1. /\ high \in Seq(Entry) /\ Len(high) = (Len(x) + toBw) + half
        /\ Range(high) = (Range(x) \cup Range(LastOf(b, toBw))) \cup Range(LastOf(rest, half))
    <3> DEFINE p == LastOf(b, toBw)
               r == LastOf(rest, half)
    <3>1. p \in Seq(Entry) /\ r \in Seq(Entry) /\ Len(p) = toBw /\ Len(r) = half
      BY <1>6, <1>8
    <3> HIDE DEF p, r
    <3>2. high = Joined(Joined(x, p), r)
      BY Zenon DEF Joined, p, r
    <3> HIDE DEF high
    <3>6. p \in Seq(Entry) /\ r \in Seq(Entry)
      BY <3>1
    <3>3. /\ Joined(Joined(x, p), r) \in Seq(Entry)
          /\ Len(Joined(Joined(x, p), r)) = Len(x) + Len(p) + Len(r)
          /\ Range(Joined(Joined(x, p), r)) = Range(x) \cup Range(p) \cup Range(r)
      BY <3>6, ThreeRange
    <3>4. high \in Seq(Entry) /\ Len(high) = (Len(x) + toBw) + half
      BY <1>1, <1>3, <1>7, <3>1, <3>2, <3>3
    <3>5. Range(high) = Range(x) \cup Range(p) \cup Range(r)
      BY <3>2, <3>3
    <3> QED BY <3>4, <3>5 DEF p, r
  <2>2. /\ low \in Seq(Entry) /\ Len(low) = (Len(y) + toSc2) + (Len(rest) - half)
        /\ Range(low) = (Range(y) \cup Range(FirstOf(b, toSc2))) \cup Range(FirstOf(rest, Len(rest) - half))
    <3> DEFINE p == FirstOf(b, toSc2)
               r == FirstOf(rest, Len(rest) - half)
    <3>1. p \in Seq(Entry) /\ r \in Seq(Entry) /\ Len(p) = toSc2 /\ Len(r) = Len(rest) - half
      BY <1>6, <1>8
    <3> HIDE DEF p, r
    <3>2. low = Joined(Joined(y, p), r)
      BY Zenon DEF Joined, p, r
    <3> HIDE DEF low
    <3>6. p \in Seq(Entry) /\ r \in Seq(Entry)
      BY <3>1
    <3>3. /\ Joined(Joined(y, p), r) \in Seq(Entry)
          /\ Len(Joined(Joined(y, p), r)) = Len(y) + Len(p) + Len(r)
          /\ Range(Joined(Joined(y, p), r)) = Range(y) \cup Range(p) \cup Range(r)
      BY <3>6, ThreeRange
    <3>4. low \in Seq(Entry) /\ Len(low) = (Len(y) + toSc2) + (Len(rest) - half)
      BY <1>1, <1>3, <1>7, <3>1, <3>2, <3>3
    <3>5. Range(low) = Range(y) \cup Range(p) \cup Range(r)
      BY <3>2, <3>3
    <3> QED BY <3>4, <3>5 DEF p, r
  <2>3. d = [bw |-> high, sc2 |-> low]
    BY <1>10, <1>12, Zenon DEF d
  <2> HIDE DEF low, high
  <2>4. d.bw = high /\ d.sc2 = low
    BY <2>3
  <2>5. Range(high) \cup Range(low) = Range(x) \cup Range(y) \cup Range(z)
    BY <1>2, <1>8, <1>9, <2>1, <2>2
  <2>6. Len(high) + Len(low) = Len(x) + Len(y) + n
    <3>1. /\ Len(high) = (Len(x) + toBw) + half
          /\ Len(low) = (Len(y) + toSc2) + (Len(rest) - half)
      BY <2>1, <2>2
    <3>2. Len(rest) = n - toBw - toSc2 /\ Len(rest) \in Nat
      BY <1>5
    <3>3. half \in Nat /\ toBw \in Int /\ toSc2 \in Int
      BY <1>1, <1>3, <1>7
    <3> QED BY <1>1, <3>1, <3>2, <3>3
  <2>7. Gap(d) = AbsOf(((Len(x) + toBw) + half) - ((Len(y) + toSc2) + (Len(rest) - half)))
    BY <2>1, <2>2, <2>4 DEF Gap
  <2>8. Gap(d) <= 1 \/ Gap(d) <= forced
    <3>1. CASE Len(x) >= Len(y)
      <4>1. toBw = 0 /\ toSc2 = AtMost(Len(x) - Len(y), n)
        BY <1>3, <3>1
      <4>2. CASE Len(x) - Len(y) < n
        BY <1>1, <1>5, <1>7, <2>7, <3>1, <4>1, <4>2 DEF AtMost, AbsOf
      <4>3. CASE ~(Len(x) - Len(y) < n)
        BY <1>1, <1>5, <1>7, <2>7, <3>1, <4>1, <4>3 DEF AtMost, AbsOf, forced, n
      <4> QED BY <4>2, <4>3
    <3>2. CASE Len(x) <= Len(y)
      <4>1. toSc2 = 0 /\ toBw = AtMost(Len(y) - Len(x), n)
        BY <1>3, <3>2
      <4>2. CASE Len(y) - Len(x) < n
        BY <1>1, <1>5, <1>7, <2>7, <3>2, <4>1, <4>2 DEF AtMost, AbsOf
      <4>3. CASE ~(Len(y) - Len(x) < n)
        BY <1>1, <1>5, <1>7, <2>7, <3>2, <4>1, <4>3 DEF AtMost, AbsOf, forced, n
      <4> QED BY <4>2, <4>3
    <3> QED BY <1>1, <3>1, <3>2
  <2> QED BY <2>1, <2>2, <2>4, <2>5, <2>6, <2>8 DEF n
<1> QED BY <1>11, <1>12 DEF d, forced

\* The entries of a sequence are told apart by their ids.
IdsDiffer(s) == \A i, j \in DOMAIN s : s[i].id = s[j].id => i = j

\* A sequence has at most as many entries as positions, and as many if they are told apart.
LEMMA RangeSize ==
  ASSUME NEW T, NEW s \in Seq(T)
  PROVE  /\ IsFiniteSet(Range(s)) /\ Cardinality(Range(s)) \in Nat
         /\ Cardinality(Range(s)) <= Len(s)
         /\ Cardinality(Range(s)) = Len(s) <=> \A i, j \in DOMAIN s : s[i] = s[j] => i = j
<1> DEFINE D == 1..Len(s)
<1>1. DOMAIN s = D /\ Len(s) \in Nat
  OBVIOUS
<1>2. IsFiniteSet(D) /\ Cardinality(D) = Len(s)
  BY <1>1, FS_Interval
<1>3. s \in [D -> Range(s)] /\ \A t \in Range(s) : \E i \in D : s[i] = t
  BY <1>1 DEF Range
<1>4. s \in Surjection(D, Range(s))
  BY <1>3 DEF Surjection
<1>5. s \in Injection(D, Range(s)) <=> \A i, j \in D : s[i] = s[j] => i = j
  BY <1>3 DEF Injection, IsInjective
<1> HIDE DEF D
<1>6. /\ IsFiniteSet(Range(s))
      /\ Cardinality(Range(s)) <= Cardinality(D)
      /\ Cardinality(Range(s)) = Cardinality(D) <=> s \in Injection(D, Range(s))
  BY <1>2, <1>4, FS_Surjection
<1>7. Cardinality(Range(s)) \in Nat
  BY <1>6, FS_CardinalityType
<1> QED BY <1>1, <1>2, <1>5, <1>6, <1>7

\* The two sides have everybody of q, once.
Spread(bw, sc2, q) ==
  /\ bw \in Seq(Entry) /\ sc2 \in Seq(Entry)
  /\ Range(bw) \cup Range(sc2) = Range(q)
  /\ Len(bw) + Len(sc2) = Len(q)

LEMMA OnceEach ==
  ASSUME NEW q \in Seq(Entry), IdsDiffer(q), NEW bw, NEW sc2, Spread(bw, sc2, q)
  PROVE  IdsDiffer(bw) /\ IdsDiffer(sc2)
<1> DEFINE B == Cardinality(Range(bw))
           C == Cardinality(Range(sc2))
<1>1. /\ bw \in Seq(Entry) /\ sc2 \in Seq(Entry)
      /\ Range(bw) \cup Range(sc2) = Range(q)
      /\ Len(bw) + Len(sc2) = Len(q)
      /\ Len(bw) \in Nat /\ Len(sc2) \in Nat /\ Len(q) \in Nat
  BY DEF Spread
<1>2. /\ IsFiniteSet(Range(bw)) /\ B \in Nat /\ B <= Len(bw)
      /\ B = Len(bw) <=> \A i, j \in DOMAIN bw : bw[i] = bw[j] => i = j
  BY <1>1, RangeSize
<1>3. /\ IsFiniteSet(Range(sc2)) /\ C \in Nat /\ C <= Len(sc2)
      /\ C = Len(sc2) <=> \A i, j \in DOMAIN sc2 : sc2[i] = sc2[j] => i = j
  BY <1>1, RangeSize
<1>4. Cardinality(Range(q)) = Len(q)
  <2>1. \A i, j \in DOMAIN q : q[i] = q[j] => i = j
    BY DEF IdsDiffer
  <2> QED BY <2>1, RangeSize
<1>5. Cardinality(Range(q)) <= B + C
  <2>1. /\ IsFiniteSet(Range(bw) \cap Range(sc2))
        /\ Cardinality(Range(bw) \cup Range(sc2)) = B + C - Cardinality(Range(bw) \cap Range(sc2))
    BY <1>2, <1>3, FS_Union, FS_Subset
  <2>2. Cardinality(Range(bw) \cap Range(sc2)) \in Nat
    BY <2>1, FS_CardinalityType
  <2>3. Cardinality(Range(bw) \cup Range(sc2)) = Cardinality(Range(q))
    BY <1>1
  <2>4. B \in Nat /\ C \in Nat
    BY <1>2, <1>3
  <2> HIDE DEF B, C
  <2> QED BY <2>1, <2>2, <2>3, <2>4
<1>6. B = Len(bw) /\ C = Len(sc2)
  <2> HIDE DEF B, C
  <2> QED BY <1>1, <1>2, <1>3, <1>4, <1>5
<1>7. /\ \A i, j \in DOMAIN bw : bw[i] = bw[j] => i = j
      /\ \A i, j \in DOMAIN sc2 : sc2[i] = sc2[j] => i = j
  BY <1>2, <1>3, <1>6
<1>8. \A e, f \in Range(q) : e.id = f.id => e = f
  BY DEF IdsDiffer, Range
<1>9. (\A i \in DOMAIN bw : bw[i] \in Range(q)) /\ \A i \in DOMAIN sc2 : sc2[i] \in Range(q)
  BY <1>1 DEF Range
<1> QED BY <1>7, <1>8, <1>9 DEF IdsDiffer

\* Who changes sides leaves the one for the other.
LEMMA MovedSpread ==
  ASSUME NEW from \in Seq(Entry), NEW to \in Seq(Entry), NEW m \in DOMAIN from, IdsDiffer(from)
  PROVE  LET after == Moved(from, to, from[m])
         IN  /\ after.from \in Seq(Entry) /\ after.to \in Seq(Entry)
             /\ Len(after.from) = Len(from) - 1 /\ Len(after.to) = Len(to) + 1
             /\ Range(after.from) \cup Range(after.to) = Range(from) \cup Range(to)
<1> DEFINE mover == from[m]
           at == {i \in DOMAIN from : from[i].id # mover.id}
           x == InOrder(from, at, [i \in DOMAIN from |-> i])
           y == Append(to, mover)
<1>0. DOMAIN from = 1..Len(from) /\ Len(from) \in Nat
  OBVIOUS
<1>1. mover \in Entry
  OBVIOUS
<1>2. at = DOMAIN from \ {m}
  BY DEF IdsDiffer
<1>3. x \in Seq(Entry) /\ Range(x) = {from[i] : i \in at} /\ Len(x) = Cardinality(at)
  <2>1. at \in SUBSET DOMAIN from
    OBVIOUS
  <2> HIDE DEF at
  <2> QED BY <2>1, KeptRange
<1>4. Cardinality(at) = Len(from) - 1
  <2>0. \A n \in Nat : IsFiniteSet(1..n) /\ Cardinality(1..n) = n
    BY FS_Interval
  <2>1. IsFiniteSet(DOMAIN from) /\ Cardinality(DOMAIN from) = Len(from)
    BY <1>0, <2>0
  <2> HIDE DEF at
  <2> QED BY <1>2, <2>1, FS_RemoveElement
<1>5. Moved(from, to, mover) = [from |-> x, to |-> y]
  BY DEF Moved, Kept
<1> HIDE DEF x, at, mover
<1>6. /\ y \in Seq(Entry) /\ Len(y) = Len(to) + 1
      /\ \A i \in 1..Len(to) : y[i] = to[i]
      /\ y[Len(to) + 1] = mover
  BY <1>1, AppendProperties
<1> DEFINE n == Len(to)
<1> HIDE DEF y
<1>10. n \in Nat /\ DOMAIN to = 1..n /\ DOMAIN y = 1..(n + 1)
  BY <1>6
<1>11. (\A i \in 1..n : y[i] = to[i]) /\ y[n + 1] = mover
  BY <1>6
<1> HIDE DEF n
<1>7. Range(y) = Range(to) \cup {mover}
  <2>1. \A i \in DOMAIN y : i \in DOMAIN to \/ i = n + 1
    BY <1>10
  <2>2. \A i \in DOMAIN to : i \in DOMAIN y /\ y[i] = to[i]
    BY <1>10, <1>11
  <2>3. n + 1 \in DOMAIN y
    BY <1>10
  <2> QED BY <1>11, <2>1, <2>2, <2>3 DEF Range
<1>8. Range(from) = {from[i] : i \in at} \cup {mover}
  BY <1>2 DEF Range, mover
<1>9. Range(x) \cup Range(y) = Range(from) \cup Range(to)
  BY <1>3, <1>7, <1>8
<1> QED BY <1>3, <1>4, <1>5, <1>6, <1>9 DEF mover

Neutral(s) == SortedBy(Kept(s, IsBoth), LAMBDA e : AbsOf(Bias(e)))

\* The most neutral player of a side is on it.
LEMMA NeutralIsThere ==
  ASSUME RatingsTyped, NEW s \in Seq(Entry), Neutral(s) # <<>>
  PROVE  \E m \in DOMAIN s : Neutral(s)[1] = s[m]
<1> DEFINE at == {i \in DOMAIN s : IsBoth(s[i])}
           x == InOrder(s, at, [i \in DOMAIN s |-> i])
           key == [i \in DOMAIN x |-> AbsOf(Bias(x[i]))]
           o == InOrder(x, DOMAIN x, key)
<1>1. Neutral(s) = o
  BY DEF Neutral, SortedBy, Kept
<1>2. x \in Seq(Entry) /\ Range(x) = {s[i] : i \in at}
  <2>1. at \in SUBSET DOMAIN s
    OBVIOUS
  <2> HIDE DEF at
  <2> QED BY <2>1, KeptRange
<1> HIDE DEF x
<1>3. \A i \in DOMAIN x : x[i] \in Entry
  BY <1>2
<1>4. \A i \in DOMAIN x : key[i] \in Int
  BY <1>3, EntryFacts
<1> HIDE DEF key
<1>5. o \in Seq(Entry) /\ Range(o) = Range(x)
  BY <1>2, <1>4, SortedRange
<1> HIDE DEF o
<1>6. o # <<>>
  BY <1>1
<1>7. 1 \in DOMAIN o
  BY <1>5, <1>6
<1>8. o[1] \in {s[i] : i \in at}
  BY <1>2, <1>5, <1>7 DEF Range
<1> QED BY <1>1, <1>8

LEMMA RebalancedSpread ==
  ASSUME RatingsTyped, NEW q \in Seq(Entry), IdsDiffer(q), NEW sides, Spread(sides.bw, sides.sc2, q)
  PROVE  LET after == Rebalanced(sides)
         IN  Spread(after.bw, after.sc2, q) /\ Gap(after) <= Gap(sides)
<1> DEFINE bw == sides.bw
           sc2 == sides.sc2
           delta == SumOf(Bw, bw) * Len(sc2) - SumOf(Sc2, sc2) * Len(bw)
           limit == BalanceThreshold * Len(bw) * Len(sc2)
           fits(from, to) == /\ Neutral(from) # <<>>
                             /\ AbsOf(Len(from) - Len(to) - 2) <= AbsOf(Len(from) - Len(to))
           toSc2 == Moved(bw, sc2, Neutral(bw)[1])
           toBw == Moved(sc2, bw, Neutral(sc2)[1])
           a == [bw |-> toSc2.from, sc2 |-> toSc2.to]
           b == [bw |-> toBw.to, sc2 |-> toBw.from]
           after == Rebalanced(sides)
<1>1. \/ after = sides
      \/ fits(bw, sc2) /\ after = a
      \/ fits(sc2, bw) /\ after = b
  <2>1. after =
          CASE delta > limit /\ fits(bw, sc2) -> a
            [] delta < -limit /\ fits(sc2, bw) -> b
            [] OTHER -> sides
    BY DEF Rebalanced, Neutral
  <2> DEFINE A == delta > limit /\ fits(bw, sc2)
             B == delta < -limit /\ fits(sc2, bw)
  <2>2. (A => fits(bw, sc2)) /\ (B => fits(sc2, bw))
    BY Zenon
  <2>3. after = CASE A -> a [] B -> b [] OTHER -> sides
    BY <2>1
  <2> HIDE DEF A, B, a, b, after
  <2>4. after = sides \/ (A /\ after = a) \/ (B /\ after = b)
    BY <2>3
  <2> HIDE DEF fits, bw, sc2
  <2> QED BY <2>2, <2>4
<1>2. /\ bw \in Seq(Entry) /\ sc2 \in Seq(Entry) /\ Range(bw) \cup Range(sc2) = Range(q)
      /\ Len(bw) + Len(sc2) = Len(q) /\ IdsDiffer(bw) /\ IdsDiffer(sc2)
  BY OnceEach DEF Spread
<1>3. Gap(sides) = AbsOf(Len(bw) - Len(sc2)) /\ Len(bw) \in Nat /\ Len(sc2) \in Nat /\ Len(q) \in Nat
  BY <1>2 DEF Gap
<1> DEFINE Goal == Spread(after.bw, after.sc2, q) /\ Gap(after) <= Gap(sides)
<1>4. ASSUME after = sides PROVE Goal
  <2> HIDE DEF after
  <2>1. Gap(sides) \in Int
    BY <1>3 DEF AbsOf
  <2>2. Gap(sides) <= Gap(sides)
    BY <2>1
  <2>3. after.bw = sides.bw /\ after.sc2 = sides.sc2 /\ Gap(after) = Gap(sides)
    BY <1>4
  <2> QED BY <2>2, <2>3
<1>5. ASSUME NEW from \in Seq(Entry), NEW to \in Seq(Entry), IdsDiffer(from), fits(from, to)
      PROVE  LET moved == Moved(from, to, Neutral(from)[1])
             IN  /\ moved.from \in Seq(Entry) /\ moved.to \in Seq(Entry)
                 /\ Len(moved.from) = Len(from) - 1 /\ Len(moved.to) = Len(to) + 1
                 /\ Range(moved.from) \cup Range(moved.to) = Range(from) \cup Range(to)
                 /\ AbsOf((Len(from) - 1) - (Len(to) + 1)) <= AbsOf(Len(from) - Len(to))
  <2>1. PICK m \in DOMAIN from : Neutral(from)[1] = from[m]
    BY <1>5, NeutralIsThere
  <2> DEFINE moved == Moved(from, to, from[m])
  <2>2. /\ moved.from \in Seq(Entry) /\ moved.to \in Seq(Entry)
        /\ Len(moved.from) = Len(from) - 1 /\ Len(moved.to) = Len(to) + 1
        /\ Range(moved.from) \cup Range(moved.to) = Range(from) \cup Range(to)
    BY <1>5, MovedSpread
  <2>3. Len(from) \in Nat /\ Len(to) \in Nat
    OBVIOUS
  <2>4. (Len(from) - 1) - (Len(to) + 1) = Len(from) - Len(to) - 2
    BY <2>3
  <2>5. AbsOf((Len(from) - 1) - (Len(to) + 1)) <= AbsOf(Len(from) - Len(to))
    BY <1>5, <2>4
  <2> HIDE DEF moved
  <2>6. moved = Moved(from, to, Neutral(from)[1])
    BY <2>1 DEF moved
  <2> QED BY <2>2, <2>5, <2>6
<1> HIDE DEF bw, sc2, fits
<1>6. ASSUME fits(bw, sc2), after = a PROVE Goal
  <2>1. /\ toSc2.from \in Seq(Entry) /\ toSc2.to \in Seq(Entry)
        /\ Len(toSc2.from) = Len(bw) - 1 /\ Len(toSc2.to) = Len(sc2) + 1
        /\ Range(toSc2.from) \cup Range(toSc2.to) = Range(bw) \cup Range(sc2)
        /\ AbsOf((Len(bw) - 1) - (Len(sc2) + 1)) <= AbsOf(Len(bw) - Len(sc2))
    BY <1>2, <1>5, <1>6
  <2> HIDE DEF toSc2, after
  <2>2. after.bw = toSc2.from /\ after.sc2 = toSc2.to
    BY <1>6
  <2>3. Spread(after.bw, after.sc2, q)
    <3>3. Len(after.bw) = Len(bw) - 1 /\ Len(after.sc2) = Len(sc2) + 1
      BY <2>1, <2>2
    <3>4. Len(bw) + Len(sc2) = Len(q)
      BY <1>2
    <3>1. Len(after.bw) + Len(after.sc2) = Len(q)
      BY <1>3, <3>3, <3>4
    <3>2. Range(after.bw) \cup Range(after.sc2) = Range(q)
      BY <1>2, <2>1, <2>2
    <3> QED BY <2>1, <2>2, <3>1, <3>2 DEF Spread
  <2>4. Gap(after) = AbsOf((Len(bw) - 1) - (Len(sc2) + 1))
    BY <2>1, <2>2 DEF Gap
  <2>6. Gap(after) <= Gap(sides)
    BY <1>3, <2>1, <2>4
  <2> QED BY <2>3, <2>6
<1>7. ASSUME fits(sc2, bw), after = b PROVE Goal
  <2>1. /\ toBw.from \in Seq(Entry) /\ toBw.to \in Seq(Entry)
        /\ Len(toBw.from) = Len(sc2) - 1 /\ Len(toBw.to) = Len(bw) + 1
        /\ Range(toBw.from) \cup Range(toBw.to) = Range(sc2) \cup Range(bw)
        /\ AbsOf((Len(sc2) - 1) - (Len(bw) + 1)) <= AbsOf(Len(sc2) - Len(bw))
    BY <1>2, <1>5, <1>7
  <2> HIDE DEF toBw, after
  <2>2. after.bw = toBw.to /\ after.sc2 = toBw.from
    BY <1>7
  <2>3. Spread(after.bw, after.sc2, q)
    <3>3. Len(after.bw) = Len(bw) + 1 /\ Len(after.sc2) = Len(sc2) - 1
      BY <2>1, <2>2
    <3>4. Len(bw) + Len(sc2) = Len(q)
      BY <1>2
    <3>1. Len(after.bw) + Len(after.sc2) = Len(q)
      BY <1>3, <3>3, <3>4
    <3>2. Range(after.bw) \cup Range(after.sc2) = Range(q)
      BY <1>2, <2>1, <2>2
    <3> QED BY <2>1, <2>2, <3>1, <3>2 DEF Spread
  <2>4. Gap(after) = AbsOf((Len(bw) + 1) - (Len(sc2) - 1))
    BY <2>1, <2>2 DEF Gap
  <2>5. /\ AbsOf((Len(bw) + 1) - (Len(sc2) - 1)) = AbsOf((Len(sc2) - 1) - (Len(bw) + 1))
        /\ AbsOf(Len(bw) - Len(sc2)) = AbsOf(Len(sc2) - Len(bw))
    BY <1>3 DEF AbsOf
  <2>6. Gap(after) <= Gap(sides)
    BY <1>3, <2>1, <2>4, <2>5
  <2> QED BY <2>3, <2>6
<1> HIDE DEF after, a, b
<1>8. Goal
  BY <1>1, <1>4, <1>6, <1>7
<1> QED BY <1>8 DEF after

ForcedGap(q) == AbsOf(Len(BwOnly(q)) - Len(Sc2Only(q))) - Len(BothRaces(q))

LEMMA EqualizedSpread ==
  ASSUME RatingsTyped, NEW q \in Seq(Entry), IdsDiffer(q)
  PROVE  LET sides == Equalized(q)
         IN  /\ Spread(sides.bw, sides.sc2, q)
             /\ Gap(sides) <= 1 \/ Gap(sides) <= ForcedGap(q)
<1> DEFINE x == BwOnly(q)
           y == Sc2Only(q)
           z == BothRaces(q)
           d == Dealt(x, y, z)
           sides == Equalized(q)
           Goal == /\ Spread(sides.bw, sides.sc2, q)
                   /\ Gap(sides) <= 1 \/ Gap(sides) <= ForcedGap(q)
<1>1. /\ x \in Seq(Entry) /\ y \in Seq(Entry) /\ z \in Seq(Entry)
      /\ Range(x) \cup Range(y) \cup Range(z) = Range(q)
      /\ Len(x) + Len(y) + Len(z) = Len(q)
  BY PoolsSpread
<1>2. sides = IF z = <<>> THEN [bw |-> x, sc2 |-> y]
              ELSE IF x = <<>> /\ y = <<>> THEN d
              ELSE Rebalanced(d)
  BY DEF Equalized
<1>3. ForcedGap(q) = AbsOf(Len(x) - Len(y)) - Len(z)
  BY DEF ForcedGap
<1> HIDE DEF x, y, z, sides
<1>4. Len(x) \in Nat /\ Len(y) \in Nat /\ Len(z) \in Nat
  BY <1>1
<1>5. ForcedGap(q) \in Int
  BY <1>3, <1>4 DEF AbsOf
<1>6. ASSUME z = <<>> PROVE Goal
  <2>1. sides.bw = x /\ sides.sc2 = y
    BY <1>2, <1>6
  <2>2. Len(z) = 0 /\ Range(z) = {}
    BY <1>6 DEF Range
  <2>3. Range(x) \cup Range(y) = Range(q) /\ Len(x) + Len(y) = Len(q)
    BY <1>1, <1>4, <2>2
  <2>4. Spread(sides.bw, sides.sc2, q)
    BY <1>1, <2>1, <2>3 DEF Spread
  <2>5. Gap(sides) = AbsOf(Len(x) - Len(y))
    BY <2>1 DEF Gap
  <2>6. Gap(sides) <= ForcedGap(q)
    BY <1>3, <1>4, <2>2, <2>5 DEF AbsOf
  <2> QED BY <2>4, <2>6
<1>7. /\ d.bw \in Seq(Entry) /\ d.sc2 \in Seq(Entry)
      /\ Range(d.bw) \cup Range(d.sc2) = Range(x) \cup Range(y) \cup Range(z)
      /\ Len(d.bw) + Len(d.sc2) = Len(x) + Len(y) + Len(z)
      /\ Gap(d) <= 1 \/ Gap(d) <= AbsOf(Len(x) - Len(y)) - Len(z)
  BY <1>1, DealtSpread
<1> HIDE DEF d
<1>8. Spread(d.bw, d.sc2, q) /\ (Gap(d) <= 1 \/ Gap(d) <= ForcedGap(q))
  BY <1>1, <1>3, <1>7 DEF Spread
<1>9. ASSUME z # <<>>, sides = d PROVE Goal
  BY <1>8, <1>9
<1>10. ASSUME z # <<>>, sides = Rebalanced(d) PROVE Goal
  <2>1. Spread(sides.bw, sides.sc2, q) /\ Gap(sides) <= Gap(d)
    BY <1>8, <1>10, RebalancedSpread
  <2>2. Gap(d) \in Int /\ Gap(sides) \in Int
    BY <1>8, <2>1 DEF Spread, Gap, AbsOf
  <2>3. Gap(sides) <= 1 \/ Gap(sides) <= ForcedGap(q)
    BY <1>5, <1>8, <2>1, <2>2
  <2> QED BY <2>1, <2>3
<1>11. Goal
  BY <1>2, <1>6, <1>9, <1>10
<1> QED BY <1>11 DEF sides

\* Whatever the queue, if its entries have ids of their own, everybody has one side, with a race
\* for it, and the sides are as equal as the players of one race let them be.
LEMMA SidesAreBalanced ==
  ASSUME RatingsTyped, NEW q \in Seq(Entry), IdsDiffer(q)
  PROVE  Balanced(q)
<1> DEFINE sides == Equalized(q)
           bw == sides.bw
           sc2 == sides.sc2
           forced == ForcedGap(q)
           all == bw \o sc2
<1>1. Spread(bw, sc2, q) /\ (Gap(sides) <= 1 \/ Gap(sides) <= forced)
  BY EqualizedSpread
<1>2. bw \in Seq(SideOf(Entry, "bw")) /\ sc2 \in Seq(SideOf(Entry, "sc2"))
  BY EqualizedOK
<1>3. Balanced(q) <=>
        /\ Range(all) = Range(q)
        /\ Len(bw) + Len(sc2) = Len(q)
        /\ \A e \in Range(bw) : "bw" \in e.races
        /\ \A e \in Range(sc2) : "sc2" \in e.races
        /\ Gap(sides) <= Max({1, forced})
  BY DEF Balanced, ForcedGap, Gap
<1>4. all = Joined(bw, sc2)
  BY DEF Joined
<1> HIDE DEF all
<1>5. forced \in Int /\ Gap(sides) \in Int
  <2>1. /\ BwOnly(q) \in Seq(Entry) /\ Sc2Only(q) \in Seq(Entry) /\ BothRaces(q) \in Seq(Entry)
    BY PoolsSpread
  <2>2. Len(BwOnly(q)) \in Nat /\ Len(Sc2Only(q)) \in Nat /\ Len(BothRaces(q)) \in Nat
    BY <2>1
  <2>3. Len(bw) \in Nat /\ Len(sc2) \in Nat
    BY <1>1 DEF Spread
  <2> HIDE DEF sides
  <2> QED BY <2>2, <2>3 DEF ForcedGap, Gap, AbsOf
<1> HIDE DEF sides, forced
<1>6. bw \in Seq(Entry) /\ sc2 \in Seq(Entry)
  BY <1>1 DEF Spread
<1>7. Range(Joined(bw, sc2)) = Range(bw) \cup Range(sc2)
  BY <1>6, ConcatRange
<1>8. (\A e \in Range(bw) : "bw" \in e.races) /\ \A e \in Range(sc2) : "sc2" \in e.races
  BY <1>2 DEF Range, SideOf
<1>9. Gap(sides) <= Max({1, forced})
  <2>1. Max({1, forced}) \in {1, forced} /\ Max({1, forced}) >= 1 /\ Max({1, forced}) >= forced
    <3>1. 1 \in Int /\ forced \in Int
      BY <1>5
    <3> QED BY <3>1, MaxOfTwo
  <2> QED BY <1>1, <1>5, <2>1
<1> QED BY <1>1, <1>3, <1>4, <1>7, <1>8, <1>9 DEF Spread

-----------------------------------------------------------------------------
(* Type correctness and the pairs of a wave                                  *)

Pair == [bw : Entry, sc2 : Entry]
View == [who : Player, task : {"waiting", "showing", "shown", "ended"}, inbox : Seq(Nat),
         queue : Nat, ready : BOOLEAN, active : BOOLEAN, expired : BOOLEAN]
Match == [bw : Player, sc2 : Player, open : BOOLEAN, published : BOOLEAN]
Wave == [task : {"sleeping", "creating", "dead"}, todo : Seq(Pair), matched : SUBSET Player]

\* The inductive invariant: the types, that a view has a queue made before it
\* and receives matches that exist, and that a wave has pairs to create and
\* players it has matched only while it is creating.
QueueTyped ==
  /\ RatingsTyped
  /\ players \in Seq(Entry)
  /\ state \in [Player -> {Idle, Queueing} \cup Matches]
  /\ joining \in [Player -> SUBSET Selection]
ViewsTyped ==
  /\ views \in Seq(View)
  /\ manager \in [Player -> ViewIds \cup {NoView}]
  /\ listener \in [Player -> ViewIds \cup {NoView}]
  /\ \A v \in ViewIds : views[v].queue \in ViewIds
  /\ \A v \in ViewIds : \A i \in DOMAIN views[v].inbox : views[v].inbox[i] \in Matches
WaveTyped ==
  /\ wave \in Wave
  /\ wave.task = "creating" <=> wave.todo # <<>>
  /\ wave.task # "creating" => wave.matched = {}
Typed ==
  /\ QueueTyped
  /\ ViewsTyped
  /\ matches \in Seq(Match)
  /\ WaveTyped
  /\ events \subseteq Events

LEMMA TypedImplies == Typed => TypeOK
<1> SUFFICES ASSUME Typed PROVE TypeOK
  OBVIOUS
<1> USE DEF Typed, QueueTyped, ViewsTyped
<1>1. rating \in [Player -> [bw : Nat, sc2 : Nat]]
  BY DEF RatingsTyped
<1>2. \A i \in DOMAIN players : players[i] \in Entry
  OBVIOUS
<1>3. ASSUME NEW v \in ViewIds
      PROVE  /\ views[v].task \in {"waiting", "showing", "shown", "ended"}
             /\ views[v].queue \in ViewIds
             /\ Range(views[v].inbox) \subseteq Matches
  <2>1. views[v] \in View
    BY <1>3 DEF ViewIds
  <2>2. Range(views[v].inbox) \subseteq Matches
    BY <1>3 DEF Range
  <2> QED BY <2>1, <2>2 DEF View
<1>4. wave.task \in {"sleeping", "creating", "dead"}
  BY DEF WaveTyped, Wave
<1> QED BY <1>1, <1>2, <1>3, <1>4 DEF TypeOK

\* The condition `at` of a filter written out.
LEMMA KeptOK ==
  ASSUME NEW T, NEW s \in Seq(T), NEW at \in SUBSET DOMAIN s
  PROVE  HasEntries(InOrder(s, at, [i \in DOMAIN s |-> i]), T, s, at)
<1> DEFINE key == [i \in DOMAIN s |-> i]
<1>1. \A i \in at : key[i] \in Int
  OBVIOUS
<1> HIDE DEF key
<1>2. HasEntries(InOrder(s, at, key), T, s, at)
  BY <1>1, InOrderEntries
<1> QED BY <1>2 DEF key

LEMMA EntriesOf ==
  ASSUME players \in Seq(Entry), NEW p
  PROVE  /\ IsQueued(p) <=> \E i \in DOMAIN players : players[i].who = p
         /\ (\A i, j \in DOMAIN players : players[i].who = p /\ players[j].who = p => i = j)
              => Len(Entries(p)) <= 1
<1> DEFINE at == {i \in DOMAIN players : players[i].who = p}
           o == InOrder(players, at, [i \in DOMAIN players |-> i])
<1>1. Entries(p) = o
  BY DEF Entries, Kept
<1>2. HasEntries(o, Entry, players, at)
  BY KeptOK
<1>3. IsFiniteSet(at)
  <2>1. DOMAIN players = 1..Len(players) /\ Len(players) \in Nat
    OBVIOUS
  <2>2. IsFiniteSet(1..Len(players))
    BY <2>1, FS_Interval
  <2> QED BY <2>1, <2>2, FS_Subset
<1> HIDE DEF o
<1>4. Len(o) = Cardinality(at) /\ o \in Seq(Entry)
  BY <1>2 DEF HasEntries
<1>5. o # <<>> <=> Len(o) # 0
  BY <1>4, EmptySeq
<1>6. IsQueued(p) <=> at # {}
  BY <1>1, <1>3, <1>4, <1>5, FS_EmptySet DEF IsQueued
<1>7. ASSUME \A i, j \in at : i = j PROVE Cardinality(at) <= 1
  <2>1. CASE at = {}
    <3>1. Cardinality({}) = 0
      BY FS_EmptySet
    <3> HIDE DEF at
    <3> QED BY <2>1, <3>1
  <2>2. CASE at # {}
    <3>1. PICK i \in at : TRUE
      BY <2>2
    <3>2. at = {i}
      BY <1>7, <3>1
    <3>3. Cardinality({i}) = 1
      BY FS_Singleton
    <3> HIDE DEF at
    <3> QED BY <3>2, <3>3
  <2> QED BY <2>1, <2>2
<1> QED BY <1>1, <1>4, <1>6, <1>7

LEMMA WithoutOK ==
  ASSUME players \in Seq(Entry), NEW gone
  PROVE  /\ Without(gone) \in Seq(Entry)
         /\ \A p : (\E i \in DOMAIN Without(gone) : Without(gone)[i].who = p)
                     <=> p \notin gone /\ \E i \in DOMAIN players : players[i].who = p
         /\ (\A i, j \in DOMAIN players : players[i].who = players[j].who => i = j)
              => \A i, j \in DOMAIN Without(gone) : Without(gone)[i].who = Without(gone)[j].who => i = j
         /\ \A i, j \in DOMAIN Without(gone) : \E a, b \in DOMAIN players :
              Without(gone)[i] = players[a] /\ Without(gone)[j] = players[b] /\ (i # j => a # b)
<1> DEFINE at == {i \in DOMAIN players : players[i].who \notin gone}
           key == [i \in DOMAIN players |-> i]
           o == InOrder(players, at, key)
           N == Cardinality(at)
<1>1. Without(gone) = o
  BY DEF Without, Kept
<1>2. HasEntries(o, Entry, players, at)
  BY KeptOK
<1>3. N \in Nat /\ IsSortOf(o, players, at, key)
  <2>1. IsFiniteSet(DOMAIN players) /\ DOMAIN players \subseteq Int
    BY FS_Interval
  <2>2. \A i \in at : key[i] \in Int
    OBVIOUS
  <2> HIDE DEF key
  <2> QED BY <2>1, <2>2, InOrderSorts
<1> HIDE DEF o
<1>4. \A p : (\E i \in DOMAIN o : o[i].who = p)
               <=> p \notin gone /\ \E i \in DOMAIN players : players[i].who = p
  BY <1>2 DEF HasEntries
<1>5. \A i, j \in DOMAIN o : \E a, b \in DOMAIN players :
        o[i] = players[a] /\ o[j] = players[b] /\ (i # j => a # b)
  <2>1. PICK pick \in [1..N -> at] :
          /\ \A k, l \in 1..N : k < l =>
                \/ key[pick[k]] < key[pick[l]]
                \/ key[pick[k]] = key[pick[l]] /\ pick[k] < pick[l]
          /\ o = [k \in 1..N |-> players[pick[k]]]
    BY <1>3 DEF IsSortOf
  <2>2. \A k \in 1..N : pick[k] \in DOMAIN players /\ key[pick[k]] = pick[k] /\ pick[k] \in Int
    BY <2>1
  <2>3. DOMAIN o = 1..N
    BY <2>1
  <2>4. \A k, l \in 1..N : k < l => pick[k] # pick[l]
    <3> HIDE DEF key, N
    <3> SUFFICES ASSUME NEW k \in 1..N, NEW l \in 1..N, k < l PROVE pick[k] # pick[l]
      OBVIOUS
    <3>1. pick[k] < pick[l] \/ (pick[k] = pick[l] /\ pick[k] < pick[l])
      BY <2>1, <2>2
    <3> QED BY <2>2, <3>1
  <2>5. \A k, l \in 1..N : pick[k] = pick[l] => k = l
    <3> SUFFICES ASSUME NEW k \in 1..N, NEW l \in 1..N, k # l PROVE pick[k] # pick[l]
      OBVIOUS
    <3>1. k < l \/ l < k
      BY <1>3
    <3> HIDE DEF N
    <3> QED BY <2>4, <3>1
  <2>6. \A k \in 1..N : pick[k] \in DOMAIN players /\ o[k] = players[pick[k]]
    BY <2>1, <2>2
  <2> QED BY <2>3, <2>5, <2>6
<1>6. ASSUME \A i, j \in DOMAIN players : players[i].who = players[j].who => i = j
      PROVE  \A i, j \in DOMAIN o : o[i].who = o[j].who => i = j
  BY <1>5, <1>6
<1>7. o \in Seq(Entry)
  BY <1>2 DEF HasEntries
<1> HIDE DEF at, key, N
<1>8. \A i, j \in DOMAIN Without(gone) : \E a, b \in DOMAIN players :
        Without(gone)[i] = players[a] /\ Without(gone)[j] = players[b] /\ (i # j => a # b)
  BY <1>1, <1>5
<1>9. (\A i, j \in DOMAIN players : players[i].who = players[j].who => i = j)
        => \A i, j \in DOMAIN Without(gone) : Without(gone)[i].who = Without(gone)[j].who => i = j
  BY <1>1, <1>6
<1> QED BY <1>1, <1>4, <1>7, <1>8, <1>9

\* Silencing and deactivating a view change its task and that it is active.
LEMMA Silencing ==
  ASSUME NEW view \in View
  PROVE  /\ Silenced(view) \in View /\ Deactivated(view) \in View
         /\ Silenced(view).who = view.who /\ Deactivated(view).who = view.who
         /\ Silenced(view).queue = view.queue /\ Deactivated(view).queue = view.queue
         /\ Silenced(view).inbox = view.inbox /\ Deactivated(view).inbox = view.inbox
         /\ Silenced(view).active = view.active /\ ~Deactivated(view).active
         /\ Silenced(view).task \notin {"waiting", "showing"}
         /\ Deactivated(view).task \notin {"waiting", "showing"}
<1>1. Silenced(view) = IF view.task \in {"waiting", "showing"}
                       THEN [view EXCEPT !.task = "ended"] ELSE view
  BY DEF Silenced
<1>2. /\ Silenced(view) \in View
      /\ Silenced(view).who = view.who /\ Silenced(view).queue = view.queue
      /\ Silenced(view).inbox = view.inbox /\ Silenced(view).active = view.active
      /\ Silenced(view).task \notin {"waiting", "showing"}
  <2>1. CASE view.task \in {"waiting", "showing"}
    <3>1. Silenced(view) = [view EXCEPT !.task = "ended"]
      BY <1>1, <2>1
    <3> QED BY <3>1 DEF View
  <2>2. CASE view.task \notin {"waiting", "showing"}
    BY <1>1, <2>2
  <2> QED BY <2>1, <2>2
<1>3. Deactivated(view) = [Silenced(view) EXCEPT !.active = FALSE]
  BY DEF Deactivated
<1>4. /\ Deactivated(view) \in View /\ ~Deactivated(view).active
      /\ Deactivated(view).who = Silenced(view).who
      /\ Deactivated(view).queue = Silenced(view).queue
      /\ Deactivated(view).inbox = Silenced(view).inbox
      /\ Deactivated(view).task = Silenced(view).task
  BY <1>2, <1>3 DEF View
<1> QED BY <1>2, <1>4

LEMMA ViewFacts ==
  ASSUME ViewsTyped
  PROVE  /\ Len(views) \in Nat /\ ViewIds = 1..Len(views) /\ DOMAIN views = ViewIds
         /\ \A v \in ViewIds : views[v] \in View /\ views[v].who \in Player
<1>1. Len(views) \in Nat /\ ViewIds = 1..Len(views) /\ DOMAIN views = ViewIds
  BY DEF ViewsTyped, ViewIds
<1>2. ASSUME NEW v \in ViewIds PROVE views[v] \in View
  BY <1>1 DEF ViewsTyped
<1>3. \A v \in ViewIds : views[v].who \in Player
  BY <1>2 DEF View
<1> QED BY <1>1, <1>2, <1>3

\* A step that makes no view keeps the views typed when each keeps its queue and
\* has matches that exist in its inbox.
LEMMA ViewsChange ==
  ASSUME ViewsTyped,
         views' \in [ViewIds -> View], \A v \in ViewIds : views'[v].queue = views[v].queue,
         \A v \in ViewIds : \A i \in DOMAIN views'[v].inbox : views'[v].inbox[i] \in Matches',
         manager' \in [Player -> ViewIds \cup {NoView}],
         listener' \in [Player -> ViewIds \cup {NoView}]
  PROVE  ViewsTyped' /\ ViewIds' = ViewIds
<1>1. Len(views) \in Nat /\ ViewIds = 1..Len(views)
  BY ViewFacts
<1>2. views' \in Seq(View) /\ Len(views') = Len(views)
  BY <1>1
<1>3. ViewIds' = ViewIds
  BY <1>2 DEF ViewIds
<1> QED BY <1>2, <1>3 DEF ViewsTyped

\* The same when views are only silenced or deactivated.
LEMMA ViewsQuiet ==
  ASSUME ViewsTyped, views' \in [ViewIds -> View],
         \A v \in ViewIds : views'[v].queue = views[v].queue /\ views'[v].inbox = views[v].inbox,
         Matches \subseteq Matches',
         manager' \in [Player -> ViewIds \cup {NoView}],
         listener' \in [Player -> ViewIds \cup {NoView}]
  PROVE  ViewsTyped' /\ ViewIds' = ViewIds
<1>1. \A v \in ViewIds : \A i \in DOMAIN views'[v].inbox : views'[v].inbox[i] \in Matches'
  BY DEF ViewsTyped
<1> QED BY <1>1, ViewsChange

LEMMA UnsubscribedTyped ==
  ASSUME ViewsTyped, NEW ps
  PROVE  Unsubscribed(ps) \in [Player -> ViewIds \cup {NoView}]
  BY DEF Unsubscribed, ViewsTyped

LEMMA UnregisterTyped ==
  ASSUME Typed, NEW ps \in SUBSET Player, Unregister(ps), Matches \subseteq Matches'
  PROVE  ViewsTyped' /\ ViewIds' = ViewIds
<1>0. ViewsTyped
  BY DEF Typed
<1>1. ASSUME NEW v \in ViewIds
      PROVE  /\ views'[v] \in View
             /\ views'[v].queue = views[v].queue /\ views'[v].inbox = views[v].inbox
  <2>1. views[v] \in View
    BY <1>0, ViewFacts
  <2>2. views'[v] = IF v \in CurrentViews(ps) THEN Deactivated(views[v]) ELSE views[v]
    BY DEF Unregister
  <2> QED BY <2>1, <2>2, Silencing
<1>2. views' \in [ViewIds -> View]
  <2>1. views' = [v \in ViewIds |-> views'[v]]
    BY DEF Unregister
  <2> QED BY <1>1, <2>1
<1>3. manager' \in [Player -> ViewIds \cup {NoView}]
  BY <1>0 DEF Unregister, ViewsTyped
<1>4. listener' \in [Player -> ViewIds \cup {NoView}]
  BY <1>0, UnsubscribedTyped DEF Unregister
<1> QED BY <1>0, <1>1, <1>2, <1>3, <1>4, ViewsQuiet

LEMMA EnqueueTyped ==
  ASSUME Typed, NEW p \in Player, NEW races \in Selection, Enqueue(p, races),
         Matches' = Matches
  PROVE  /\ players' \in Seq(Entry) /\ ViewsTyped' /\ Len(views') = Len(views) + 1
         /\ \A v \in ViewIds : views'[v] = IF v = manager[p] THEN Deactivated(views[v]) ELSE views[v]
         /\ views'[Len(views) + 1] =
              [NewView(p) EXCEPT !.queue = IF listener[p] = NoView THEN Len(views) + 1 ELSE listener[p]]
         /\ views'[Len(views) + 1] \in View
<1> DEFINE new == Len(views) + 1
           old == manager[p]
           inherited == IF listener[p] = NoView THEN new ELSE listener[p]
           kept == [v \in ViewIds |-> IF v = old THEN Deactivated(views[v]) ELSE views[v]]
           view == [NewView(p) EXCEPT !.queue = inherited]
<1>0. /\ ViewsTyped /\ players \in Seq(Entry)
      /\ Len(views) \in Nat /\ ViewIds = 1..Len(views) /\ new \in Nat
      /\ \A v \in ViewIds : views[v] \in View
      /\ listener[p] \in ViewIds \cup {NoView} /\ old \in ViewIds \cup {NoView}
  <2>1. ViewsTyped /\ players \in Seq(Entry)
    BY DEF Typed, QueueTyped
  <2> QED BY <2>1, ViewFacts DEF ViewsTyped
<1>1. /\ players' = Append(players, [id |-> new, who |-> p, races |-> races, wait |-> 0])
      /\ views' = Append(kept, view)
      /\ manager' = [manager EXCEPT ![p] = new]
      /\ listener' = [listener EXCEPT ![p] =
                        IF old # NoView /\ Listens(old) THEN NoView ELSE inherited]
  BY DEF Enqueue
<1>2. players' \in Seq(Entry)
  <2>1. [id |-> new, who |-> p, races |-> races, wait |-> 0] \in Entry
    BY <1>0 DEF Entry
  <2> QED BY <1>0, <1>1, <2>1, AppendProperties
<1>3. inherited \in 1..new /\ inherited \in Nat
  BY <1>0
<1>4. view \in View /\ view.queue = inherited /\ view.inbox = <<>>
  <2> DEFINE empty == <<>>
  <2>1. NewView(p) = [who |-> p, task |-> "waiting", inbox |-> empty, queue |-> NoView,
                      ready |-> FALSE, active |-> TRUE, expired |-> FALSE]
    BY DEF NewView
  <2>3. empty \in Seq(Nat)
    OBVIOUS
  <2> HIDE DEF inherited, empty
  <2>4. NewView(p) \in View
    BY <2>1, <2>3 DEF View, NoView
  <2>5. NewView(p).inbox = empty
    BY <2>1
  <2>6. view \in View /\ view.queue = inherited /\ view.inbox = NewView(p).inbox
    BY <1>3, <2>4 DEF View
  <2> QED BY <2>5, <2>6 DEF empty
<1>5. ASSUME NEW v \in ViewIds
      PROVE  kept[v] \in View /\ kept[v].queue = views[v].queue /\ kept[v].inbox = views[v].inbox
  <2>1. views[v] \in View
    BY <1>0
  <2>2. kept[v] = IF v = old THEN Deactivated(views[v]) ELSE views[v]
    OBVIOUS
  <2> HIDE DEF kept
  <2> QED BY <2>1, <2>2, Silencing
<1>6. kept \in Seq(View) /\ Len(kept) = Len(views)
  <2>1. kept \in [1..Len(views) -> View]
    <3>1. kept = [v \in 1..Len(views) |-> kept[v]]
      BY <1>0
    <3> HIDE DEF kept
    <3> QED BY <1>0, <1>5, <3>1
  <2> HIDE DEF kept
  <2> QED BY <1>0, <2>1
<1>7. \A v \in ViewIds : kept[v] = IF v = old THEN Deactivated(views[v]) ELSE views[v]
  OBVIOUS
<1> HIDE DEF view, kept
<1>8. /\ views' \in Seq(View) /\ Len(views') = new
      /\ \A v \in 1..Len(views) : views'[v] = kept[v]
      /\ views'[new] = view
  BY <1>1, <1>4, <1>6, AppendProperties
<1>9. ViewIds' = 1..new
  BY <1>8 DEF ViewIds
<1>10. \A v \in 1..new : /\ views'[v].queue \in 1..new
                         /\ \A i \in DOMAIN views'[v].inbox : views'[v].inbox[i] \in Matches
  <2> SUFFICES ASSUME NEW v \in 1..new
               PROVE  /\ views'[v].queue \in 1..new
                      /\ \A i \in DOMAIN views'[v].inbox : views'[v].inbox[i] \in Matches
    OBVIOUS
  <2>1. CASE v = new
    <3>1. views'[v].queue = inherited /\ DOMAIN views'[v].inbox = {}
      BY <1>4, <1>8, <2>1
    <3> QED BY <1>3, <3>1
  <2>2. CASE v # new
    <3>1. v \in ViewIds
      BY <1>0, <2>2
    <3>2. views'[v].queue = views[v].queue /\ views'[v].inbox = views[v].inbox
      BY <1>0, <1>5, <1>8, <3>1
    <3>3. /\ views[v].queue \in ViewIds
          /\ \A i \in DOMAIN views[v].inbox : views[v].inbox[i] \in Matches
      BY <1>0, <3>1 DEF ViewsTyped
    <3> QED BY <1>0, <3>2, <3>3
  <2> QED BY <2>1, <2>2
<1>11. manager' \in [Player -> 1..new \cup {NoView}] /\ listener' \in [Player -> 1..new \cup {NoView}]
  <2>1. /\ manager \in [Player -> 1..new \cup {NoView}]
        /\ listener \in [Player -> 1..new \cup {NoView}]
    BY <1>0 DEF ViewsTyped
  <2>2. new \in 1..new
    BY <1>0
  <2> HIDE DEF new, inherited, old
  <2> QED BY <1>1, <1>3, <2>1, <2>2
<1>12. ViewsTyped'
  BY <1>8, <1>9, <1>10, <1>11 DEF ViewsTyped
<1> QED BY <1>0, <1>2, <1>4, <1>7, <1>8, <1>12 DEF view

LEMMA OneViewChanges ==
  ASSUME ViewsTyped, NEW v \in ViewIds, NEW view \in View,
         views' = [views EXCEPT ![v] = view],
         view.queue = views[v].queue, view.inbox = views[v].inbox, Matches \subseteq Matches',
         manager' \in [Player -> ViewIds \cup {NoView}],
         listener' \in [Player -> ViewIds \cup {NoView}]
  PROVE  ViewsTyped' /\ ViewIds' = ViewIds
<1>1. DOMAIN views = ViewIds /\ \A u \in ViewIds : views[u] \in View
  BY ViewFacts
<1>2. views' \in [ViewIds -> View]
  <2>1. views \in [ViewIds -> View]
    BY <1>1 DEF ViewsTyped
  <2> QED BY <2>1
<1>3. \A u \in ViewIds : views'[u].queue = views[u].queue /\ views'[u].inbox = views[u].inbox
  BY <1>1
<1> QED BY <1>2, <1>3, ViewsQuiet

LEMMA MatchFacts ==
  ASSUME matches \in Seq(Match)
  PROVE  /\ Len(matches) \in Nat /\ Matches = 1..Len(matches) /\ DOMAIN matches = Matches
         /\ \A m \in Matches : /\ matches[m] \in Match
                               /\ matches[m].bw \in Player /\ matches[m].sc2 \in Player
                               /\ PlayersOf(m) \subseteq Player
<1>1. Len(matches) \in Nat /\ Matches = 1..Len(matches) /\ DOMAIN matches = Matches
  BY DEF Matches
<1>2. ASSUME NEW m \in Matches PROVE matches[m] \in Match
  BY <1>1
<1>3. \A m \in Matches : matches[m].bw \in Player /\ matches[m].sc2 \in Player
  BY <1>2 DEF Match
<1> QED BY <1>1, <1>2, <1>3 DEF PlayersOf

\* Players who join or are enqueued.
LEMMA TypedEnqueue ==
  ASSUME Typed, NEW p \in Player, NEW races \in Selection, Enqueue(p, races),
         rating' = rating, wave' = wave, matches' = matches, events' \subseteq Events,
         state' \in [Player -> {Idle, Queueing} \cup Matches],
         joining' \in [Player -> SUBSET Selection]
  PROVE  Typed'
<1>1. Matches' = Matches
  BY DEF Matches
<1>2. players' \in Seq(Entry) /\ ViewsTyped'
  BY <1>1, EnqueueTyped
<1> QED BY <1>1, <1>2 DEF Typed, QueueTyped, RatingsTyped, WaveTyped

LEMMA TypedPlayerStep ==
  ASSUME Typed, NEW p \in Player, PlayerStep(p)
  PROVE  Typed'
<1> USE DEF Typed, QueueTyped, RatingsTyped
<1>1. CASE JoinQueue(p)
  <2>1. PICK races \in RaceChoices : Enqueue(p, races)
    BY <1>1 DEF JoinQueue
  <2>2. races \in Selection
    BY RaceChoicesAssumption DEF RaceChoicesAssumption
  <2>3. /\ rating' = rating /\ wave' = wave /\ matches' = matches /\ joining' = joining
        /\ events' = events /\ state' = [state EXCEPT ![p] = Queueing]
    BY <1>1 DEF JoinQueue
  <2>4. state' \in [Player -> {Idle, Queueing} \cup Matches]
    BY <2>3
  <2> QED BY <2>1, <2>2, <2>3, <2>4, TypedEnqueue
<1>2. CASE JoinNewRace(p)
  <2>1. PICK races \in RaceChoices : joining' = [joining EXCEPT ![p] = {races}]
    BY <1>2 DEF JoinNewRace
  <2>2. joining' \in [Player -> SUBSET Selection]
    BY <2>1, RaceChoicesAssumption DEF RaceChoicesAssumption
  <2>3. events' \subseteq Events
    BY <1>2 DEF JoinNewRace, Happens
  <2>4. state' \in [Player -> {Idle, Queueing} \cup Matches]
    BY <1>2 DEF JoinNewRace
  <2>5. UNCHANGED <<players, rating, views, manager, listener, wave, matches>>
    BY <1>2 DEF JoinNewRace, viewVars
  <2> QED BY <2>2, <2>3, <2>4, <2>5 DEF ViewsTyped, WaveTyped, ViewIds, Matches
<1>3. CASE AddPlayer(p)
  <2>1. PICK races \in joining[p] : Enqueue(p, races)
    BY <1>3 DEF AddPlayer
  <2>2. races \in Selection
    OBVIOUS
  <2>3. /\ rating' = rating /\ wave' = wave /\ matches' = matches /\ state' = state
        /\ events' = events /\ joining' = [joining EXCEPT ![p] = {}]
    BY <1>3 DEF AddPlayer
  <2>4. joining' \in [Player -> SUBSET Selection]
    BY <2>3
  <2> QED BY <2>1, <2>2, <2>3, <2>4, TypedEnqueue
<1>4. CASE JoinFails(p)
  <2>1. /\ joining' \in [Player -> SUBSET Selection]
        /\ state' \in [Player -> {Idle, Queueing} \cup Matches]
    BY <1>4 DEF JoinFails
  <2>2. UNCHANGED <<players, rating, views, manager, listener, wave, matches, events>>
    BY <1>4 DEF JoinFails, viewVars
  <2> QED BY <2>1, <2>2 DEF ViewsTyped, WaveTyped, ViewIds, Matches
<1> QED BY <1>1, <1>2, <1>3, <1>4 DEF PlayerStep

LEMMA TypedLeave ==
  ASSUME Typed, NEW v \in ViewIds, Leave(v), NEW view \in View,
         views' = [views EXCEPT ![v] = view],
         view.queue = views[v].queue, view.inbox = views[v].inbox, events' \subseteq Events
  PROVE  Typed'
<1> DEFINE p == views[v].who
<1>1. ViewsTyped /\ players \in Seq(Entry) /\ p \in Player
  BY ViewFacts DEF Typed, QueueTyped
<1>2. /\ players' = Without({p})
      /\ state' = [state EXCEPT ![p] = StateAfterLeaving(p)]
      /\ listener' = Unsubscribed({p})
      /\ manager' = [manager EXCEPT ![p] = IF manager[p] = v THEN NoView ELSE manager[p]]
      /\ UNCHANGED <<rating, joining, wave, matches>>
  BY DEF Leave
<1> HIDE DEF p
<1>3. players' \in Seq(Entry)
  BY <1>1, <1>2, WithoutOK
<1>4. state' \in [Player -> {Idle, Queueing} \cup Matches] /\ Matches' = Matches
  BY <1>1, <1>2 DEF Typed, QueueTyped, StateAfterLeaving, Matches
<1>5. listener' \in [Player -> ViewIds \cup {NoView}]
  BY <1>1, <1>2, UnsubscribedTyped
<1>6. manager' \in [Player -> ViewIds \cup {NoView}]
  BY <1>1, <1>2 DEF ViewsTyped
<1>7. ViewsTyped'
  BY <1>1, <1>4, <1>5, <1>6, OneViewChanges
<1> QED BY <1>2, <1>3, <1>4, <1>7 DEF Typed, QueueTyped, RatingsTyped, WaveTyped

\* Steps that change one view, perhaps who is registered and subscribed.
LEMMA TypedOneView ==
  ASSUME Typed, NEW v \in ViewIds, NEW view \in View,
         views' = [views EXCEPT ![v] = view],
         view.queue = views[v].queue, view.inbox = views[v].inbox,
         manager' \in [Player -> ViewIds \cup {NoView}],
         listener' \in [Player -> ViewIds \cup {NoView}],
         UNCHANGED <<queueVars, wave, matches>>, events' \subseteq Events
  PROVE  Typed'
<1>1. Matches' = Matches
  BY DEF Matches
<1>2. ViewsTyped'
  BY <1>1, OneViewChanges DEF Typed
<1> QED BY <1>1, <1>2 DEF Typed, QueueTyped, RatingsTyped, WaveTyped, queueVars

LEMMA TypedViewStep ==
  ASSUME Typed, NEW v \in ViewIds, ViewStep(v)
  PROVE  Typed'
<1> DEFINE p == views[v].who
<1>1. /\ ViewsTyped /\ views[v] \in View /\ p \in Player /\ events \subseteq Events
      /\ manager \in [Player -> ViewIds \cup {NoView}]
      /\ listener \in [Player -> ViewIds \cup {NoView}]
  <2>1. ViewsTyped /\ events \subseteq Events
    BY DEF Typed
  <2> QED BY <2>1, ViewFacts DEF ViewsTyped
<1> HIDE DEF p
<1>2. CASE ViewReady(v)
  <2> DEFINE view == [views[v] EXCEPT !.ready = TRUE]
  <2>1. views' = [views EXCEPT ![v] = view]
    BY <1>2 DEF ViewReady
  <2>2. view \in View /\ view.queue = views[v].queue /\ view.inbox = views[v].inbox
    BY <1>1 DEF View
  <2>3. UNCHANGED <<queueVars, manager, listener, wave, matches, events>>
    BY <1>2 DEF ViewReady
  <2> HIDE DEF view
  <2> QED BY <1>1, <2>1, <2>2, <2>3, TypedOneView
<1>3. CASE CancelQueue(v)
  <2>1. Leave(v) /\ views' = [views EXCEPT ![v] = Deactivated(views[v])] /\ events' \subseteq Events
    BY <1>1, <1>3 DEF CancelQueue, Happens
  <2>2. /\ Deactivated(views[v]) \in View
        /\ Deactivated(views[v]).queue = views[v].queue /\ Deactivated(views[v]).inbox = views[v].inbox
    BY <1>1, Silencing
  <2> QED BY <2>1, <2>2, TypedLeave
<1>4. CASE ViewTimesOut(v)
  <2> DEFINE quiet == IF manager[views[v].who] = v THEN Deactivated(views[v]) ELSE Silenced(views[v])
             view == [quiet EXCEPT !.expired = TRUE]
  <2>1. Leave(v) /\ views' = [views EXCEPT ![v] = view] /\ events' \subseteq Events
    BY <1>1, <1>4 DEF ViewTimesOut, Happens
  <2>2. quiet \in View /\ quiet.queue = views[v].queue /\ quiet.inbox = views[v].inbox
    BY <1>1, Silencing
  <2> HIDE DEF quiet
  <2>3. view \in View /\ view.queue = views[v].queue /\ view.inbox = views[v].inbox
    BY <2>2 DEF View
  <2> HIDE DEF view
  <2> QED BY <2>1, <2>3, TypedLeave
<1>5. CASE ListenerWakes(v)
  <2> DEFINE q == views[v].queue
             task == IF views[v].ready THEN "showing" ELSE "ended"
             woken == [views EXCEPT ![q].inbox = Tail(@)]
  <2>1. /\ views[q].inbox # <<>>
        /\ views' = [woken EXCEPT ![v].task = task]
        /\ listener' = IF views[v].ready THEN listener ELSE Unsubscribed({views[v].who})
        /\ UNCHANGED <<queueVars, manager, wave, matches, events>>
    BY <1>5 DEF ListenerWakes
  <2>2. q \in ViewIds /\ views[q] \in View /\ DOMAIN views = ViewIds
    BY <1>1, ViewFacts DEF ViewsTyped
  <2>3. /\ Tail(views[q].inbox) \in Seq(Nat)
        /\ \A i \in DOMAIN Tail(views[q].inbox) : Tail(views[q].inbox)[i] \in Matches
    <3>1. views[q].inbox \in Seq(Nat)
      BY <2>2 DEF View
    <3>2. views[q].inbox \in Seq(Matches)
      <4>1. \A i \in DOMAIN views[q].inbox : views[q].inbox[i] \in Matches
        BY <1>1, <2>2 DEF ViewsTyped
      <4>2. Len(views[q].inbox) \in Nat /\ DOMAIN views[q].inbox = 1..Len(views[q].inbox)
        BY <3>1, LenProperties
      <4>3. views[q].inbox = [i \in 1..Len(views[q].inbox) |-> views[q].inbox[i]]
        BY <3>1, <4>2
      <4> HIDE DEF q
      <4> QED BY <4>1, <4>2, <4>3
    <3>3. Tail(views[q].inbox) \in Seq(Nat)
      BY <2>1, <3>1, HeadTailProperties
    <3>4. Tail(views[q].inbox) \in Seq(Matches)
      BY <2>1, <3>2, HeadTailProperties
    <3>5. \A i \in DOMAIN Tail(views[q].inbox) : Tail(views[q].inbox)[i] \in Matches
      <4> DEFINE rest == Tail(views[q].inbox)
      <4>1. rest \in Seq(Matches)
        BY <3>4
      <4> HIDE DEF rest
      <4>2. \A i \in DOMAIN rest : rest[i] \in Matches
        BY <4>1
      <4> QED BY <4>2 DEF rest
    <3> QED BY <3>3, <3>5
  <2>4. ASSUME NEW u \in ViewIds
        PROVE  /\ views'[u] \in View /\ views'[u].queue = views[u].queue
               /\ views'[u].inbox = IF u = q THEN Tail(views[q].inbox) ELSE views[u].inbox
    <3>1. views[u] \in View /\ task \in {"showing", "ended"}
      BY <1>1, ViewFacts
    <3> DEFINE w == IF u = q THEN [views[u] EXCEPT !.inbox = Tail(views[q].inbox)] ELSE views[u]
    <3>2. /\ w \in View /\ w.queue = views[u].queue
          /\ w.inbox = IF u = q THEN Tail(views[q].inbox) ELSE views[u].inbox
      <4> HIDE DEF q
      <4> QED BY <2>3, <3>1 DEF View
    <3>3. woken[u] = w /\ DOMAIN woken = ViewIds
      BY <2>2
    <3> HIDE DEF q, task, w, woken
    <3>4. views'[u] = IF u = v THEN [w EXCEPT !.task = task] ELSE w
      BY <2>1, <3>3
    <3>5. [w EXCEPT !.task = task] \in View
      BY <3>1, <3>2 DEF View
    <3>6. [w EXCEPT !.task = task].queue = w.queue /\ [w EXCEPT !.task = task].inbox = w.inbox
      BY <3>2 DEF View
    <3> QED BY <3>2, <3>4, <3>5, <3>6
  <2>5. views' \in [ViewIds -> View]
    <3>1. DOMAIN views' = ViewIds /\ views' = [u \in DOMAIN views' |-> views'[u]]
      BY <2>1, <2>2
    <3> QED BY <2>4, <3>1
  <2>6. Matches' = Matches
    BY <2>1 DEF Matches
  <2>7. \A u \in ViewIds : \A i \in DOMAIN views'[u].inbox : views'[u].inbox[i] \in Matches'
    <3> SUFFICES ASSUME NEW u \in ViewIds
                 PROVE  \A i \in DOMAIN views'[u].inbox : views'[u].inbox[i] \in Matches
      BY <2>6
    <3>1. \A i \in DOMAIN views[u].inbox : views[u].inbox[i] \in Matches
      BY <1>1 DEF ViewsTyped
    <3> HIDE DEF q
    <3> QED BY <2>3, <2>4, <3>1
  <2>8. manager' \in [Player -> ViewIds \cup {NoView}] /\ listener' \in [Player -> ViewIds \cup {NoView}]
    BY <1>1, <2>1, UnsubscribedTyped
  <2>9. ViewsTyped'
    BY <1>1, <2>4, <2>5, <2>7, <2>8, ViewsChange
  <2> QED BY <2>1, <2>6, <2>9 DEF Typed, QueueTyped, RatingsTyped, WaveTyped, queueVars
<1>6. CASE ShowMatch(v)
  <2> DEFINE view == [views[v] EXCEPT !.task = "shown", !.active = FALSE]
  <2>1. /\ views' = [views EXCEPT ![v].task = "shown", ![v].active = FALSE]
        /\ manager' = [manager EXCEPT ![p] = IF manager[p] = v THEN NoView ELSE manager[p]]
        /\ listener' = Unsubscribed({p})
        /\ UNCHANGED <<queueVars, wave, matches, events>>
    BY <1>6 DEF ShowMatch, p
  <2>2. view \in View /\ view.queue = views[v].queue /\ view.inbox = views[v].inbox
    BY <1>1 DEF View
  <2>3. views' = [views EXCEPT ![v] = view]
    BY <2>1
  <2>4. manager' \in [Player -> ViewIds \cup {NoView}] /\ listener' \in [Player -> ViewIds \cup {NoView}]
    BY <1>1, <2>1, UnsubscribedTyped
  <2> HIDE DEF view
  <2> QED BY <1>1, <2>1, <2>2, <2>3, <2>4, TypedOneView
<1>7. CASE ShowFails(v)
  <2> DEFINE view == [views[v] EXCEPT !.task = "ended"]
  <2>1. /\ views' = [views EXCEPT ![v].task = "ended"]
        /\ listener' = Unsubscribed({p})
        /\ UNCHANGED <<queueVars, manager, wave, matches>> /\ events' \subseteq Events
    BY <1>1, <1>7 DEF ShowFails, p, Happens
  <2>2. view \in View /\ view.queue = views[v].queue /\ view.inbox = views[v].inbox
    BY <1>1 DEF View
  <2>3. views' = [views EXCEPT ![v] = view]
    BY <2>1
  <2>4. manager' \in [Player -> ViewIds \cup {NoView}] /\ listener' \in [Player -> ViewIds \cup {NoView}]
    BY <1>1, <2>1, UnsubscribedTyped
  <2> HIDE DEF view
  <2> QED BY <1>1, <2>1, <2>2, <2>3, <2>4, TypedOneView
<1> QED BY <1>2, <1>3, <1>4, <1>5, <1>6, <1>7 DEF ViewStep

\* Players who are freed.
LEMMA TypedFree ==
  ASSUME Typed, NEW ps \in SUBSET Player, Free(ps), players' \in Seq(Entry), matches' \in Seq(Match),
         Matches' = Matches, UNCHANGED <<rating, joining, wave>>, events' \subseteq Events
  PROVE  Typed' /\ ViewIds' = ViewIds
<1>1. Unregister(ps) /\ state' = [p \in Player |-> IF p \in ps THEN Idle ELSE state[p]]
  BY DEF Free
<1>2. ViewsTyped' /\ ViewIds' = ViewIds
  BY <1>1, UnregisterTyped
<1>3. state' \in [Player -> {Idle, Queueing} \cup Matches]
  BY <1>1 DEF Typed, QueueTyped
<1> QED BY <1>2, <1>3 DEF Typed, QueueTyped, RatingsTyped, WaveTyped

LEMMA TypedMatchStep ==
  ASSUME Typed, NEW m \in Matches, MatchStep(m)
  PROVE  Typed'
<1>1. /\ matches \in Seq(Match) /\ PlayersOf(m) \in SUBSET Player /\ matches[m] \in Match
      /\ DOMAIN matches = Matches /\ players \in Seq(Entry) /\ events \subseteq Events /\ ViewsTyped
  BY MatchFacts DEF Typed, QueueTyped
<1>2. ASSUME NEW match \in Match, matches' = [matches EXCEPT ![m] = match]
      PROVE  matches' \in Seq(Match) /\ Matches' = Matches
  <2>1. m \in 1..Len(matches)
    BY DEF Matches
  <2>2. matches' \in Seq(Match) /\ Len(matches') = Len(matches)
    BY <1>1, <1>2, <2>1, ExceptSeq
  <2> QED BY <2>2 DEF Matches
<1>3. CASE Publish(m)
  <2> DEFINE match == [matches[m] EXCEPT !.published = TRUE]
  <2>1. /\ matches' = [matches EXCEPT ![m].published = TRUE]
        /\ views' = [v \in ViewIds |->
                       IF v \in Told(m) THEN [views[v] EXCEPT !.inbox = Append(@, m)] ELSE views[v]]
        /\ UNCHANGED <<queueVars, manager, listener, wave, events>>
    BY <1>3 DEF Publish
  <2>2. match \in Match /\ matches' = [matches EXCEPT ![m] = match]
    BY <1>1, <2>1 DEF Match
  <2>3. matches' \in Seq(Match) /\ Matches' = Matches
    BY <1>2, <2>2
  <2>4. ASSUME NEW v \in ViewIds
        PROVE  /\ views'[v] \in View /\ views'[v].queue = views[v].queue
               /\ views'[v].inbox \in {views[v].inbox, Append(views[v].inbox, m)}
    <3>1. views[v] \in View
      BY <1>1, ViewFacts
    <3>2. Append(views[v].inbox, m) \in Seq(Nat)
      <4>1. views[v].inbox \in Seq(Nat) /\ m \in Nat
        BY <3>1 DEF View, Matches
      <4> QED BY <4>1, AppendProperties
    <3>3. views'[v] \in {views[v], [views[v] EXCEPT !.inbox = Append(views[v].inbox, m)]}
      BY <2>1
    <3> QED BY <3>1, <3>2, <3>3 DEF View
  <2>5. views' \in [ViewIds -> View]
    <3>1. views' = [v \in ViewIds |-> views'[v]]
      BY <2>1
    <3> QED BY <2>4, <3>1
  <2>6. ASSUME NEW v \in ViewIds
        PROVE  \A i \in DOMAIN views'[v].inbox : views'[v].inbox[i] \in Matches'
    <3>1. \A i \in DOMAIN views[v].inbox : views[v].inbox[i] \in Matches
      BY <1>1 DEF ViewsTyped
    <3>2. views[v].inbox \in Seq(Nat) /\ m \in Nat
      <4>1. views[v] \in View
        BY <1>1, ViewFacts
      <4> QED BY <4>1 DEF View, Matches
    <3>3. \A i \in DOMAIN Append(views[v].inbox, m) : Append(views[v].inbox, m)[i] \in Matches
      <4> DEFINE s == views[v].inbox
      <4>1. /\ Len(s) \in Nat /\ DOMAIN s = 1..Len(s)
            /\ DOMAIN Append(s, m) = 1..(Len(s) + 1)
            /\ \A i \in 1..Len(s) : Append(s, m)[i] = s[i]
            /\ Append(s, m)[Len(s) + 1] = m
        BY <3>2, AppendProperties, LenProperties
      <4> HIDE DEF s
      <4>2. \A i \in 1..(Len(s) + 1) : i \in 1..Len(s) \/ i = Len(s) + 1
        BY <4>1
      <4>3. \A i \in DOMAIN s : s[i] \in Matches
        BY <3>1 DEF s
      <4>4. \A i \in DOMAIN Append(s, m) : Append(s, m)[i] \in Matches
        BY <4>1, <4>2, <4>3
      <4> QED BY <4>4 DEF s
    <3> QED BY <2>3, <2>4, <3>1, <3>3
  <2>7. manager' \in [Player -> ViewIds \cup {NoView}] /\ listener' \in [Player -> ViewIds \cup {NoView}]
    BY <1>1, <2>1 DEF ViewsTyped
  <2>8. ViewsTyped'
    BY <1>1, <2>4, <2>5, <2>6, <2>7, ViewsChange
  <2> QED BY <2>1, <2>3, <2>8 DEF Typed, QueueTyped, RatingsTyped, WaveTyped, queueVars
<1>4. CASE EndMatch(m)
  <2> DEFINE match == [matches[m] EXCEPT !.open = FALSE]
  <2>1. /\ matches' = [matches EXCEPT ![m].open = FALSE]
        /\ Free(PlayersOf(m)) /\ UNCHANGED <<players, rating, joining, wave>> /\ events' \subseteq Events
    BY <1>1, <1>4 DEF EndMatch, Happens
  <2>2. match \in Match /\ matches' = [matches EXCEPT ![m] = match]
    BY <1>1, <2>1 DEF Match
  <2>3. matches' \in Seq(Match) /\ Matches' = Matches
    BY <1>2, <2>2
  <2> QED BY <1>1, <2>1, <2>3, TypedFree
<1>5. CASE ReleaseAgain(m)
  <2>1. /\ Free(PlayersOf(m)) /\ UNCHANGED <<players, rating, joining, wave, matches>>
        /\ events' \subseteq Events
    BY <1>1, <1>5 DEF ReleaseAgain, Happens
  <2>2. Matches' = Matches
    BY <2>1 DEF Matches
  <2> QED BY <1>1, <2>1, <2>2, TypedFree
<1> QED BY <1>3, <1>4, <1>5 DEF MatchStep

LEMMA TypedAdminStep ==
  ASSUME Typed, AdminStep
  PROVE  Typed'
<1>1. players \in Seq(Entry) /\ matches \in Seq(Match) /\ events \subseteq Events
  BY DEF Typed, QueueTyped
<1>2. ASSUME NEW ps \in SUBSET Player, ClearQueueLock(ps), events' \subseteq Events PROVE Typed'
  <2>1. players' = Without(ps) /\ Free(ps) /\ UNCHANGED <<rating, joining, wave, matches>>
    BY <1>2 DEF ClearQueueLock
  <2>2. players' \in Seq(Entry) /\ Matches' = Matches
    BY <1>1, <2>1, WithoutOK DEF Matches
  <2> QED BY <1>1, <1>2, <2>1, <2>2, TypedFree
<1>3. CASE AdminClearQueue
  <2>1. ClearQueueLock(WhoOf(players)) /\ events' \subseteq Events
    BY <1>1, <1>3 DEF AdminClearQueue, EmergencyClearQueue, Happens
  <2>2. WhoOf(players) \in SUBSET Player
    <3>1. \A i \in DOMAIN players : players[i] \in Entry
      BY <1>1
    <3>2. \A i \in DOMAIN players : players[i].who \in Player
      BY <3>1 DEF Entry
    <3> QED BY <3>2 DEF WhoOf
  <2> QED BY <1>2, <2>1, <2>2
<1>4. ASSUME NEW p \in Player, AdminRemoveQueue(p) PROVE Typed'
  <2>1. ClearQueueLock({p}) /\ events' \subseteq Events
    BY <1>1, <1>4 DEF AdminRemoveQueue, ForceRemoveFromQueue, Happens
  <2> QED BY <1>2, <2>1
<1>5. ASSUME NEW p \in Player, AdminUnblockQueue(p) PROVE Typed'
  <2>1. /\ state' = [state EXCEPT ![p] = Idle] /\ events' \subseteq Events
        /\ UNCHANGED <<players, rating, joining, views, manager, listener, wave, matches>>
    BY <1>1, <1>5 DEF AdminUnblockQueue, UnblockPlayerState, viewVars, Happens
  <2>2. state' \in [Player -> {Idle, Queueing} \cup Matches]
    BY <2>1 DEF Typed, QueueTyped
  <2> QED BY <2>1, <2>2 DEF Typed, QueueTyped, RatingsTyped, ViewsTyped, WaveTyped, ViewIds, Matches
<1> QED BY <1>3, <1>4, <1>5 DEF AdminStep

\* The wave is about to create a match of p.
IsPlanned(p) == \E i \in DOMAIN wave.todo : p \in {wave.todo[i].bw.who, wave.todo[i].sc2.who}
IsListed(p) == \E i \in DOMAIN players : players[i].who = p

\* A wave that begins plans sound pairs of players who are in the queue.
LEMMA WaveBegins ==
  ASSUME Typed, BeginWave
  PROVE  /\ players' \in Seq(Entry) /\ DOMAIN players' = DOMAIN players
         /\ \A i \in DOMAIN players : players'[i].who = players[i].who
         /\ WaveTyped' /\ wave'.matched = {}
         /\ PairsAreSound'
         /\ \A p : IsPlanned(p)' => IsListed(p)
<1> DEFINE waited == [i \in DOMAIN players |-> [players[i] EXCEPT !.wait = @ + 1]]
           plan == Plan(waited)
           none == <<>>
<1>1. players \in Seq(Entry) /\ RatingsTyped /\ rating' = rating /\ players' = waited
  BY DEF Typed, QueueTyped, BeginWave
<1>2. ASSUME NEW i \in DOMAIN players
      PROVE  waited[i] \in Entry /\ waited[i].who = players[i].who
  <2>1. players[i] \in Entry
    BY <1>1
  <2> QED BY <2>1 DEF Entry
<1>3. waited \in Seq(Entry) /\ DOMAIN waited = DOMAIN players
  <2>1. Len(players) \in Nat /\ DOMAIN players = 1..Len(players)
    BY <1>1
  <2>2. waited = [i \in 1..Len(players) |-> waited[i]]
    BY <2>1
  <2> HIDE DEF waited
  <2> QED BY <1>2, <2>1, <2>2
<1> HIDE DEF waited, none
<1>4. /\ NoWave.todo = none /\ NoWave.matched = {} /\ NoWave.task = "sleeping"
      /\ NoWave = [task |-> "sleeping", todo |-> none, matched |-> {}]
  BY DEF NoWave, none
<1>5. \/ wave' = [NoWave EXCEPT !.task = "dead"]
      \/ wave' = NoWave
      \/ /\ Overlap(Equalized(waited)) = {} /\ plan # none
         /\ wave' = [NoWave EXCEPT !.task = "creating", !.todo = plan]
  <2> DEFINE A == Overlap(Equalized(waited)) # {}
             B == Len(waited) >= 2 /\ plan # none
             a == [NoWave EXCEPT !.task = "dead"]
             b == [NoWave EXCEPT !.task = "creating", !.todo = plan]
  <2>1. wave' = IF A THEN a ELSE IF B THEN b ELSE NoWave
    BY DEF BeginWave, waited, none
  <2>2. (~A => Overlap(Equalized(waited)) = {}) /\ (B => plan # none)
    OBVIOUS
  <2> HIDE DEF A, B
  <2> QED BY <2>1, <2>2
<1>6. none \in Seq(Pair) /\ DOMAIN none = {}
  BY DEF none
<1>7. CASE wave' = [NoWave EXCEPT !.task = "dead"] \/ wave' = NoWave
  <2>0. PICK t \in {"dead", "sleeping"} : wave' = [task |-> t, todo |-> none, matched |-> {}]
    BY <1>4, <1>7
  <2>1. wave'.todo = none /\ wave'.matched = {} /\ wave'.task \in {"dead", "sleeping"} /\ wave' \in Wave
    BY <1>6, <2>0 DEF Wave
  <2>2. WaveTyped'
    BY <2>1 DEF WaveTyped, none
  <2>3. PairsAreSound' /\ \A p : ~IsPlanned(p)'
    BY <1>6, <2>1 DEF PairsAreSound, IsPlanned
  <2> QED BY <1>1, <1>2, <1>3, <2>1, <2>2, <2>3
<1>8. CASE /\ Overlap(Equalized(waited)) = {} /\ plan # none
           /\ wave' = [NoWave EXCEPT !.task = "creating", !.todo = plan]
  <2>1. PICK A, B \in SUBSET Entry :
           /\ \A e \in A : "bw" \in e.races
           /\ \A e \in B : "sc2" \in e.races
           /\ \A e \in A, f \in B : e.who # f.who
           /\ \A e \in A \cup B : \E i \in DOMAIN waited : e = waited[i]
           /\ plan \in Pairings(A, B)
    BY <1>1, <1>3, <1>8, PlanOK
  <2>p. PICK todo : todo = plan
    OBVIOUS
  <2> HIDE DEF plan
  <2>2. todo \in Seq(Fitting(A, B)) /\ EachOnce(todo)
    BY <2>1, <2>p DEF Pairings
  <2>3. ASSUME NEW i \in DOMAIN todo
        PROVE  todo[i].bw \in A /\ todo[i].sc2 \in B /\ InWindow(todo[i]) /\ todo[i] \in Pair
    <3>1. todo[i] \in Fitting(A, B)
      BY <2>2
    <3> QED BY <3>1 DEF Fitting, Pair
  <2>4. todo \in Seq(Pair)
    <3>1. Len(todo) \in Nat /\ DOMAIN todo = 1..Len(todo) /\ todo = [i \in 1..Len(todo) |-> todo[i]]
      BY <2>2
    <3>2. \A i \in 1..Len(todo) : todo[i] \in Pair
      BY <2>3, <3>1
    <3> QED BY <3>1, <3>2
  <2>5. wave'.todo = todo /\ wave'.matched = {} /\ wave'.task = "creating" /\ wave' \in Wave
    BY <1>4, <1>8, <2>4, <2>p DEF Wave
  <2>6. WaveTyped'
    BY <1>8, <2>5, <2>p DEF WaveTyped, none
  <2>7. \A i \in DOMAIN todo : InWindow(todo[i])'
    BY <1>1, <2>3 DEF InWindow, Diff, Bw, Sc2
  <2>8. \A i \in DOMAIN todo : "bw" \in todo[i].bw.races /\ "sc2" \in todo[i].sc2.races
    BY <2>1, <2>3
  <2>9. \A i, j \in DOMAIN todo : todo[i].bw.who # todo[j].sc2.who
    BY <2>1, <2>3
  <2>10. PairsAreSound'
    BY <2>2, <2>5, <2>7, <2>8, <2>9 DEF PairsAreSound, EachOnce
  <2>11. \A p : IsPlanned(p)' => IsListed(p)
    <3> SUFFICES ASSUME NEW p, IsPlanned(p)' PROVE IsListed(p)
      OBVIOUS
    <3>1. PICK i \in DOMAIN todo : p \in {todo[i].bw.who, todo[i].sc2.who}
      BY <2>5 DEF IsPlanned
    <3>2. \E j \in DOMAIN waited : p = waited[j].who
      BY <2>1, <2>3, <3>1
    <3> QED BY <1>2, <1>3, <3>2 DEF IsListed
  <2> QED BY <1>1, <1>2, <1>3, <2>5, <2>6, <2>10, <2>11
<1> QED BY <1>5, <1>7, <1>8

\* Creating a match takes the first pair and leaves the others.
LEMMA MatchCreated ==
  ASSUME Typed, CreateMatch
  PROVE  LET pair == Head(wave.todo)
             both == {pair.bw.who, pair.sc2.who}
         IN  /\ pair = wave.todo[1] /\ both \subseteq Player
             /\ 1 \in DOMAIN wave.todo
             /\ matches' \in Seq(Match) /\ Len(matches') = Len(matches) + 1 /\ Len(matches) \in Nat
             /\ \A m \in Matches : matches'[m] = matches[m]
             /\ matches'[Len(matches) + 1] = [bw |-> pair.bw.who, sc2 |-> pair.sc2.who,
                                              open |-> TRUE, published |-> FALSE]
             /\ WaveTyped'
             /\ wave'.task = "creating" => /\ wave'.matched = wave.matched \cup both
                                           /\ wave'.todo = Tail(wave.todo)
             /\ wave'.task # "creating" => wave' = NoWave
             /\ players' = IF wave'.task = "creating" THEN players ELSE Without(wave.matched \cup both)
             /\ \A i \in DOMAIN wave'.todo : i + 1 \in DOMAIN wave.todo /\ wave'.todo[i] = wave.todo[i + 1]
             /\ DOMAIN wave'.todo \subseteq Nat \ {0}
<1> DEFINE pair == Head(wave.todo)
           both == {pair.bw.who, pair.sc2.who}
           todo == wave.todo
           last == Len(todo) = 1
           match == [bw |-> pair.bw.who, sc2 |-> pair.sc2.who, open |-> TRUE, published |-> FALSE]
<1>1. /\ wave \in Wave /\ wave.task = "creating" /\ todo # <<>> /\ todo \in Seq(Pair)
      /\ matches \in Seq(Match) /\ Len(matches) \in Nat /\ wave.matched \subseteq Player
  BY DEF Typed, WaveTyped, Wave, CreateMatch, Creating
<1>2. /\ matches' = Append(matches, match)
      /\ players' = IF last THEN Without(wave.matched \cup both) ELSE players
      /\ wave' = IF last THEN NoWave
                  ELSE [wave EXCEPT !.todo = Tail(@), !.matched = wave.matched \cup both]
  BY DEF CreateMatch, MatchedWith
<1> HIDE DEF todo, last
<1>3. /\ Len(todo) \in Nat \ {0} /\ DOMAIN todo = 1..Len(todo) /\ pair = todo[1] /\ pair \in Pair
      /\ Tail(todo) \in Seq(Pair) /\ Len(Tail(todo)) = Len(todo) - 1
      /\ \A i \in 1..Len(Tail(todo)) : Tail(todo)[i] = todo[i + 1]
  <2>1. Len(todo) \in Nat \ {0} /\ DOMAIN todo = 1..Len(todo)
    BY <1>1, EmptySeq, LenProperties
  <2>2. pair = todo[1]
    BY <1>1, <2>1 DEF todo
  <2>3. todo[1] \in Pair
    BY <1>1, <2>1
  <2> HIDE DEF pair
  <2> QED BY <1>1, <2>1, <2>2, <2>3, HeadTailProperties
<1> HIDE DEF pair
<1>4. pair.bw.who \in Player /\ pair.sc2.who \in Player
  BY <1>3 DEF Pair, Entry
<1>5. /\ matches' \in Seq(Match) /\ Len(matches') = Len(matches) + 1
      /\ \A m \in Matches : matches'[m] = matches[m]
      /\ matches'[Len(matches) + 1] = match
  <2>1. match \in Match
    BY <1>4 DEF Match
  <2> HIDE DEF match
  <2> QED BY <1>1, <1>2, <2>1, AppendProperties DEF Matches
<1> HIDE DEF match
<1>6. CASE last
  <2>1. wave' = NoWave /\ players' = Without(wave.matched \cup both)
    BY <1>2, <1>6
  <2>2. NoWave.task = "sleeping" /\ NoWave.todo = <<>> /\ NoWave.matched = {} /\ NoWave \in Wave
    <3>1. <<>> \in Seq(Pair)
      OBVIOUS
    <3> QED BY <3>1 DEF NoWave, Wave
  <2>3. WaveTyped'
    BY <2>1, <2>2 DEF WaveTyped
  <2>4. wave'.task = "sleeping" /\ DOMAIN wave'.todo = {}
    BY <2>1, <2>2
  <2> QED BY <1>3, <1>4, <1>5, <2>1, <2>3, <2>4 DEF match, pair, todo
<1>7. CASE ~last
  <2>1. wave' = [wave EXCEPT !.todo = Tail(todo), !.matched = wave.matched \cup both] /\ players' = players
    BY <1>2, <1>7 DEF todo
  <2>2. /\ wave'.task = "creating" /\ wave'.todo = Tail(todo)
        /\ wave'.matched = wave.matched \cup both /\ wave' \in Wave
    BY <1>1, <1>3, <1>4, <2>1 DEF Wave
  <2>3. Len(Tail(todo)) \in Nat \ {0} /\ DOMAIN Tail(todo) = 1..Len(Tail(todo)) /\ Tail(todo) # <<>>
    <3>1. Len(todo) # 1
      BY <1>7 DEF last
    <3>2. Len(Tail(todo)) \in Nat \ {0}
      BY <1>3, <3>1
    <3>3. DOMAIN Tail(todo) = 1..Len(Tail(todo))
      BY <1>3, LenProperties
    <3> QED BY <3>2, <3>3, <1>3, EmptySeq
  <2>4. WaveTyped'
    BY <2>2, <2>3 DEF WaveTyped
  <2>5. \A i \in DOMAIN wave'.todo : /\ i + 1 \in DOMAIN todo /\ wave'.todo[i] = todo[i + 1]
                                    /\ i \in Nat \ {0}
    BY <1>3, <2>2, <2>3
  <2> QED BY <1>3, <1>4, <1>5, <2>1, <2>2, <2>4, <2>5 DEF match, pair, todo
<1> QED BY <1>6, <1>7

LEMMA TypedWaveStep ==
  ASSUME Typed, WaveStep
  PROVE  Typed'
<1>0. ViewsTyped /\ QueueTyped /\ matches \in Seq(Match) /\ events \subseteq Events
  BY DEF Typed
<1>1. CASE BeginWave
  <2>1. players' \in Seq(Entry) /\ WaveTyped'
    BY <1>1, WaveBegins
  <2>2. UNCHANGED <<rating, state, joining, views, manager, listener, matches, events>>
    BY <1>1 DEF BeginWave, viewVars
  <2> QED BY <1>0, <2>1, <2>2 DEF Typed, QueueTyped, RatingsTyped, ViewsTyped, ViewIds, Matches
<1>2. CASE CreateMatch
  <2> DEFINE both == {Head(wave.todo).bw.who, Head(wave.todo).sc2.who}
  <2>1. /\ matches' \in Seq(Match) /\ Len(matches') = Len(matches) + 1 /\ Len(matches) \in Nat
        /\ WaveTyped'
        /\ players' = IF wave'.task = "creating" THEN players ELSE Without(wave.matched \cup both)
    BY <1>2, MatchCreated
  <2>2. /\ UNCHANGED <<rating, joining, views, manager, listener, events>>
        /\ state' = [p \in Player |-> IF p \in both THEN Len(matches) + 1 ELSE state[p]]
    BY <1>2 DEF CreateMatch, viewVars, NextMatch
  <2> HIDE DEF both
  <2>3. players' \in Seq(Entry)
    BY <1>0, <2>1, WithoutOK DEF QueueTyped
  <2>4. Matches \subseteq Matches' /\ Len(matches) + 1 \in Matches'
    BY <2>1 DEF Matches
  <2>5. state' \in [Player -> {Idle, Queueing} \cup Matches']
    BY <1>0, <2>2, <2>4 DEF QueueTyped
  <2>6. ViewsTyped'
    <3>1. views \in Seq(View) /\ ViewIds' = ViewIds
      BY <1>0, <2>2 DEF ViewsTyped, ViewIds
    <3>2. \A v \in ViewIds : \A i \in DOMAIN views[v].inbox : views[v].inbox[i] \in Matches'
      BY <1>0, <2>4 DEF ViewsTyped
    <3> QED BY <1>0, <2>2, <3>1, <3>2 DEF ViewsTyped
  <2> QED BY <1>0, <2>1, <2>2, <2>3, <2>5, <2>6 DEF Typed, QueueTyped, RatingsTyped
<1>3. CASE CreateFails
  <2>1. /\ wave' = [NoWave EXCEPT !.task = "dead"] /\ events' \subseteq Events
        /\ UNCHANGED <<queueVars, viewVars, matches>>
    BY <1>0, <1>3 DEF CreateFails, Happens
  <2>2. <<>> \in Seq(Pair)
    OBVIOUS
  <2>3. WaveTyped'
    BY <2>1, <2>2 DEF WaveTyped, Wave, NoWave
  <2> QED BY <1>0, <2>1, <2>3 DEF Typed, QueueTyped, RatingsTyped, ViewsTyped, ViewIds, Matches, queueVars, viewVars
<1> QED BY <1>1, <1>2, <1>3 DEF WaveStep

\* The queue to begin with: everybody in it once, everybody searching.
LEMMA InitFacts ==
  ASSUME Init
  PROVE  /\ RatingsTyped /\ players \in Seq(Entry)
         /\ \A i, j \in DOMAIN players : players[i].who = players[j].who => i = j
         /\ views \in Seq(View) /\ DOMAIN views = DOMAIN players /\ ViewIds = DOMAIN players
         /\ \A v \in ViewIds : /\ views[v].who = players[v].who /\ views[v].queue = v
                               /\ views[v].inbox = <<>> /\ views[v].active
                               /\ views[v].task = "waiting"
         /\ \A p \in Player : \/ IsListed(p) /\ manager[p] \in ViewIds /\ players[manager[p]].who = p
                              \/ ~IsListed(p) /\ manager[p] = NoView
         /\ \A p \in Player : state[p] = IF IsListed(p) THEN Queueing ELSE Idle
<1>1. PICK start \in Starts :
        /\ rating = start.rating
        /\ players = [i \in DOMAIN start.queue |->
                        [id |-> i, who |-> start.queue[i],
                         races |-> start.races[start.queue[i]], wait |-> 0]]
  BY DEF Init
<1>2. /\ start.queue \in Seq(Player) /\ IsInjective(start.queue)
      /\ start.rating \in [Player -> [bw : Nat, sc2 : Nat]]
      /\ start.races \in [Player -> Selection]
  BY StartsAssumption DEF StartsAssumption
<1>3. PICK n \in Nat : DOMAIN start.queue = 1..n
  BY <1>2
<1>4. ASSUME NEW i \in 1..n
      PROVE  players[i] \in Entry /\ players[i].who = start.queue[i]
  <2>1. start.queue[i] \in Player
    BY <1>2, <1>3
  <2>2. start.races[start.queue[i]] \in Selection
    BY <1>2, <2>1
  <2> QED BY <1>1, <1>3, <2>1, <2>2 DEF Entry
<1>5. players = [i \in 1..n |-> players[i]]
  BY <1>1, <1>3
<1>6. players \in Seq(Entry) /\ DOMAIN players = 1..n
  BY <1>4, <1>5
<1>7. \A i, j \in DOMAIN players : players[i].who = players[j].who => i = j
  BY <1>2, <1>3, <1>4, <1>6 DEF IsInjective
<1>8. views = [i \in DOMAIN players |-> [NewView(players[i].who) EXCEPT !.ready = TRUE, !.queue = i]]
  BY DEF Init
<1>9. ASSUME NEW v \in 1..n
      PROVE  /\ views[v] \in View
             /\ views[v].who = players[v].who /\ views[v].queue = v
             /\ views[v].inbox = <<>> /\ views[v].active /\ views[v].task = "waiting"
  <2> DEFINE p == players[v].who
             empty == <<>>
             view == [who |-> p, task |-> "waiting", inbox |-> empty, queue |-> NoView,
                      ready |-> FALSE, active |-> TRUE, expired |-> FALSE]
  <2>1. p \in Player
    BY <1>4 DEF Entry
  <2>2. NewView(p) = view
    BY DEF NewView
  <2>3. empty \in Seq(Nat)
    OBVIOUS
  <2>4. views[v] = [NewView(p) EXCEPT !.ready = TRUE, !.queue = v]
    BY <1>6, <1>8
  <2> HIDE DEF p, empty
  <2>5. NewView(p) \in View /\ v \in Nat
    BY <2>1, <2>2, <2>3 DEF View, NoView
  <2>6. NewView(p).who = p /\ NewView(p).inbox = empty /\ NewView(p).active /\ NewView(p).task = "waiting"
    BY <2>2
  <2>7. /\ views[v] \in View
        /\ views[v].who = p /\ views[v].queue = v
        /\ views[v].inbox = empty /\ views[v].active /\ views[v].task = "waiting"
    BY <2>4, <2>5, <2>6 DEF View
  <2> QED BY <2>7 DEF p, empty
<1>10. views \in Seq(View) /\ DOMAIN views = 1..n /\ ViewIds = 1..n
  <2>1. views = [v \in 1..n |-> views[v]]
    BY <1>6, <1>8
  <2>2. views \in Seq(View) /\ DOMAIN views = 1..n
    BY <1>9, <2>1
  <2> QED BY <2>2 DEF ViewIds
<1>11. ASSUME NEW p \in Player
       PROVE  /\ \/ IsListed(p) /\ manager[p] \in ViewIds /\ players[manager[p]].who = p
                 \/ ~IsListed(p) /\ manager[p] = NoView
              /\ state[p] = IF IsListed(p) THEN Queueing ELSE Idle
  <2>1. IsQueued(p) <=> IsListed(p)
    BY <1>6, EntriesOf DEF IsListed
  <2>2. manager[p] = IF IsQueued(p) THEN CHOOSE i \in DOMAIN players : players[i].who = p ELSE NoView
    BY DEF Init
  <2>3. p \in WhoOf(players) <=> IsListed(p)
    BY DEF WhoOf, IsListed
  <2>4. state[p] = IF p \in WhoOf(players) THEN Queueing ELSE Idle
    BY DEF Init
  <2> QED BY <1>6, <1>10, <2>1, <2>2, <2>3, <2>4 DEF IsListed
<1>12. RatingsTyped
  BY <1>1, <1>2 DEF RatingsTyped
<1> QED BY <1>6, <1>7, <1>9, <1>10, <1>11, <1>12

LEMMA TypedInit == Init => Typed
<1> SUFFICES ASSUME Init PROVE Typed
  OBVIOUS
<1>1. /\ RatingsTyped /\ players \in Seq(Entry) /\ views \in Seq(View)
      /\ \A v \in ViewIds : views[v].queue = v /\ views[v].inbox = <<>>
      /\ \A p \in Player : manager[p] \in ViewIds \cup {NoView}
      /\ \A p \in Player : state[p] \in {Idle, Queueing}
  BY InitFacts
<1>2. /\ joining = [p \in Player |-> {}] /\ listener = manager /\ wave = NoWave
      /\ matches = <<>> /\ events = {}
  BY DEF Init
<1>3. state \in [Player -> {Idle, Queueing} \cup Matches]
  <2>1. state = [p \in Player |-> state[p]]
    BY DEF Init
  <2> QED BY <1>1, <2>1
<1>4. manager \in [Player -> ViewIds \cup {NoView}]
  <2> DEFINE M(p) == IF IsQueued(p) THEN CHOOSE i \in DOMAIN players : players[i].who = p ELSE NoView
  <2>0. manager = [p \in Player |-> M(p)]
    BY DEF Init
  <2>1. manager = [p \in Player |-> manager[p]]
    <3> HIDE DEF M
    <3> QED BY <2>0
  <2> QED BY <1>1, <2>1
<1>5. QueueTyped
  BY <1>1, <1>2, <1>3 DEF QueueTyped
<1>6. \A v \in ViewIds : DOMAIN views[v].inbox = {}
  BY <1>1
<1>7. ViewsTyped
  BY <1>1, <1>2, <1>4, <1>6 DEF ViewsTyped
<1>8. WaveTyped
  <2>1. <<>> \in Seq(Pair)
    OBVIOUS
  <2> QED BY <1>2, <2>1 DEF WaveTyped, Wave, NoWave
<1>9. matches \in Seq(Match)
  BY <1>2
<1> QED BY <1>2, <1>5, <1>7, <1>8, <1>9 DEF Typed

LEMMA TypedNext == Typed /\ [Next]_vars => Typed'
<1> SUFFICES ASSUME Typed, [Next]_vars PROVE Typed'
  OBVIOUS
<1>1. ASSUME NEW p \in Player, PlayerStep(p) PROVE Typed'
  BY <1>1, TypedPlayerStep
<1>2. ASSUME NEW v \in ViewIds, ViewStep(v) PROVE Typed'
  BY <1>2, TypedViewStep
<1>3. ASSUME WaveStep PROVE Typed'
  BY <1>3, TypedWaveStep
<1>4. ASSUME NEW m \in Matches, MatchStep(m) PROVE Typed'
  BY <1>4, TypedMatchStep
<1>5. ASSUME AdminStep PROVE Typed'
  BY <1>5, TypedAdminStep
<1>6. ASSUME UNCHANGED vars PROVE Typed'
  BY <1>6 DEF vars, queueVars, viewVars, Typed, QueueTyped, RatingsTyped, ViewsTyped, WaveTyped,
              ViewIds, Matches
<1> QED BY <1>1, <1>2, <1>3, <1>4, <1>5, <1>6 DEF Next

\* Every variable keeps its type.
THEOREM TypeCorrect == Spec => []TypeOK
<1>1. Init => Typed
  BY TypedInit
<1>2. Typed /\ [Next]_vars => Typed'
  BY TypedNext
<1>3. Typed => TypeOK
  BY TypedImplies
<1> QED BY <1>1, <1>2, <1>3, PTL DEF Spec

LEMMA WindowKept ==
  ASSUME rating' = rating, NEW CONSTANT pair, InWindow(pair)
  PROVE  InWindow(pair)'
  BY DEF InWindow, Diff, Bw, Sc2

\* Only a wave that begins and the creation of a match touch the pairs.
LEMMA PairsKept ==
  ASSUME PairsAreSound, wave' = wave, rating' = rating
  PROVE  PairsAreSound'
<1>1. PICK todo : todo = wave.todo
  OBVIOUS
<1>2. \A i \in DOMAIN todo : InWindow(todo[i])
  BY <1>1 DEF PairsAreSound
<1>3. \A i \in DOMAIN todo : InWindow(todo[i])'
  BY <1>2, WindowKept
<1> QED BY <1>1, <1>3 DEF PairsAreSound

LEMMA PairsNext == Typed /\ PairsAreSound /\ [Next]_vars => PairsAreSound'
<1> SUFFICES ASSUME Typed, PairsAreSound, [Next]_vars PROVE PairsAreSound'
  OBVIOUS
<1>1. ASSUME BeginWave PROVE PairsAreSound'
  BY <1>1, WaveBegins
<1>2. ASSUME CreateMatch PROVE PairsAreSound'
  <2>1. PICK todo : todo = wave'.todo
    OBVIOUS
  <2>2. /\ \A i \in DOMAIN todo : i + 1 \in DOMAIN wave.todo /\ todo[i] = wave.todo[i + 1]
        /\ DOMAIN todo \subseteq Nat \ {0}
    BY <1>2, <2>1, MatchCreated
  <2>3. ASSUME NEW i \in DOMAIN todo
        PROVE  "bw" \in todo[i].bw.races /\ "sc2" \in todo[i].sc2.races /\ InWindow(todo[i])'
    <3>1. "bw" \in todo[i].bw.races /\ "sc2" \in todo[i].sc2.races /\ InWindow(todo[i])
      BY <2>2 DEF PairsAreSound
    <3>2. rating' = rating
      BY <1>2 DEF CreateMatch
    <3> QED BY <3>1, <3>2, WindowKept
  <2>4. ASSUME NEW i \in DOMAIN todo, NEW j \in DOMAIN todo
        PROVE  /\ todo[i].bw.who # todo[j].sc2.who
               /\ i # j => todo[i].bw.who # todo[j].bw.who /\ todo[i].sc2.who # todo[j].sc2.who
    <3>1. /\ i + 1 \in DOMAIN wave.todo /\ todo[i] = wave.todo[i + 1]
          /\ j + 1 \in DOMAIN wave.todo /\ todo[j] = wave.todo[j + 1]
          /\ i # j => i + 1 # j + 1
      BY <2>2
    <3> QED BY <3>1 DEF PairsAreSound
  <2> QED BY <2>1, <2>3, <2>4 DEF PairsAreSound
<1>3. ASSUME CreateFails PROVE PairsAreSound'
  <2>1. DOMAIN wave'.todo = {}
    BY <1>3 DEF CreateFails, NoWave
  <2> QED BY <2>1 DEF PairsAreSound
<1>4. ASSUME NEW p \in Player, PlayerStep(p) PROVE wave' = wave /\ rating' = rating
  BY <1>4 DEF PlayerStep, JoinQueue, JoinNewRace, AddPlayer, JoinFails
<1>5. ASSUME NEW v \in ViewIds, ViewStep(v) PROVE wave' = wave /\ rating' = rating
  BY <1>5 DEF ViewStep, ViewReady, CancelQueue, ViewTimesOut, ListenerWakes, ShowMatch, ShowFails,
              Leave, queueVars
<1>6. ASSUME NEW m \in Matches, MatchStep(m) PROVE wave' = wave /\ rating' = rating
  BY <1>6 DEF MatchStep, Publish, EndMatch, ReleaseAgain, queueVars
<1>7. ASSUME AdminStep PROVE wave' = wave /\ rating' = rating
  BY <1>7 DEF AdminStep, AdminClearQueue, EmergencyClearQueue, AdminRemoveQueue,
              ForceRemoveFromQueue, AdminUnblockQueue, UnblockPlayerState, ClearQueueLock
<1>8. ASSUME UNCHANGED vars PROVE wave' = wave /\ rating' = rating
  BY <1>8 DEF vars, queueVars
<1> QED BY <1>1, <1>2, <1>3, <1>4, <1>5, <1>6, <1>7, <1>8, PairsKept DEF Next, WaveStep

\* What a wave is about to create is sound.
THEOREM PairsSound == Spec => []PairsAreSound
<1>1. Init => Typed /\ PairsAreSound
  <2> SUFFICES ASSUME Init PROVE PairsAreSound
    BY TypedInit
  <2>0. \A s : s = <<>> => DOMAIN s = {}
    OBVIOUS
  <2>1. wave.todo = <<>>
    BY DEF Init, NoWave
  <2> QED BY <2>0, <2>1 DEF PairsAreSound
<1>2. Typed /\ PairsAreSound /\ [Next]_vars => Typed' /\ PairsAreSound'
  BY TypedNext, PairsNext
<1> QED BY <1>1, <1>2, PTL DEF Spec

-----------------------------------------------------------------------------
(* One place for every player                                                *)

\* What sets a player idle behind the queue's back.
QueueKinds == {"newRace", "releaseAgain", "earlyEnd", "unblock", "forceRemove", "clearQueue"}

NobodyWaitsToJoin == \A p \in Player : joining[p] = {}
FailureEndsWaves == "createFails" \in events => wave.task = "dead"
ListedOnce ==
  "createFails" \notin events =>
    /\ \A i, j \in DOMAIN players : players[i].who = players[j].who => i = j
    /\ \A p \in Player : IsListed(p) => state[p] = Queueing \/ p \in wave.matched
QueueingListed == \A p \in Player : state[p] = Queueing => IsListed(p)
WaveAgrees == \A p \in Player : /\ p \in wave.matched => InMatch(p)
                                /\ IsPlanned(p) => ~InMatch(p)
StateTells == \A p \in Player : InMatch(p) => matches[state[p]].open /\ p \in PlayersOf(state[p])
MatchesTell == \A m \in Matches : matches[m].open => \A p \in PlayersOf(m) : state[p] = m

\* The inductive invariant of the queue and the matches.
QueueAgrees ==
  /\ NobodyWaitsToJoin
  /\ FailureEndsWaves
  /\ ListedOnce
  /\ QueueingListed
  /\ WaveAgrees
  /\ StateTells
  /\ MatchesTell

LEMMA EventsGrow == Typed /\ [Next]_vars => events \subseteq events'
<1> SUFFICES ASSUME Typed, [Next]_vars PROVE events \subseteq events'
  OBVIOUS
<1>0. \A kind : Happens(kind) => events \subseteq events'
  BY DEF Happens
<1> HIDE DEF Happens
<1>1. ASSUME NEW p \in Player, PlayerStep(p) PROVE events \subseteq events'
  BY <1>0, <1>1 DEF PlayerStep, JoinQueue, JoinNewRace, AddPlayer, JoinFails
<1>2. ASSUME NEW v \in ViewIds, ViewStep(v) PROVE events \subseteq events'
  BY <1>0, <1>2 DEF ViewStep, ViewReady, CancelQueue, ViewTimesOut, ListenerWakes, ShowMatch, ShowFails
<1>3. ASSUME WaveStep PROVE events \subseteq events'
  BY <1>0, <1>3 DEF WaveStep, BeginWave, CreateMatch, CreateFails
<1>4. ASSUME NEW m \in Matches, MatchStep(m) PROVE events \subseteq events'
  BY <1>0, <1>4 DEF MatchStep, Publish, EndMatch, ReleaseAgain
<1>5. ASSUME AdminStep PROVE events \subseteq events'
  BY <1>0, <1>5 DEF AdminStep, AdminClearQueue, AdminRemoveQueue, AdminUnblockQueue
<1>6. ASSUME UNCHANGED vars PROVE events \subseteq events'
  BY <1>6 DEF vars
<1> QED BY <1>1, <1>2, <1>3, <1>4, <1>5, <1>6 DEF Next

\* Steps that leave the queue, the states and the wave alone, and who plays
\* which match.
LEMMA AgreesQuiet ==
  ASSUME Typed, QueueAgrees, UNCHANGED <<players, state, joining, wave>>,
         Matches' = Matches,
         \A m \in Matches : /\ matches'[m].open = matches[m].open
                            /\ matches'[m].bw = matches[m].bw /\ matches'[m].sc2 = matches[m].sc2,
         "createFails" \in events' => "createFails" \in events,
         "createFails" \in events => "createFails" \in events'
  PROVE  QueueAgrees'
<1>1. \A m \in Matches : PlayersOf(m)' = PlayersOf(m)
  <2>1. ASSUME NEW CONSTANT m, m \in Matches PROVE PlayersOf(m)' = PlayersOf(m)
    BY <2>1 DEF PlayersOf
  <2> QED BY <2>1
<1>2. StateTells'
  <2> SUFFICES ASSUME NEW CONSTANT p \in Player, InMatch(p)'
               PROVE  (matches[state[p]].open /\ p \in PlayersOf(state[p]))'
    BY DEF StateTells
  <2>1. InMatch(p) /\ state'[p] = state[p]
    BY DEF InMatch
  <2>2. state[p] \in Matches
    BY <2>1 DEF Typed, QueueTyped, InMatch, Idle, Queueing
  <2>3. matches[state[p]].open /\ p \in PlayersOf(state[p])
    BY <2>1 DEF QueueAgrees, StateTells
  <2> QED BY <2>1, <2>2, <2>3 DEF PlayersOf
<1>3. MatchesTell'
  BY <1>1 DEF QueueAgrees, MatchesTell
<1>4. NobodyWaitsToJoin' /\ FailureEndsWaves' /\ ListedOnce' /\ QueueingListed' /\ WaveAgrees'
  BY DEF QueueAgrees, NobodyWaitsToJoin, FailureEndsWaves, ListedOnce, QueueingListed, WaveAgrees,
         IsListed, IsPlanned, InMatch
<1> QED BY <1>2, <1>3, <1>4 DEF QueueAgrees

\* A player who leaves the queue leaves no match and no wave.
LEMMA AgreesLeave ==
  ASSUME Typed, QueueAgrees, NEW v \in ViewIds, Leave(v),
         "createFails" \in events <=> "createFails" \in events'
  PROVE  QueueAgrees'
<1> DEFINE p == views[v].who
<1>1. /\ players' = Without({p}) /\ UNCHANGED <<joining, wave, matches>>
      /\ state' = [state EXCEPT ![p] = IF InMatch(p) THEN state[p] ELSE Idle]
  BY DEF Leave, StateAfterLeaving
<1>2. p \in Player /\ players \in Seq(Entry) /\ state \in [Player -> {Idle, Queueing} \cup Matches]
  BY ViewFacts DEF Typed, QueueTyped
<1>p. PICK who \in Player : who = p
  BY <1>2
<1> HIDE DEF p
<1>3. \A u \in Player : state'[u] = state[u] \/ (u = who /\ ~InMatch(u) /\ state'[u] = Idle)
  BY <1>1, <1>2, <1>p
<1>4. \A u \in Player : state[u] > 0 <=> state'[u] > 0
  BY <1>3 DEF InMatch, Idle
<1>5. \A u : IsListed(u)' <=> IsListed(u) /\ u # who
  <2>1. players' = Without({who})
    BY <1>1, <1>p
  <2>2. \A u : (\E i \in DOMAIN Without({who}) : Without({who})[i].who = u)
                 <=> u \notin {who} /\ \E i \in DOMAIN players : players[i].who = u
    BY <1>2, WithoutOK
  <2> QED BY <2>1, <2>2 DEF IsListed
<1>6. ListedOnce'
  <2> SUFFICES ASSUME "createFails" \notin events'
               PROVE  /\ \A i, j \in DOMAIN players' : players'[i].who = players'[j].who => i = j
                      /\ \A u \in Player : IsListed(u)' => state'[u] = Queueing \/ u \in wave'.matched
    BY DEF ListedOnce
  <2>1. /\ \A i, j \in DOMAIN players : players[i].who = players[j].who => i = j
        /\ \A u \in Player : IsListed(u) => state[u] = Queueing \/ u \in wave.matched
    BY DEF QueueAgrees, ListedOnce
  <2>2. \A i, j \in DOMAIN players' : players'[i].who = players'[j].who => i = j
    BY <1>1, <1>2, <2>1, WithoutOK
  <2> QED BY <1>1, <1>3, <1>5, <2>1, <2>2
<1>7. QueueingListed'
  <2>1. \A u \in Player : state'[u] = Queueing => state[u] = Queueing /\ u # who
    <3> SUFFICES ASSUME NEW u \in Player, state'[u] = Queueing PROVE state[u] = Queueing /\ u # who
      OBVIOUS
    <3>1. state'[who] # Queueing
      BY <1>1, <1>2, <1>p DEF InMatch, Idle, Queueing
    <3> QED BY <1>3, <3>1 DEF Idle, Queueing
  <2> QED BY <1>5, <2>1 DEF QueueAgrees, QueueingListed
<1>8. WaveAgrees'
  BY <1>1, <1>4 DEF QueueAgrees, WaveAgrees, InMatch, IsPlanned
<1>9. StateTells' /\ MatchesTell'
  <2>1. \A m \in Matches : \A u \in Player : state[u] = m => state'[u] = m
    <3>1. \A u \in Player : state[u] \in Matches => state[u] > 0
      BY MatchFacts DEF Typed
    <3> QED BY <1>3, <3>1 DEF InMatch
  <2>2. \A m \in Matches : PlayersOf(m) \subseteq Player
    BY MatchFacts DEF Typed
  <2>3. MatchesTell'
    BY <1>1, <2>1, <2>2 DEF QueueAgrees, MatchesTell, Matches, PlayersOf
  <2>4. \A u \in Player : state'[u] > 0 => state'[u] = state[u]
    BY <1>3 DEF Idle
  <2>5. StateTells'
    BY <1>1, <1>4, <2>4 DEF QueueAgrees, StateTells, InMatch, PlayersOf
  <2> QED BY <2>3, <2>5
<1> QED BY <1>1, <1>6, <1>7, <1>8, <1>9
        DEF QueueAgrees, NobodyWaitsToJoin, FailureEndsWaves

LEMMA AgreesJoin ==
  ASSUME Typed, QueueAgrees, NEW p \in Player, JoinQueue(p)
  PROVE  QueueAgrees'
<1>1. PICK races \in RaceChoices : Enqueue(p, races)
  BY DEF JoinQueue
<1>2. /\ state[p] = Idle /\ state' = [state EXCEPT ![p] = Queueing]
      /\ UNCHANGED <<joining, wave, matches, events>>
  BY DEF JoinQueue
<1>3. /\ players \in Seq(Entry) /\ state \in [Player -> {Idle, Queueing} \cup Matches]
      /\ matches \in Seq(Match)
  BY DEF Typed, QueueTyped
<1>4. PICK entry : entry.who = p /\ players' = Append(players, entry)
  BY <1>1 DEF Enqueue
<1>5. /\ Len(players) \in Nat /\ DOMAIN players = 1..Len(players)
      /\ DOMAIN players' = 1..(Len(players) + 1)
      /\ \A i \in DOMAIN players : players'[i] = players[i]
      /\ players'[Len(players) + 1] = entry
  BY <1>3, <1>4, AppendProperties
<1>6. \A i \in DOMAIN players' : i \in DOMAIN players \/ i = Len(players) + 1
  BY <1>5
<1>7. \A u : IsListed(u)' <=> IsListed(u) \/ u = p
  <2>1. Len(players) + 1 \in DOMAIN players' /\ DOMAIN players \subseteq DOMAIN players'
    BY <1>5
  <2> QED BY <1>4, <1>5, <1>6, <2>1 DEF IsListed
<1>8. \A u \in Player : state'[u] = IF u = p THEN Queueing ELSE state[u]
  BY <1>2, <1>3
<1>9. ListedOnce'
  <2> SUFFICES ASSUME "createFails" \notin events
               PROVE  /\ \A i, j \in DOMAIN players' : players'[i].who = players'[j].who => i = j
                      /\ \A u \in Player : IsListed(u)' => state'[u] = Queueing \/ u \in wave'.matched
    BY <1>2 DEF ListedOnce
  <2>1. /\ \A i, j \in DOMAIN players : players[i].who = players[j].who => i = j
        /\ \A u \in Player : IsListed(u) => state[u] = Queueing \/ u \in wave.matched
    BY DEF QueueAgrees, ListedOnce
  <2>2. ~IsListed(p)
    BY <1>2, <2>1 DEF QueueAgrees, WaveAgrees, InMatch, Idle, Queueing
  <2>3. \A i \in DOMAIN players : players[i].who # p
    BY <2>2 DEF IsListed
  <2>4. \A i, j \in DOMAIN players' : players'[i].who = players'[j].who => i = j
    BY <1>4, <1>5, <1>6, <2>1, <2>3
  <2> QED BY <1>2, <1>7, <1>8, <2>1, <2>4
<1>10. QueueingListed'
  BY <1>7, <1>8 DEF QueueAgrees, QueueingListed
<1>11. \A u \in Player : state'[u] > 0 <=> state[u] > 0
  BY <1>2, <1>8 DEF Idle, Queueing
<1>12. WaveAgrees'
  BY <1>2, <1>11 DEF QueueAgrees, WaveAgrees, InMatch, IsPlanned
<1>13. StateTells'
  <2>1. \A u \in Player : state'[u] > 0 => state'[u] = state[u]
    BY <1>8 DEF Queueing
  <2> QED BY <1>2, <1>11, <2>1 DEF QueueAgrees, StateTells, InMatch, PlayersOf
<1>14. MatchesTell'
  <2>1. \A m \in Matches : PlayersOf(m) \subseteq Player /\ m > 0
    BY <1>3, MatchFacts
  <2>2. \A m \in Matches : \A u \in Player : state[u] = m => state'[u] = m
    BY <1>2, <1>8, <2>1 DEF Idle
  <2> QED BY <1>2, <2>1, <2>2 DEF QueueAgrees, MatchesTell, Matches, PlayersOf
<1> QED BY <1>2, <1>9, <1>10, <1>12, <1>13, <1>14
        DEF QueueAgrees, NobodyWaitsToJoin, FailureEndsWaves

LEMMA AgreesBegin ==
  ASSUME Typed, QueueAgrees, BeginWave
  PROVE  QueueAgrees'
<1>1. /\ DOMAIN players' = DOMAIN players
      /\ \A i \in DOMAIN players : players'[i].who = players[i].who
      /\ wave'.matched = {}
      /\ \A p : IsPlanned(p)' => IsListed(p)
  BY WaveBegins
<1>2. /\ wave.task = "sleeping" /\ UNCHANGED <<state, joining, matches, events>>
  BY DEF BeginWave
<1>3. wave.matched = {} /\ "createFails" \notin events
  BY <1>2 DEF Typed, WaveTyped, QueueAgrees, FailureEndsWaves
<1>4. \A p : IsListed(p)' <=> IsListed(p)
  BY <1>1 DEF IsListed
<1>5. \A p \in Player : IsListed(p) => state[p] = Queueing
  BY <1>3 DEF QueueAgrees, ListedOnce
<1>6. FailureEndsWaves' /\ QueueingListed' /\ NobodyWaitsToJoin'
  BY <1>2, <1>3, <1>4 DEF QueueAgrees, FailureEndsWaves, QueueingListed, NobodyWaitsToJoin
<1>7. ListedOnce'
  <2>1. \A i, j \in DOMAIN players : players[i].who = players[j].who => i = j
    BY <1>3 DEF QueueAgrees, ListedOnce
  <2> QED BY <1>1, <1>2, <1>4, <1>5, <2>1 DEF ListedOnce
<1>8. WaveAgrees'
  BY <1>1, <1>2, <1>5 DEF WaveAgrees, InMatch, Queueing
<1>9. StateTells' /\ MatchesTell'
  BY <1>2 DEF QueueAgrees, StateTells, MatchesTell, InMatch, Matches, PlayersOf
<1> QED BY <1>6, <1>7, <1>8, <1>9 DEF QueueAgrees

LEMMA AgreesFails ==
  ASSUME Typed, QueueAgrees, CreateFails
  PROVE  QueueAgrees'
<1>1. /\ wave'.task = "dead" /\ wave'.matched = {} /\ DOMAIN wave'.todo = {}
      /\ UNCHANGED <<players, state, joining, matches>> /\ "createFails" \in events'
  BY DEF CreateFails, Happens, NoWave, queueVars
<1>2. FailureEndsWaves' /\ ListedOnce' /\ WaveAgrees'
  BY <1>1 DEF FailureEndsWaves, ListedOnce, WaveAgrees, IsPlanned
<1>3. NobodyWaitsToJoin' /\ QueueingListed' /\ StateTells' /\ MatchesTell'
  BY <1>1 DEF QueueAgrees, NobodyWaitsToJoin, QueueingListed, StateTells, MatchesTell,
              IsListed, InMatch, Matches, PlayersOf
<1> QED BY <1>2, <1>3 DEF QueueAgrees

\* A match that ends while no wave is creating others.
LEMMA AgreesEnd ==
  ASSUME Typed, QueueAgrees, NEW m \in Matches, EndMatch(m), wave.task # "creating"
  PROVE  QueueAgrees'
<1>1. /\ matches[m].open /\ matches' = [matches EXCEPT ![m].open = FALSE]
      /\ state' = [p \in Player |-> IF p \in PlayersOf(m) THEN Idle ELSE state[p]]
      /\ UNCHANGED <<players, joining, wave, events>>
  BY DEF EndMatch, Free
<1>2. matches \in Seq(Match) /\ DOMAIN matches = Matches /\ wave.matched = {} /\ PlayersOf(m) \subseteq Player
  BY MatchFacts DEF Typed, WaveTyped
<1>p. PICK ps \in SUBSET Player : ps = PlayersOf(m)
  BY <1>2
<1>3. \A p \in ps : state[p] = m /\ m > 0 /\ state'[p] = Idle
  BY <1>1, <1>2, <1>p DEF QueueAgrees, MatchesTell, Matches
<1>4. \A p \in Player : p \notin ps => state'[p] = state[p]
  BY <1>1, <1>p
<1>5. \A p \in Player : InMatch(p) => p \in PlayersOf(state[p])
  BY DEF QueueAgrees, StateTells
<1>6. \A p \in Player : state[p] = m => p \in ps
  BY <1>5, <1>p DEF InMatch, Matches
<1>7. /\ Matches' = Matches
      /\ \A n \in Matches : /\ n # m => matches'[n] = matches[n]
                            /\ matches'[n].bw = matches[n].bw /\ matches'[n].sc2 = matches[n].sc2
      /\ ~matches'[m].open
  BY <1>1, <1>2 DEF Matches
<1>8. \A p \in Player : IsListed(p)' <=> IsListed(p)
  BY <1>1 DEF IsListed
<1>9. ListedOnce'
  <2> SUFFICES ASSUME "createFails" \notin events
               PROVE  \A p \in Player : IsListed(p) => state'[p] = Queueing
    BY <1>1, <1>8 DEF QueueAgrees, ListedOnce
  <2>1. \A p \in Player : IsListed(p) => state[p] = Queueing
    BY <1>2 DEF QueueAgrees, ListedOnce
  <2> QED BY <1>3, <1>4, <2>1 DEF Queueing
<1>10. QueueingListed'
  BY <1>3, <1>4, <1>8 DEF QueueAgrees, QueueingListed, Idle, Queueing
<1>11. WaveAgrees'
  <2>1. DOMAIN wave.todo = {}
    <3>1. wave.todo = <<>>
      BY DEF Typed, WaveTyped
    <3>2. \A s : s = <<>> => DOMAIN s = {}
      OBVIOUS
    <3> QED BY <3>1, <3>2
  <2> QED BY <1>1, <1>2, <2>1 DEF WaveAgrees, IsPlanned
<1>12. StateTells'
  <2> SUFFICES ASSUME NEW CONSTANT p \in Player, InMatch(p)'
               PROVE  (matches[state[p]].open /\ p \in PlayersOf(state[p]))'
    BY DEF StateTells
  <2>1. p \notin ps /\ state'[p] = state[p] /\ InMatch(p)
    BY <1>3, <1>4 DEF InMatch, Idle
  <2>2. state[p] \in Matches /\ state[p] # m
    BY <1>6, <2>1 DEF Typed, QueueTyped, InMatch, Idle, Queueing
  <2>3. matches[state[p]].open /\ p \in PlayersOf(state[p])
    BY <2>1 DEF QueueAgrees, StateTells
  <2> QED BY <1>7, <2>1, <2>2, <2>3 DEF PlayersOf
<1>13. MatchesTell'
  <2> SUFFICES ASSUME NEW CONSTANT n, n \in Matches, matches'[n].open,
                      NEW CONSTANT p, p \in {matches'[n].bw, matches'[n].sc2}
               PROVE  state'[p] = n
    BY <1>7 DEF MatchesTell, PlayersOf
  <2>1. n # m /\ p \in PlayersOf(n) /\ matches[n].open
    BY <1>7 DEF PlayersOf
  <2>2. state[p] = n /\ p \in Player
    BY <1>2, <2>1, MatchFacts DEF QueueAgrees, MatchesTell
  <2> QED BY <1>3, <1>4, <2>1, <2>2
<1> QED BY <1>1, <1>9, <1>10, <1>11, <1>12, <1>13
        DEF QueueAgrees, NobodyWaitsToJoin, FailureEndsWaves

\* The two players of a new match are in no other, and nobody else is moved.
LEMMA AgreesCreate ==
  ASSUME Typed, PairsAreSound, QueueAgrees, CreateMatch
  PROVE  QueueAgrees'
<1> DEFINE pair == Head(wave.todo)
           new == Len(matches) + 1
<1>b. PICK both \in SUBSET Player : both = {pair.bw.who, pair.sc2.who}
  BY MatchCreated
<1>m. PICK match : match = [bw |-> pair.bw.who, sc2 |-> pair.sc2.who, open |-> TRUE, published |-> FALSE]
  OBVIOUS
<1>p. /\ both = {pair.bw.who, pair.sc2.who}
      /\ match = [bw |-> pair.bw.who, sc2 |-> pair.sc2.who, open |-> TRUE, published |-> FALSE]
  BY <1>b, <1>m
<1>1. /\ pair = wave.todo[1] /\ 1 \in DOMAIN wave.todo
      /\ matches' \in Seq(Match) /\ Len(matches') = new /\ Len(matches) \in Nat
      /\ \A m \in Matches : matches'[m] = matches[m]
      /\ matches'[new] = match
      /\ WaveTyped'
      /\ wave'.task = "creating" => wave'.matched = wave.matched \cup both
      /\ wave'.task # "creating" => wave' = NoWave
      /\ players' = IF wave'.task = "creating" THEN players ELSE Without(wave.matched \cup both)
      /\ \A i \in DOMAIN wave'.todo : i + 1 \in DOMAIN wave.todo /\ wave'.todo[i] = wave.todo[i + 1]
      /\ DOMAIN wave'.todo \subseteq Nat \ {0}
  BY <1>p, MatchCreated
<1>2. /\ state' = [p \in Player |-> IF p \in both THEN new ELSE state[p]]
      /\ UNCHANGED <<joining, events>> /\ wave.task = "creating"
  BY <1>p DEF CreateMatch, NextMatch, Creating
<1>3. /\ players \in Seq(Entry) /\ state \in [Player -> {Idle, Queueing} \cup Matches]
      /\ matches \in Seq(Match) /\ Matches = 1..Len(matches)
  BY MatchFacts DEF Typed, QueueTyped
<1>4. \A p \in both : IsPlanned(p) /\ p \in Player /\ ~InMatch(p)
  <2>1. \A p \in both : IsPlanned(p)
    BY <1>p, <1>1 DEF IsPlanned
  <2> QED BY <2>1 DEF QueueAgrees, WaveAgrees
<1>5. \A p : IsPlanned(p)' => IsPlanned(p) /\ p \notin both
  <2> SUFFICES ASSUME NEW p, IsPlanned(p)' PROVE IsPlanned(p) /\ p \notin both
    OBVIOUS
  <2>1. PICK i \in DOMAIN wave'.todo : p \in {wave'.todo[i].bw.who, wave'.todo[i].sc2.who}
    BY DEF IsPlanned
  <2>2. /\ i + 1 \in DOMAIN wave.todo /\ p \in {wave.todo[i + 1].bw.who, wave.todo[i + 1].sc2.who}
        /\ i + 1 # 1
    BY <1>1, <2>1
  <2>3. IsPlanned(p)
    BY <2>2 DEF IsPlanned
  <2>4. /\ wave.todo[i + 1].bw.who # wave.todo[1].bw.who /\ wave.todo[i + 1].bw.who # wave.todo[1].sc2.who
        /\ wave.todo[i + 1].sc2.who # wave.todo[1].bw.who /\ wave.todo[i + 1].sc2.who # wave.todo[1].sc2.who
    BY <1>1, <2>2 DEF PairsAreSound
  <2> HIDE DEF pair
  <2> QED BY <1>p, <1>1, <2>2, <2>3, <2>4
<1> HIDE DEF pair, new
<1>6. new \in Nat /\ new > 0 /\ new \notin Matches /\ Matches' = Matches \cup {new}
  BY <1>1, <1>3 DEF Matches, new
<1>7. /\ \A p \in both : state'[p] = new
      /\ \A p \in Player : p \notin both => state'[p] = state[p]
  BY <1>2
<1>8. /\ match.bw = pair.bw.who /\ match.sc2 = pair.sc2.who /\ match.open
  BY <1>p
<1>9. wave'.task # "creating" => wave'.matched = {} /\ DOMAIN wave'.todo = {}
  <2>1. \A s : s = <<>> => DOMAIN s = {}
    OBVIOUS
  <2> QED BY <1>1, <2>1 DEF NoWave
<1>10. ListedOnce'
  <2> SUFFICES ASSUME "createFails" \notin events
               PROVE  /\ \A i, j \in DOMAIN players' : players'[i].who = players'[j].who => i = j
                      /\ \A p \in Player : IsListed(p)' => state'[p] = Queueing \/ p \in wave'.matched
    BY <1>2 DEF ListedOnce
  <2>1. /\ \A i, j \in DOMAIN players : players[i].who = players[j].who => i = j
        /\ \A p \in Player : IsListed(p) => state[p] = Queueing \/ p \in wave.matched
    BY DEF QueueAgrees, ListedOnce
  <2>2. CASE wave'.task = "creating"
    BY <1>1, <1>7, <2>1, <2>2 DEF IsListed
  <2>3. CASE wave'.task # "creating"
    <3> DEFINE gone == wave.matched \cup both
    <3>1. players' = Without(gone)
      BY <1>1, <2>3
    <3> HIDE DEF gone
    <3>2. /\ \A i, j \in DOMAIN players' : players'[i].who = players'[j].who => i = j
          /\ \A p : IsListed(p)' <=> p \notin gone /\ IsListed(p)
      <4>1. \A p : (\E i \in DOMAIN Without(gone) : Without(gone)[i].who = p)
                     <=> p \notin gone /\ \E i \in DOMAIN players : players[i].who = p
        BY <1>3, WithoutOK
      <4>2. \A i, j \in DOMAIN Without(gone) : Without(gone)[i].who = Without(gone)[j].who => i = j
        BY <1>3, <2>1, WithoutOK
      <4> QED BY <3>1, <4>1, <4>2 DEF IsListed
    <3> QED BY <1>7, <2>1, <3>2 DEF gone
  <2> QED BY <2>2, <2>3
<1>11. QueueingListed'
  <2> SUFFICES ASSUME NEW CONSTANT p \in Player, state'[p] = Queueing PROVE IsListed(p)'
    BY DEF QueueingListed
  <2>1. p \notin both /\ state[p] = Queueing /\ IsListed(p)
    BY <1>6, <1>7 DEF QueueAgrees, QueueingListed, Queueing
  <2>2. CASE wave'.task = "creating"
    BY <1>1, <2>1, <2>2 DEF IsListed
  <2>3. CASE wave'.task # "creating"
    <3> DEFINE gone == wave.matched \cup both
    <3>1. players' = Without(gone)
      BY <1>1, <2>3
    <3>2. p \notin gone
      BY <2>1 DEF QueueAgrees, WaveAgrees, InMatch, Queueing
    <3> HIDE DEF gone
    <3>3. (\E i \in DOMAIN Without(gone) : Without(gone)[i].who = p)
            <=> p \notin gone /\ \E i \in DOMAIN players : players[i].who = p
      BY <1>3, WithoutOK
    <3> QED BY <2>1, <3>1, <3>2, <3>3 DEF IsListed
  <2> QED BY <2>2, <2>3
<1>12. WaveAgrees'
  <2> SUFFICES ASSUME NEW CONSTANT p \in Player
               PROVE  (p \in wave'.matched => InMatch(p)') /\ (IsPlanned(p)' => ~InMatch(p)')
    BY DEF WaveAgrees
  <2>1. p \in wave'.matched => p \in both \/ p \in wave.matched
    BY <1>1, <1>9
  <2>2. p \in wave'.matched => InMatch(p)'
    BY <1>6, <1>7, <2>1 DEF QueueAgrees, WaveAgrees, InMatch
  <2>3. IsPlanned(p)' => ~InMatch(p)'
    BY <1>5, <1>7 DEF QueueAgrees, WaveAgrees, InMatch
  <2> QED BY <2>2, <2>3
<1>13. StateTells'
  <2> SUFFICES ASSUME NEW CONSTANT p \in Player, InMatch(p)'
               PROVE  /\ matches'[state'[p]].open
                      /\ p \in {matches'[state'[p]].bw, matches'[state'[p]].sc2}
    BY DEF StateTells, PlayersOf
  <2>1. CASE p \in both
    BY <1>1, <1>7, <1>8, <1>p, <2>1
  <2>2. CASE p \notin both
    <3>1. state'[p] = state[p] /\ InMatch(p)
      BY <1>7, <2>2 DEF InMatch
    <3>2. state[p] \in Matches
      BY <1>3, <3>1 DEF InMatch, Idle, Queueing
    <3>3. matches[state[p]].open /\ p \in {matches[state[p]].bw, matches[state[p]].sc2}
      BY <3>1 DEF QueueAgrees, StateTells, PlayersOf
    <3> QED BY <1>1, <3>1, <3>2, <3>3
  <2> QED BY <2>1, <2>2
<1>14. MatchesTell'
  <2> SUFFICES ASSUME NEW CONSTANT n, n \in Matches', matches'[n].open,
                      NEW CONSTANT p, p \in {matches'[n].bw, matches'[n].sc2}
               PROVE  state'[p] = n
    BY DEF MatchesTell, PlayersOf
  <2>1. CASE n = new
    BY <1>1, <1>7, <1>8, <1>p, <2>1
  <2>2. CASE n # new
    <3>1. n \in Matches /\ matches[n].open /\ p \in PlayersOf(n)
      BY <1>1, <1>6, <2>2 DEF PlayersOf
    <3>2. state[p] = n /\ p \in Player /\ n > 0
      BY <1>3, <3>1, MatchFacts DEF QueueAgrees, MatchesTell
    <3>3. p \notin both
      BY <1>4, <3>2 DEF InMatch
    <3> QED BY <1>7, <3>2, <3>3
  <2> QED BY <2>1, <2>2
<1> QED BY <1>2, <1>10, <1>11, <1>12, <1>13, <1>14
        DEF QueueAgrees, NobodyWaitsToJoin, FailureEndsWaves

LEMMA AgreesInit == Init => QueueAgrees
<1> SUFFICES ASSUME Init PROVE QueueAgrees
  OBVIOUS
<1>1. /\ joining = [p \in Player |-> {}] /\ wave = NoWave /\ matches = <<>> /\ events = {}
  BY DEF Init
<1>2. /\ \A i, j \in DOMAIN players : players[i].who = players[j].who => i = j
      /\ \A p \in Player : state[p] = IF IsListed(p) THEN Queueing ELSE Idle
  BY InitFacts
<1>3. wave.matched = {} /\ DOMAIN wave.todo = {} /\ Matches = {}
  <2>1. \A s : s = <<>> => DOMAIN s = {}
    OBVIOUS
  <2>2. 1..0 = {}
    OBVIOUS
  <2>3. wave.matched = {} /\ wave.todo = <<>> /\ Len(matches) = 0
    BY <1>1 DEF NoWave
  <2> QED BY <2>1, <2>2, <2>3 DEF Matches
<1>4. \A p \in Player : ~InMatch(p)
  BY <1>2 DEF InMatch, Idle, Queueing
<1>5. ListedOnce /\ QueueingListed
  BY <1>2 DEF ListedOnce, QueueingListed, Idle, Queueing
<1> QED BY <1>1, <1>3, <1>4, <1>5
        DEF QueueAgrees, NobodyWaitsToJoin, FailureEndsWaves, WaveAgrees, StateTells, MatchesTell, IsPlanned

LEMMA AgreesNext ==
  ASSUME Typed, PairsAreSound, QueueAgrees, [Next]_vars, Undisturbed(QueueKinds)'
  PROVE  QueueAgrees'
<1>0. \A kind \in QueueKinds : kind \notin events'
  BY DEF Undisturbed
<1>1. ASSUME NEW p \in Player, PlayerStep(p) PROVE QueueAgrees'
  <2>1. CASE JoinQueue(p)
    BY <2>1, AgreesJoin
  <2>2. ~JoinNewRace(p)
    BY <1>0 DEF JoinNewRace, Happens, QueueKinds
  <2>3. ~AddPlayer(p) /\ ~JoinFails(p)
    BY DEF QueueAgrees, NobodyWaitsToJoin, AddPlayer, JoinFails
  <2> QED BY <1>1, <2>1, <2>2, <2>3 DEF PlayerStep
<1>q. ASSUME UNCHANGED <<players, state, joining, wave, matches>>,
             "createFails" \in events <=> "createFails" \in events'
      PROVE  QueueAgrees'
  <2>1. Matches' = Matches
    BY <1>q DEF Matches
  <2> QED BY <1>q, <2>1, AgreesQuiet
<1>2. ASSUME NEW v \in ViewIds, ViewStep(v) PROVE QueueAgrees'
  <2>1. CASE CancelQueue(v) \/ ViewTimesOut(v)
    <3>1. Leave(v) /\ ("createFails" \in events <=> "createFails" \in events')
      BY <2>1 DEF CancelQueue, ViewTimesOut, Happens
    <3> QED BY <3>1, AgreesLeave
  <2>2. CASE ViewReady(v) \/ ListenerWakes(v) \/ ShowMatch(v) \/ ShowFails(v)
    <3>1. /\ UNCHANGED <<players, state, joining, wave, matches>>
          /\ "createFails" \in events <=> "createFails" \in events'
      BY <2>2 DEF ViewReady, ListenerWakes, ShowMatch, ShowFails, Happens, queueVars
    <3> QED BY <1>q, <3>1
  <2> QED BY <1>2, <2>1, <2>2 DEF ViewStep
<1>3. ASSUME WaveStep PROVE QueueAgrees'
  BY <1>3, AgreesBegin, AgreesCreate, AgreesFails DEF WaveStep
<1>4. ASSUME NEW m \in Matches, MatchStep(m) PROVE QueueAgrees'
  <2>1. CASE Publish(m)
    <3>1. /\ matches' = [matches EXCEPT ![m].published = TRUE]
          /\ UNCHANGED <<players, state, joining, wave, events>>
      BY <2>1 DEF Publish, queueVars
    <3>2. matches \in Seq(Match) /\ DOMAIN matches = Matches
      BY MatchFacts DEF Typed
    <3>3. /\ Matches' = Matches
          /\ \A n \in Matches : /\ matches'[n].open = matches[n].open
                                /\ matches'[n].bw = matches[n].bw /\ matches'[n].sc2 = matches[n].sc2
      BY <3>1, <3>2 DEF Matches
    <3> QED BY <3>1, <3>3, AgreesQuiet
  <2>2. CASE EndMatch(m)
    <3>1. wave.task # "creating"
      BY <1>0, <2>2 DEF EndMatch, Happens, QueueKinds
    <3> QED BY <2>2, <3>1, AgreesEnd
  <2>3. ~ReleaseAgain(m)
    BY <1>0 DEF ReleaseAgain, Happens, QueueKinds
  <2> QED BY <1>4, <2>1, <2>2, <2>3 DEF MatchStep
<1>5. ~AdminStep
  BY <1>0 DEF AdminStep, AdminClearQueue, AdminRemoveQueue, AdminUnblockQueue, Happens, QueueKinds
<1>6. ASSUME UNCHANGED vars PROVE QueueAgrees'
  BY <1>6, <1>q DEF vars, queueVars
<1> QED BY <1>1, <1>2, <1>3, <1>4, <1>5, <1>6 DEF Next

\* What takes a search away from its view: the above, and a late timeout.
SearchKinds == QueueKinds \cup {"timeout"}

ManagerTells == \A p \in Player : manager[p] # NoView => views[manager[p]].who = p
ActiveKnown == \A v \in ViewIds : views[v].active => manager[views[v].who] = v
ListenersActive == \A v \in ViewIds : Listens(v) => views[v].active /\ state[views[v].who] # Idle
WaitersServed == \A v \in ViewIds : views[v].task = "waiting" => listener[views[v].who] = views[v].queue

\* The inductive invariant of the views.
SearchAgrees == ManagerTells /\ ActiveKnown /\ ListenersActive /\ WaitersServed

\* Every player has at most one view that listens.
LEMMA OneListener ==
  ASSUME SearchAgrees, NEW u \in ViewIds, NEW v \in ViewIds,
         views[u].active \/ Listens(u) \/ views[u].task = "waiting",
         views[v].active \/ Listens(v) \/ views[v].task = "waiting",
         views[u].who = views[v].who
  PROVE  u = v
<1>1. views[u].active /\ views[v].active
  BY DEF SearchAgrees, ListenersActive, Listens
<1> QED BY <1>1 DEF SearchAgrees, ActiveKnown

\* A step that changes the view v of player p, who may be set idle and
\* unsubscribed when v no longer listens.
LEMMA SearchOneView ==
  ASSUME Typed, SearchAgrees, ViewsTyped', ViewIds' = ViewIds,
         NEW v \in ViewIds, views[v].active \/ Listens(v),
         \A u \in ViewIds : views'[u].who = views[u].who,
         \A u \in ViewIds : u # v => /\ views'[u].active = views[u].active
                                     /\ views'[u].task = views[u].task
                                     /\ views'[u].queue = views[u].queue,
         views'[v].task # "waiting",
         views'[v].active => views[v].active,
         \A p \in Player : p # views[v].who =>
           manager'[p] = manager[p] /\ state'[p] = state[p] /\ listener'[p] = listener[p],
         manager'[views[v].who] \in {v, NoView},
         views'[v].active => manager'[views[v].who] = v,
         views'[v].task = "showing" => views'[v].active /\ Listens(v) /\ state'[views[v].who] = state[views[v].who]
  PROVE  SearchAgrees'
<1> DEFINE p == views[v].who
<1>1. p \in Player /\ \A u \in ViewIds : views[u].who \in Player
  BY ViewFacts DEF Typed
<1>2. \A u \in ViewIds : /\ u # v /\ (views[u].active \/ Listens(u) \/ views[u].task = "waiting")
                         => views[u].who # p
  BY OneListener
<1>p. PICK who \in Player : who = p
  BY <1>1
<1> HIDE DEF p
<1>3. ManagerTells'
  <2> SUFFICES ASSUME NEW CONSTANT q \in Player, manager'[q] # NoView
               PROVE  views'[manager'[q]].who = q
    BY DEF ManagerTells
  <2>1. CASE q = who
    BY <1>p, <2>1 DEF p
  <2>2. CASE q # who
    <3>1. manager'[q] = manager[q]
      BY <1>p, <2>2 DEF p
    <3>2. manager[q] \in ViewIds
      BY <3>1 DEF Typed, ViewsTyped
    <3>3. views[manager[q]].who = q
      BY <3>1 DEF SearchAgrees, ManagerTells
    <3> QED BY <3>1, <3>2, <3>3
  <2> QED BY <2>1, <2>2
<1>4. ActiveKnown'
  <2> SUFFICES ASSUME NEW CONSTANT u, u \in ViewIds, views'[u].active
               PROVE  manager'[views[u].who] = u
    BY DEF ActiveKnown
  <2>1. CASE u = v
    BY <2>1
  <2>2. CASE u # v
    <3>1. views[u].active /\ views[u].who # p
      BY <1>2, <2>2
    <3> QED BY <1>1, <3>1 DEF SearchAgrees, ActiveKnown, p
  <2> QED BY <2>1, <2>2
<1>5. ListenersActive'
  <2> SUFFICES ASSUME NEW CONSTANT u, u \in ViewIds, views'[u].task \in {"waiting", "showing"}
               PROVE  views'[u].active /\ state'[views[u].who] # Idle
    BY DEF ListenersActive, Listens
  <2>1. CASE u = v
    BY <2>1 DEF SearchAgrees, ListenersActive
  <2>2. CASE u # v
    <3>1. Listens(u) /\ views[u].who # p
      BY <1>2, <2>2 DEF Listens
    <3> QED BY <1>1, <2>2, <3>1 DEF SearchAgrees, ListenersActive, p
  <2> QED BY <2>1, <2>2
<1>6. WaitersServed'
  <2> SUFFICES ASSUME NEW CONSTANT u, u \in ViewIds, views'[u].task = "waiting"
               PROVE  listener'[views[u].who] = views'[u].queue
    BY DEF WaitersServed
  <2>1. u # v
    OBVIOUS
  <2>2. views[u].task = "waiting" /\ views[u].who # p
    BY <1>2, <2>1
  <2> QED BY <1>1, <2>1, <2>2 DEF SearchAgrees, WaitersServed, p
<1> QED BY <1>3, <1>4, <1>5, <1>6 DEF SearchAgrees

LEMMA SearchJoin ==
  ASSUME Typed, SearchAgrees, NEW p \in Player, JoinQueue(p)
  PROVE  SearchAgrees'
<1>1. PICK races \in RaceChoices : Enqueue(p, races)
  BY DEF JoinQueue
<1>2. /\ state[p] = Idle /\ state' = [state EXCEPT ![p] = Queueing] /\ Matches' = Matches
  BY DEF JoinQueue, Matches
<1>3. races \in Selection
  BY RaceChoicesAssumption DEF RaceChoicesAssumption
<1>p. PICK new, inherited :
        /\ new = Len(views) + 1
        /\ inherited = IF listener[p] = NoView THEN new ELSE listener[p]
  OBVIOUS
<1>4. /\ Len(views) \in Nat /\ Len(views') = new /\ ViewIds = 1..Len(views)
      /\ \A v \in ViewIds : views'[v] = IF v = manager[p] THEN Deactivated(views[v]) ELSE views[v]
      /\ views'[new] = [NewView(p) EXCEPT !.queue = inherited]
      /\ manager' = [manager EXCEPT ![p] = new]
      /\ listener' = [listener EXCEPT ![p] =
                        IF manager[p] # NoView /\ Listens(manager[p]) THEN NoView ELSE inherited]
  <2>1. ViewsTyped
    BY DEF Typed
  <2> QED BY <1>1, <1>2, <1>3, <1>p, <2>1, EnqueueTyped, ViewFacts DEF Enqueue
<1>5. /\ state \in [Player -> {Idle, Queueing} \cup Matches]
      /\ manager \in [Player -> ViewIds \cup {NoView}]
      /\ listener \in [Player -> ViewIds \cup {NoView}]
      /\ \A v \in ViewIds : views[v] \in View /\ views[v].who \in Player
  BY ViewFacts DEF Typed, QueueTyped, ViewsTyped
<1>6. \A v \in ViewIds : Listens(v) => views[v].who # p
  BY <1>2 DEF SearchAgrees, ListenersActive
<1>7. listener'[p] = inherited
  <2>1. manager[p] # NoView => ~Listens(manager[p])
    <3> SUFFICES ASSUME manager[p] # NoView PROVE ~Listens(manager[p])
      OBVIOUS
    <3>1. manager[p] \in ViewIds /\ views[manager[p]].who = p
      BY <1>5 DEF SearchAgrees, ManagerTells
    <3> QED BY <1>6, <3>1
  <2> QED BY <1>4, <1>5, <2>1
<1>8. /\ views'[new].who = p /\ views'[new].active /\ views'[new].task = "waiting"
      /\ views'[new].queue = inherited
  <2> DEFINE empty == <<>>
  <2>1. NewView(p) = [who |-> p, task |-> "waiting", inbox |-> empty, queue |-> NoView,
                      ready |-> FALSE, active |-> TRUE, expired |-> FALSE]
    BY DEF NewView
  <2> HIDE DEF empty
  <2>2. /\ NewView(p).who = p /\ NewView(p).active /\ NewView(p).task = "waiting"
        /\ DOMAIN NewView(p) = {"who", "task", "inbox", "queue", "ready", "active", "expired"}
    BY <2>1
  <2> QED BY <1>4, <2>2
<1>9. ViewIds' = ViewIds \cup {new} /\ new \notin ViewIds
  BY <1>4, <1>p DEF ViewIds
<1>10. ASSUME NEW CONSTANT v, v \in ViewIds
       PROVE  /\ views'[v].who = views[v].who /\ views'[v].queue = views[v].queue
              /\ views'[v].active => views[v].active /\ v # manager[p]
              /\ views'[v].task \in {"waiting", "showing"} =>
                   v # manager[p] /\ Listens(v) /\ views'[v].active = views[v].active
              /\ views'[v].task = "waiting" => views[v].task = "waiting"
  <2>1. CASE v = manager[p]
    BY <1>4, <1>5, <1>10, <2>1, Silencing
  <2>2. CASE v # manager[p]
    BY <1>4, <1>10, <2>2 DEF Listens
  <2> QED BY <2>1, <2>2
<1>11. \A q \in Player : q # p => /\ manager'[q] = manager[q] /\ listener'[q] = listener[q]
                                  /\ state'[q] = state[q]
  BY <1>2, <1>4, <1>5
<1>12. manager'[p] = new /\ state'[p] = Queueing
  BY <1>2, <1>4, <1>5
<1>13. ManagerTells'
  <2> SUFFICES ASSUME NEW CONSTANT q \in Player, manager'[q] # NoView PROVE views'[manager'[q]].who = q
    BY DEF ManagerTells
  <2>1. CASE q = p
    BY <1>8, <1>12, <2>1
  <2>2. CASE q # p
    <3>1. manager'[q] = manager[q] /\ manager[q] \in ViewIds /\ views[manager[q]].who = q
      BY <1>5, <1>11, <2>2 DEF SearchAgrees, ManagerTells
    <3> QED BY <1>10, <3>1
  <2> QED BY <2>1, <2>2
<1>14. ActiveKnown'
  <2> SUFFICES ASSUME NEW CONSTANT v, v \in ViewIds \cup {new}, views'[v].active
               PROVE  manager'[views'[v].who] = v
    BY <1>9 DEF ActiveKnown
  <2>1. CASE v = new
    BY <1>8, <1>12, <2>1
  <2>2. CASE v \in ViewIds
    <3>1. views[v].active /\ v # manager[p] /\ views'[v].who = views[v].who
      BY <1>10, <2>2
    <3>2. manager[views[v].who] = v
      BY <2>2, <3>1 DEF SearchAgrees, ActiveKnown
    <3> QED BY <1>5, <1>11, <2>2, <3>1, <3>2
  <2> QED BY <2>1, <2>2
<1>15. ListenersActive'
  <2> SUFFICES ASSUME NEW CONSTANT v, v \in ViewIds \cup {new}, views'[v].task \in {"waiting", "showing"}
               PROVE  views'[v].active /\ state'[views'[v].who] # Idle
    BY <1>9 DEF ListenersActive, Listens
  <2>1. CASE v = new
    BY <1>8, <1>12, <2>1 DEF Idle, Queueing
  <2>2. CASE v \in ViewIds
    <3>1. Listens(v) /\ views'[v].active = views[v].active /\ views'[v].who = views[v].who
      BY <1>10, <2>2
    <3>2. views[v].active /\ state[views[v].who] # Idle /\ views[v].who # p
      BY <1>6, <2>2, <3>1 DEF SearchAgrees, ListenersActive
    <3> QED BY <1>5, <1>11, <2>2, <3>1, <3>2
  <2> QED BY <2>1, <2>2
<1>16. WaitersServed'
  <2> SUFFICES ASSUME NEW CONSTANT v, v \in ViewIds \cup {new}, views'[v].task = "waiting"
               PROVE  listener'[views'[v].who] = views'[v].queue
    BY <1>9 DEF WaitersServed
  <2>1. CASE v = new
    BY <1>7, <1>8, <2>1
  <2>2. CASE v \in ViewIds
    <3>1. /\ views[v].task = "waiting" /\ Listens(v)
          /\ views'[v].who = views[v].who /\ views'[v].queue = views[v].queue
      BY <1>10, <2>2
    <3>2. listener[views[v].who] = views[v].queue /\ views[v].who # p
      BY <1>6, <2>2, <3>1 DEF SearchAgrees, WaitersServed
    <3> QED BY <1>5, <1>11, <2>2, <3>1, <3>2
  <2> QED BY <2>1, <2>2
<1> QED BY <1>13, <1>14, <1>15, <1>16 DEF SearchAgrees

LEMMA SameViews ==
  ASSUME ViewsTyped, ViewsTyped', DOMAIN views' = DOMAIN views
  PROVE  ViewIds' = ViewIds
<1>1. /\ Len(views) \in Nat /\ DOMAIN views = 1..Len(views)
      /\ Len(views') \in Nat /\ DOMAIN views' = 1..Len(views')
  BY DEF ViewsTyped
<1> QED BY <1>1 DEF ViewIds

\* Steps that leave what the views show and who is registered and subscribed.
LEMMA SearchStill ==
  ASSUME SearchAgrees, Typed, ViewIds' = ViewIds,
         \A v \in ViewIds : /\ views'[v].who = views[v].who /\ views'[v].queue = views[v].queue
                            /\ views'[v].active = views[v].active /\ views'[v].task = views[v].task,
         manager' = manager, listener' = listener,
         \A p \in Player : state'[p] = Idle => state[p] = Idle
  PROVE  SearchAgrees'
<1>1. /\ \A v \in ViewIds : views[v].who \in Player
      /\ \A p \in Player : manager[p] \in ViewIds \cup {NoView}
  BY ViewFacts DEF Typed, ViewsTyped
<1>2. ManagerTells' /\ ActiveKnown' /\ WaitersServed'
  BY <1>1 DEF SearchAgrees, ManagerTells, ActiveKnown, WaitersServed
<1>3. ListenersActive'
  BY <1>1 DEF SearchAgrees, ListenersActive, Listens
<1> QED BY <1>2, <1>3 DEF SearchAgrees

\* Players who are freed are unregistered, and no view of theirs listens.
LEMMA SearchFree ==
  ASSUME SearchAgrees, Typed, ViewIds' = ViewIds, NEW ps \in SUBSET Player, Free(ps)
  PROVE  SearchAgrees'
<1>1. /\ state' = [p \in Player |-> IF p \in ps THEN Idle ELSE state[p]]
      /\ views' = [v \in ViewIds |->
                     IF v \in CurrentViews(ps) THEN Deactivated(views[v]) ELSE views[v]]
      /\ manager' = [p \in Player |-> IF p \in ps THEN NoView ELSE manager[p]]
      /\ listener' = Unsubscribed({p \in ps : manager[p] # NoView /\ Listens(manager[p])})
  BY DEF Free, Unregister
<1>2. /\ \A v \in ViewIds : views[v] \in View /\ views[v].who \in Player
      /\ \A p \in Player : manager[p] \in ViewIds \cup {NoView}
  BY ViewFacts DEF Typed, ViewsTyped
<1>3. \A p \in Player : p \notin ps => /\ state'[p] = state[p] /\ manager'[p] = manager[p]
                                       /\ listener'[p] = listener[p]
  BY <1>1 DEF Unsubscribed
<1>4. \A p \in ps : manager'[p] = NoView
  BY <1>1
<1>5. ASSUME NEW CONSTANT v, v \in ViewIds
      PROVE  /\ views'[v].who = views[v].who /\ views'[v].queue = views[v].queue
             /\ views'[v].active \/ views'[v].task \in {"waiting", "showing"} =>
                  /\ views'[v] = views[v] /\ (views[v].active => views[v].who \notin ps)
  <2>1. CASE v \in CurrentViews(ps)
    <3>1. views'[v] = Deactivated(views[v])
      BY <1>1, <1>5, <2>1
    <3> QED BY <1>2, <1>5, <3>1, Silencing
  <2>2. CASE v \notin CurrentViews(ps)
    <3>1. views'[v] = views[v]
      BY <1>1, <1>5, <2>2
    <3>2. views[v].active => manager[views[v].who] = v
      BY <1>5 DEF SearchAgrees, ActiveKnown
    <3>3. views[v].active => views[v].who \notin ps
      BY <1>5, <2>2, <3>2 DEF CurrentViews
    <3> QED BY <3>1, <3>3
  <2> QED BY <2>1, <2>2
<1>6. ManagerTells'
  <2> SUFFICES ASSUME NEW CONSTANT p \in Player, manager'[p] # NoView PROVE views'[manager'[p]].who = p
    BY DEF ManagerTells
  <2>1. manager'[p] = manager[p] /\ manager[p] \in ViewIds
    BY <1>2, <1>3, <1>4
  <2> QED BY <1>5, <2>1 DEF SearchAgrees, ManagerTells
<1>7. ActiveKnown'
  <2> SUFFICES ASSUME NEW CONSTANT v, v \in ViewIds, views'[v].active
               PROVE  manager'[views'[v].who] = v
    BY DEF ActiveKnown
  <2>1. views[v].active /\ views[v].who \notin ps /\ views'[v].who = views[v].who
    BY <1>5
  <2> QED BY <1>2, <1>3, <2>1 DEF SearchAgrees, ActiveKnown
<1>8. ASSUME NEW CONSTANT v, v \in ViewIds, views'[v].task \in {"waiting", "showing"}
      PROVE  /\ views'[v].active /\ state'[views'[v].who] # Idle
             /\ views'[v].task = "waiting" => listener'[views'[v].who] = views'[v].queue
  <2>1. views'[v] = views[v] /\ Listens(v)
    BY <1>5, <1>8 DEF Listens
  <2>2. views[v].active /\ state[views[v].who] # Idle
    BY <1>8, <2>1 DEF SearchAgrees, ListenersActive
  <2>3. views[v].who \notin ps
    BY <1>5, <1>8, <2>1, <2>2
  <2>4. views[v].task = "waiting" => listener[views[v].who] = views[v].queue
    BY <1>8 DEF SearchAgrees, WaitersServed
  <2> QED BY <1>2, <1>3, <1>8, <2>1, <2>2, <2>3, <2>4
<1>9. ListenersActive' /\ WaitersServed'
  BY <1>8 DEF ListenersActive, WaitersServed, Listens
<1> QED BY <1>6, <1>7, <1>9 DEF SearchAgrees

LEMMA SearchViewStep ==
  ASSUME SearchAgrees, Typed, Typed', NEW v \in ViewIds, ViewStep(v), "timeout" \notin events'
  PROVE  SearchAgrees'
<1> DEFINE p == views[v].who
<1>1. /\ ViewsTyped /\ ViewsTyped' /\ DOMAIN views = ViewIds
      /\ \A u \in ViewIds : views[u] \in View /\ views[u].who \in Player
      /\ manager \in [Player -> ViewIds \cup {NoView}]
      /\ listener \in [Player -> ViewIds \cup {NoView}]
      /\ state \in [Player -> {Idle, Queueing} \cup Matches]
  <2>1. ViewsTyped /\ ViewsTyped' /\ state \in [Player -> {Idle, Queueing} \cup Matches]
    BY DEF Typed, QueueTyped
  <2> QED BY <2>1, ViewFacts DEF ViewsTyped
<1>p. PICK who \in Player : who = p
  BY <1>1
<1>2. \A q \in Player : q # who => Unsubscribed({who})[q] = listener[q]
  BY DEF Unsubscribed
<1>3. CASE ViewReady(v)
  <2>1. /\ views' = [views EXCEPT ![v].ready = TRUE]
        /\ UNCHANGED <<state, manager, listener>>
    BY <1>3 DEF ViewReady, queueVars
  <2>2. DOMAIN views' = DOMAIN views
    BY <2>1
  <2>3. \A u \in ViewIds : /\ views'[u].who = views[u].who /\ views'[u].queue = views[u].queue
                           /\ views'[u].active = views[u].active /\ views'[u].task = views[u].task
    BY <1>1, <2>1 DEF View
  <2> QED BY <1>1, <2>1, <2>2, <2>3, SameViews, SearchStill
<1>4. CASE CancelQueue(v)
  <2>1. /\ views[v].active /\ views' = [views EXCEPT ![v] = Deactivated(views[v])]
        /\ state' = [state EXCEPT ![who] = StateAfterLeaving(who)]
        /\ listener' = Unsubscribed({who})
        /\ manager' = [manager EXCEPT ![who] = IF manager[who] = v THEN NoView ELSE manager[who]]
    BY <1>4, <1>p DEF CancelQueue, Leave
  <2>2. DOMAIN views' = DOMAIN views
    BY <2>1
  <2>3. ViewIds' = ViewIds
    BY <1>1, <2>2, SameViews
  <2>4. /\ \A u \in ViewIds : u # v => views'[u] = views[u]
        /\ views'[v] = Deactivated(views[v])
    BY <1>1, <2>1
  <2>5. views'[v].who = views[v].who /\ ~views'[v].active /\ views'[v].task \notin {"waiting", "showing"}
    BY <1>1, <2>4, Silencing
  <2>6. manager[who] = v
    BY <1>p, <2>1 DEF SearchAgrees, ActiveKnown
  <2>7. manager'[who] = NoView /\ \A q \in Player : q # who =>
           manager'[q] = manager[q] /\ state'[q] = state[q] /\ listener'[q] = listener[q]
    BY <1>1, <1>2, <2>1, <2>6
  <2> HIDE DEF p
  <2>8. \A u \in ViewIds : /\ views'[u].who = views[u].who
                           /\ u # v => /\ views'[u].active = views[u].active
                                       /\ views'[u].task = views[u].task
                                       /\ views'[u].queue = views[u].queue
    BY <2>4, <2>5
  <2> QED BY <1>1, <1>p, <2>1, <2>3, <2>5, <2>7, <2>8, SearchOneView DEF p
<1>5. ~ViewTimesOut(v)
  BY DEF ViewTimesOut, Happens
<1>6. CASE ListenerWakes(v)
  <2> DEFINE q == views[v].queue
             woken == [views EXCEPT ![q].inbox = Tail(@)]
             task == IF views[v].ready THEN "showing" ELSE "ended"
  <2>1. /\ views[v].task = "waiting" /\ views' = [woken EXCEPT ![v].task = task]
        /\ listener' = IF views[v].ready THEN listener ELSE Unsubscribed({who})
        /\ UNCHANGED <<state, manager>>
    BY <1>6, <1>p DEF ListenerWakes, queueVars
  <2>2. q \in ViewIds
    BY <1>1 DEF ViewsTyped
  <2>3. \A u \in ViewIds : /\ woken[u].who = views[u].who /\ woken[u].queue = views[u].queue
                           /\ woken[u].active = views[u].active /\ woken[u].task = views[u].task
                           /\ DOMAIN woken[u] = DOMAIN views[u]
    <3> HIDE DEF q
    <3> QED BY <1>1, <2>2 DEF View
  <2>4. DOMAIN woken = ViewIds
    BY <1>1
  <2>5. views[v] \in View
    BY <1>1
  <2> HIDE DEF woken, q, p
  <2>6. DOMAIN views' = DOMAIN views
    BY <1>1, <2>1, <2>4
  <2>7. ViewIds' = ViewIds
    BY <1>1, <2>6, SameViews
  <2>8. /\ \A u \in ViewIds : u # v => views'[u] = woken[u]
        /\ views'[v] = [woken[v] EXCEPT !.task = task]
    BY <2>1, <2>4
  <2>9. /\ views'[v].who = views[v].who /\ views'[v].active = views[v].active
        /\ views'[v].task = task
    <3>1. DOMAIN woken[v] = DOMAIN views[v] /\ woken[v].who = views[v].who /\ woken[v].active = views[v].active
      BY <2>3
    <3>2. "task" \in DOMAIN views[v]
      BY <2>5 DEF View
    <3> HIDE DEF task
    <3> QED BY <2>8, <3>1, <3>2
  <2>10. \A u \in ViewIds : /\ views'[u].who = views[u].who
                            /\ u # v => /\ views'[u].active = views[u].active
                                        /\ views'[u].task = views[u].task
                                        /\ views'[u].queue = views[u].queue
    BY <2>3, <2>8, <2>9
  <2>11. Listens(v) /\ views[v].active /\ manager[who] = v
    BY <1>p, <2>1 DEF SearchAgrees, ListenersActive, ActiveKnown, Listens, p
  <2>12. \A u \in Player : u # who =>
           manager'[u] = manager[u] /\ state'[u] = state[u] /\ listener'[u] = listener[u]
    BY <1>2, <2>1
  <2>13. task \in {"showing", "ended"} /\ manager'[who] = v /\ state'[who] = state[who]
    BY <2>1, <2>11
  <2> HIDE DEF task
  <2>14. /\ views'[v].task # "waiting" /\ views'[v].active /\ manager'[p] = v
         /\ state'[p] = state[p]
         /\ \A u \in Player : u # p =>
              manager'[u] = manager[u] /\ state'[u] = state[u] /\ listener'[u] = listener[u]
    BY <1>p, <2>9, <2>11, <2>12, <2>13
  <2> QED BY <1>1, <2>7, <2>10, <2>11, <2>14, SearchOneView DEF p
<1>7. CASE ShowMatch(v)
  <2>1. /\ views[v].task = "showing" /\ views' = [views EXCEPT ![v].task = "shown", ![v].active = FALSE]
        /\ listener' = Unsubscribed({who}) /\ state' = state
        /\ manager' = [manager EXCEPT ![who] = IF manager[who] = v THEN NoView ELSE manager[who]]
    BY <1>7, <1>p DEF ShowMatch, queueVars
  <2>2. DOMAIN views' = DOMAIN views
    BY <2>1
  <2>3. ViewIds' = ViewIds
    BY <1>1, <2>2, SameViews
  <2>4. \A u \in ViewIds : u # v => views'[u] = views[u]
    BY <1>1, <2>1
  <2>5. views'[v].who = views[v].who /\ ~views'[v].active /\ views'[v].task = "shown"
    BY <1>1, <2>1 DEF View
  <2>6. Listens(v) /\ manager[who] = v
    BY <1>p, <2>1 DEF SearchAgrees, ListenersActive, ActiveKnown, Listens
  <2>7. manager'[who] = NoView /\ \A q \in Player : q # who =>
           manager'[q] = manager[q] /\ state'[q] = state[q] /\ listener'[q] = listener[q]
    BY <1>1, <1>2, <2>1, <2>6
  <2> HIDE DEF p
  <2>8. \A u \in ViewIds : /\ views'[u].who = views[u].who
                           /\ u # v => /\ views'[u].active = views[u].active
                                       /\ views'[u].task = views[u].task
                                       /\ views'[u].queue = views[u].queue
    BY <2>4, <2>5
  <2> QED BY <1>1, <1>p, <2>3, <2>5, <2>6, <2>7, <2>8, SearchOneView DEF p
<1>8. CASE ShowFails(v)
  <2>1. /\ views[v].task = "showing" /\ views' = [views EXCEPT ![v].task = "ended"]
        /\ listener' = Unsubscribed({who}) /\ UNCHANGED <<state, manager>>
    BY <1>8, <1>p DEF ShowFails, queueVars
  <2>2. DOMAIN views' = DOMAIN views
    BY <2>1
  <2>3. ViewIds' = ViewIds
    BY <1>1, <2>2, SameViews
  <2>4. \A u \in ViewIds : u # v => views'[u] = views[u]
    BY <1>1, <2>1
  <2>5. views'[v].who = views[v].who /\ views'[v].active = views[v].active /\ views'[v].task = "ended"
    BY <1>1, <2>1 DEF View
  <2>6. Listens(v) /\ manager[who] = v
    BY <1>p, <2>1 DEF SearchAgrees, ListenersActive, ActiveKnown, Listens
  <2>7. \A q \in Player : q # who =>
           manager'[q] = manager[q] /\ state'[q] = state[q] /\ listener'[q] = listener[q]
    BY <1>2, <2>1
  <2> HIDE DEF p
  <2>8. \A u \in ViewIds : /\ views'[u].who = views[u].who
                           /\ u # v => /\ views'[u].active = views[u].active
                                       /\ views'[u].task = views[u].task
                                       /\ views'[u].queue = views[u].queue
    BY <2>4, <2>5
  <2>9. views[v].who = who
    BY <1>p DEF p
  <2>10. /\ \A u \in Player : u # views[v].who =>
              manager'[u] = manager[u] /\ state'[u] = state[u] /\ listener'[u] = listener[u]
         /\ manager'[views[v].who] = v
    BY <2>1, <2>6, <2>7, <2>9
  <2> QED BY <1>1, <2>3, <2>5, <2>6, <2>8, <2>10, SearchOneView
<1> QED BY <1>3, <1>4, <1>5, <1>6, <1>7, <1>8 DEF ViewStep

LEMMA SearchInit == Init => SearchAgrees
<1> SUFFICES ASSUME Init PROVE SearchAgrees
  OBVIOUS
<1>1. /\ players \in Seq(Entry) /\ ViewIds = DOMAIN players
      /\ \A i, j \in DOMAIN players : players[i].who = players[j].who => i = j
      /\ \A v \in ViewIds : views[v].who = players[v].who /\ views[v].queue = v
      /\ \A p \in Player : \/ IsListed(p) /\ manager[p] \in ViewIds /\ players[manager[p]].who = p
                           \/ ~IsListed(p) /\ manager[p] = NoView
      /\ \A p \in Player : state[p] = IF IsListed(p) THEN Queueing ELSE Idle
      /\ \A v \in ViewIds : views[v].active
  BY InitFacts
<1>2. listener = manager
  BY DEF Init
<1>3. \A v \in ViewIds : views[v].who \in Player /\ IsListed(views[v].who)
  <2>1. \A v \in ViewIds : players[v] \in Entry
    BY <1>1
  <2> QED BY <1>1, <2>1 DEF IsListed, Entry
<1>4. \A v \in ViewIds : manager[views[v].who] = v /\ state[views[v].who] = Queueing
  BY <1>1, <1>3
<1> QED BY <1>1, <1>2, <1>4
        DEF SearchAgrees, ManagerTells, ActiveKnown, ListenersActive, WaitersServed, Idle, Queueing

LEMMA SearchNext ==
  ASSUME Typed, Typed', SearchAgrees, QueueAgrees, [Next]_vars, Undisturbed(SearchKinds)'
  PROVE  SearchAgrees'
<1>0. \A kind \in SearchKinds : kind \notin events'
  BY DEF Undisturbed
<1>1. /\ ViewsTyped /\ ViewsTyped'
      /\ state \in [Player -> {Idle, Queueing} \cup Matches]
  BY DEF Typed, QueueTyped
<1>2. ASSUME NEW p \in Player, PlayerStep(p) PROVE SearchAgrees'
  <2>1. CASE JoinQueue(p)
    BY <2>1, SearchJoin
  <2>2. ~JoinNewRace(p)
    BY <1>0 DEF JoinNewRace, Happens, SearchKinds, QueueKinds
  <2>3. ~AddPlayer(p) /\ ~JoinFails(p)
    BY DEF QueueAgrees, NobodyWaitsToJoin, AddPlayer, JoinFails
  <2> QED BY <1>2, <2>1, <2>2, <2>3 DEF PlayerStep
<1>3. ASSUME NEW v \in ViewIds, ViewStep(v) PROVE SearchAgrees'
  BY <1>0, <1>3, SearchViewStep DEF SearchKinds
<1>s. ASSUME UNCHANGED <<views, manager, listener>>,
             \A p \in Player : state'[p] = Idle => state[p] = Idle
      PROVE  SearchAgrees'
  <2>1. ViewIds' = ViewIds
    BY <1>s DEF ViewIds
  <2> QED BY <1>s, <2>1, SearchStill
<1>4. ASSUME WaveStep PROVE SearchAgrees'
  <2>1. CASE BeginWave \/ CreateFails
    <3>1. UNCHANGED <<views, manager, listener, state>>
      BY <2>1 DEF BeginWave, CreateFails, viewVars, queueVars
    <3> QED BY <1>s, <3>1
  <2>2. CASE CreateMatch
    <3>1. /\ UNCHANGED <<views, manager, listener>>
          /\ \A p \in Player : state'[p] \in {NextMatch, state[p]}
      BY <2>2 DEF CreateMatch, viewVars
    <3>2. NextMatch # Idle
      <4>1. Len(matches) \in Nat
        BY MatchFacts DEF Typed
      <4> QED BY <4>1 DEF NextMatch, Idle
    <3>3. \A p \in Player : state'[p] = Idle => state[p] = Idle
      BY <3>1, <3>2
    <3> QED BY <1>s, <3>1, <3>3
  <2> QED BY <1>4, <2>1, <2>2 DEF WaveStep
<1>5. ASSUME NEW m \in Matches, MatchStep(m) PROVE SearchAgrees'
  <2>0. PlayersOf(m) \in SUBSET Player /\ \A v \in ViewIds : views[v] \in View
    BY <1>1, MatchFacts, ViewFacts DEF Typed
  <2>1. CASE Publish(m)
    <3>1. /\ views' = [v \in ViewIds |->
                        IF v \in Told(m) THEN [views[v] EXCEPT !.inbox = Append(@, m)] ELSE views[v]]
          /\ UNCHANGED <<state, manager, listener>>
      BY <2>1 DEF Publish, queueVars
    <3>2. ViewIds' = ViewIds
      BY <1>1, <3>1, SameViews, ViewFacts
    <3>3. ASSUME NEW v \in ViewIds
          PROVE  /\ views'[v].who = views[v].who /\ views'[v].queue = views[v].queue
                 /\ views'[v].active = views[v].active /\ views'[v].task = views[v].task
      <4>1. views'[v] \in {views[v], [views[v] EXCEPT !.inbox = Append(views[v].inbox, m)]}
        BY <3>1
      <4> QED BY <2>0, <4>1 DEF View
    <3> QED BY <3>1, <3>2, <3>3, SearchStill
  <2>2. CASE EndMatch(m)
    <3>1. Free(PlayersOf(m))
      BY <2>2 DEF EndMatch
    <3>2. DOMAIN views' = ViewIds
      BY <3>1 DEF Free, Unregister
    <3>3. ViewIds' = ViewIds
      BY <1>1, <3>2, SameViews, ViewFacts
    <3> QED BY <2>0, <3>1, <3>3, SearchFree
  <2>3. ~ReleaseAgain(m)
    BY <1>0 DEF ReleaseAgain, Happens, SearchKinds, QueueKinds
  <2> QED BY <1>5, <2>1, <2>2, <2>3 DEF MatchStep
<1>6. ~AdminStep
  BY <1>0 DEF AdminStep, AdminClearQueue, AdminRemoveQueue, AdminUnblockQueue, Happens,
              SearchKinds, QueueKinds
<1>7. ASSUME UNCHANGED vars PROVE SearchAgrees'
  BY <1>7, <1>s DEF vars, queueVars, viewVars
<1> QED BY <1>2, <1>3, <1>4, <1>5, <1>6, <1>7 DEF Next

\* The inductive invariant: types, the pairs of the wave, the queue and the
\* matches, the views.
Places ==
  /\ Typed
  /\ PairsAreSound
  /\ Undisturbed(QueueKinds) => QueueAgrees
  /\ Undisturbed(SearchKinds) => SearchAgrees

LEMMA PlacesInit == Init => Places
<1> SUFFICES ASSUME Init PROVE Places
  OBVIOUS
<1>1. PairsAreSound
  <2>0. \A s : s = <<>> => DOMAIN s = {}
    OBVIOUS
  <2>1. wave.todo = <<>>
    BY DEF Init, NoWave
  <2> QED BY <2>0, <2>1 DEF PairsAreSound
<1> QED BY <1>1, TypedInit, AgreesInit, SearchInit DEF Places

LEMMA PlacesNext == Places /\ [Next]_vars => Places'
<1> SUFFICES ASSUME Places, [Next]_vars PROVE Places'
  OBVIOUS
<1>1. Typed /\ PairsAreSound /\ Typed' /\ PairsAreSound'
  BY TypedNext, PairsNext DEF Places
<1>2. events \subseteq events'
  BY <1>1, EventsGrow
<1>3. ASSUME Undisturbed(QueueKinds)' PROVE QueueAgrees'
  <2>1. Undisturbed(QueueKinds)
    BY <1>2, <1>3 DEF Undisturbed, QueueKinds
  <2> QED BY <1>1, <1>3, <2>1, AgreesNext DEF Places
<1>4. ASSUME Undisturbed(SearchKinds)' PROVE SearchAgrees'
  <2>1. Undisturbed(SearchKinds) /\ Undisturbed(QueueKinds)
    BY <1>2, <1>4 DEF Undisturbed, SearchKinds, QueueKinds
  <2> QED BY <1>1, <1>4, <2>1, SearchNext DEF Places
<1> QED BY <1>1, <1>3, <1>4 DEF Places

LEMMA PlacesImplies == Places => PlacesAgree
<1> SUFFICES ASSUME Places PROVE PlacesAgree
  OBVIOUS
<1>1. players \in Seq(Entry) /\ matches \in Seq(Match) /\ ViewsTyped
      /\ state \in [Player -> {Idle, Queueing} \cup Matches]
  BY DEF Places, Typed, QueueTyped
<1>2. \A p : IsQueued(p) <=> IsListed(p)
  BY <1>1, EntriesOf DEF IsListed
<1>3. QueueingIffQueued
  <2> SUFFICES ASSUME Undisturbed({"newRace", "releaseAgain", "earlyEnd", "unblock", "forceRemove",
                                   "clearQueue", "createFails"}),
                      NEW p \in Player
               PROVE  /\ Len(Entries(p)) <= 1
                      /\ IsQueued(p) => state[p] = Queueing \/ p \in wave.matched
                      /\ state[p] = Queueing => IsQueued(p)
    BY DEF QueueingIffQueued
  <2>1. QueueAgrees /\ "createFails" \notin events
    BY DEF Places, Undisturbed, QueueKinds
  <2>2. \A i, j \in DOMAIN players : players[i].who = players[j].who => i = j
    BY <2>1 DEF QueueAgrees, ListedOnce
  <2>3. Len(Entries(p)) <= 1
    BY <1>1, <2>2, EntriesOf
  <2> QED BY <1>2, <2>1, <2>3 DEF QueueAgrees, ListedOnce, QueueingListed
<1>4. OneOpenMatch
  <2> SUFFICES ASSUME Undisturbed(QueueKinds), NEW p \in Player
               PROVE  Cardinality(OpenMatches(p)) <= 1 /\ (InMatch(p) => state[p] \in OpenMatches(p))
    BY DEF OneOpenMatch, QueueKinds
  <2>1. QueueAgrees
    BY DEF Places
  <2>2. \A m \in OpenMatches(p) : m = state[p]
    BY <2>1 DEF QueueAgrees, MatchesTell, OpenMatches
  <2>3. OpenMatches(p) = {} \/ OpenMatches(p) = {state[p]}
    BY <2>2
  <2>4. Cardinality(OpenMatches(p)) <= 1
    <3>1. Cardinality({}) = 0 /\ Cardinality({state[p]}) = 1
      BY FS_EmptySet, FS_Singleton
    <3> HIDE DEF OpenMatches
    <3> QED BY <2>3, <3>1
  <2>5. InMatch(p) => state[p] \in OpenMatches(p)
    BY <1>1, <2>1 DEF QueueAgrees, StateTells, OpenMatches, InMatch, Idle, Queueing
  <2> QED BY <2>4, <2>5
<1>5. SearchIsServed
  <2> SUFFICES ASSUME Undisturbed({"newRace", "timeout", "releaseAgain", "earlyEnd", "unblock",
                                   "forceRemove", "clearQueue"}),
                      NEW v \in ViewIds, views[v].active, views[v].task = "waiting"
               PROVE  /\ manager[views[v].who] = v
                      /\ listener[views[v].who] = views[v].queue
                      /\ IsQueued(views[v].who) \/ InMatch(views[v].who)
    BY DEF SearchIsServed
  <2>1. SearchAgrees /\ QueueAgrees
    BY DEF Places, Undisturbed, QueueKinds, SearchKinds
  <2>2. /\ manager[views[v].who] = v /\ listener[views[v].who] = views[v].queue
        /\ state[views[v].who] # Idle
    BY <2>1 DEF SearchAgrees, ActiveKnown, ListenersActive, WaitersServed, Listens
  <2>3. views[v].who \in Player
    BY <1>1, ViewFacts
  <2>4. state[views[v].who] = Queueing \/ InMatch(views[v].who)
    BY <1>1, <2>2, <2>3 DEF InMatch, Matches, Idle, Queueing
  <2> QED BY <1>2, <2>1, <2>2, <2>3, <2>4 DEF QueueAgrees, QueueingListed
<1> QED BY <1>3, <1>4, <1>5 DEF PlacesAgree

\* Where a player is, as the state, the queue, the views, the subscriptions and
\* the matches tell it, is one place.
THEOREM OnePlace == Spec => []PlacesAgree
<1>1. Init => Places
  BY PlacesInit
<1>2. Places /\ [Next]_vars => Places'
  BY PlacesNext
<1>3. Places => PlacesAgree
  BY PlacesImplies
<1> QED BY <1>1, <1>2, <1>3, PTL DEF Spec

-----------------------------------------------------------------------------
(* Every wave pairs well                                                     *)

\* An entry has the number of the view it was made with, so no other has it.
Numbered ==
  /\ IdsDiffer(players)
  /\ \A i \in DOMAIN players : players[i].id <= Len(views)

LEMMA NumberedInit == Init => Numbered
<1> SUFFICES ASSUME Init PROVE Numbered
  OBVIOUS
<1>1. DOMAIN views = DOMAIN players /\ views \in Seq(View) /\ ViewIds = DOMAIN players
  BY InitFacts
<1>2. \A i \in DOMAIN players : players[i].id = i
  <2>1. PICK start \in Starts :
          players = [i \in DOMAIN start.queue |-> [id |-> i, who |-> start.queue[i],
                                                   races |-> start.races[start.queue[i]], wait |-> 0]]
    BY DEF Init
  <2> QED BY <2>1
<1>3. \A i \in DOMAIN players : i <= Len(views)
  BY <1>1 DEF ViewIds
<1> QED BY <1>2, <1>3 DEF Numbered, IdsDiffer

\* Who leaves the queue takes a number along.
LEMMA NumberedQuiet ==
  ASSUME Typed, Typed', Numbered, DOMAIN views' = DOMAIN views,
         players' = players \/ \E gone : players' = Without(gone)
  PROVE  Numbered'
<1>1. Len(views') = Len(views)
  BY DEF Typed, ViewsTyped
<1>2. CASE players' = players
  BY <1>1, <1>2 DEF Numbered, IdsDiffer
<1>3. CASE \E gone : players' = Without(gone)
  <2>1. PICK gone : players' = Without(gone)
    BY <1>3
  <2>2. players \in Seq(Entry)
    BY DEF Typed, QueueTyped
  <2>3. \A i, j \in DOMAIN players' : \E a, b \in DOMAIN players :
          players'[i] = players[a] /\ players'[j] = players[b] /\ (i # j => a # b)
    BY <2>1, <2>2, WithoutOK
  <2>4. IdsDiffer(players')
    <3>1. \A a, b \in DOMAIN players : players[a].id = players[b].id => a = b
      BY DEF Numbered, IdsDiffer
    <3>2. \A i, j \in DOMAIN players' : players'[i].id = players'[j].id => i = j
      BY <2>3, <3>1
    <3> QED BY <3>2 DEF IdsDiffer
  <2>5. \A i \in DOMAIN players' : players'[i].id <= Len(views')
    <3>1. \A a \in DOMAIN players : players[a].id <= Len(views')
      BY <1>1 DEF Numbered
    <3>2. \A i \in DOMAIN players' : \E a \in DOMAIN players : players'[i] = players[a]
      BY <2>3
    <3> QED BY <3>1, <3>2
  <2> QED BY <2>4, <2>5 DEF Numbered, IdsDiffer
<1> QED BY <1>2, <1>3

\* Who joins gets a number that no view had.
LEMMA NumberedEnqueue ==
  ASSUME Typed, Numbered, NEW p \in Player, NEW races \in Selection, Enqueue(p, races),
         Matches' = Matches
  PROVE  Numbered'
<1> DEFINE n == Len(players)
           new == Len(views) + 1
           e == [id |-> new, who |-> p, races |-> races, wait |-> 0]
<1>1. /\ players \in Seq(Entry) /\ n \in Nat /\ DOMAIN players = 1..n
      /\ \A i \in DOMAIN players : players[i].id \in Nat
  <2>1. players \in Seq(Entry)
    BY DEF Typed, QueueTyped
  <2>2. \A i \in DOMAIN players : players[i] \in Entry
    BY <2>1
  <2> QED BY <2>1, <2>2 DEF Entry
<1>2. Len(views') = new /\ Len(views) \in Nat
  BY EnqueueTyped, ViewFacts DEF Typed
<1>3. players' = Append(players, e) /\ e.id = new
  BY DEF Enqueue
<1> HIDE DEF e
<1>4. /\ DOMAIN players' = 1..(n + 1)
      /\ \A i \in 1..n : players'[i] = players[i]
      /\ players'[n + 1] = e
  BY <1>1, <1>3
<1>5. \A i \in 1..n : players'[i].id \in Nat /\ players'[i].id <= Len(views)
  BY <1>1, <1>4 DEF Numbered
<1>6. \A i \in 1..(n + 1) : i \in 1..n \/ i = n + 1
  BY <1>1
<1>7. players'[n + 1].id = new
  BY <1>3, <1>4
<1>8. \A i \in DOMAIN players' : players'[i].id <= new
  BY <1>2, <1>4, <1>5, <1>6, <1>7
<1>9. \A i, j \in 1..n : players'[i].id = players'[j].id => i = j
  BY <1>1, <1>4 DEF Numbered, IdsDiffer
<1>10. \A i \in 1..n : players'[i].id # players'[n + 1].id
  BY <1>2, <1>5, <1>7
<1>11. \A i, j \in DOMAIN players' : players'[i].id = players'[j].id => i = j
  BY <1>4, <1>6, <1>9, <1>10
<1> QED BY <1>2, <1>8, <1>11 DEF Numbered, IdsDiffer

LEMMA NumberedNext == Typed /\ Numbered /\ [Next]_vars => Numbered'
<1> SUFFICES ASSUME Typed, Numbered, [Next]_vars PROVE Numbered'
  OBVIOUS
<1>0. Typed' /\ DOMAIN views = ViewIds
  BY TypedNext, ViewFacts DEF Typed
<1>1. ASSUME NEW p \in Player, PlayerStep(p) PROVE Numbered'
  <2>1. CASE JoinQueue(p) \/ AddPlayer(p)
    <3>1. PICK races \in Selection : Enqueue(p, races)
      BY <2>1, RaceChoicesAssumption
         DEF RaceChoicesAssumption, JoinQueue, AddPlayer, Typed, QueueTyped
    <3>2. Matches' = Matches
      BY <2>1 DEF JoinQueue, AddPlayer, Matches
    <3> QED BY <3>1, <3>2, NumberedEnqueue
  <2>2. CASE JoinNewRace(p) \/ JoinFails(p)
    <3>1. players' = players /\ views' = views
      BY <2>2 DEF JoinNewRace, JoinFails, viewVars
    <3> QED BY <1>0, <3>1, NumberedQuiet
  <2> QED BY <1>1, <2>1, <2>2 DEF PlayerStep
<1>2. ASSUME NEW v \in ViewIds, ViewStep(v) PROVE Numbered'
  <2>1. CASE CancelQueue(v) \/ ViewTimesOut(v)
    <3>1. players' = Without({views[v].who}) /\ DOMAIN views' = DOMAIN views
      BY <2>1 DEF CancelQueue, ViewTimesOut, Leave
    <3> QED BY <1>0, <3>1, NumberedQuiet
  <2>2. CASE ViewReady(v) \/ ListenerWakes(v) \/ ShowMatch(v) \/ ShowFails(v)
    <3>1. players' = players /\ DOMAIN views' = DOMAIN views
      BY <2>2 DEF ViewReady, ListenerWakes, ShowMatch, ShowFails, queueVars
    <3> QED BY <1>0, <3>1, NumberedQuiet
  <2> QED BY <1>2, <2>1, <2>2 DEF ViewStep
<1>3. ASSUME WaveStep PROVE Numbered'
  <2>1. CASE BeginWave
    <3>1. /\ DOMAIN players' = DOMAIN players /\ views' = views
          /\ \A i \in DOMAIN players : players'[i].id = players[i].id
      <4>1. /\ players' = [i \in DOMAIN players |-> [players[i] EXCEPT !.wait = @ + 1]]
            /\ views' = views
        BY <2>1 DEF BeginWave, viewVars
      <4>2. \A i \in DOMAIN players : players[i] \in Entry
        BY DEF Typed, QueueTyped
      <4> QED BY <4>1, <4>2 DEF Entry
    <3> QED BY <3>1 DEF Numbered, IdsDiffer
  <2>2. CASE CreateMatch
    <3>1. views' = views
      BY <2>2 DEF CreateMatch, viewVars
    <3>2. players' = players \/ \E gone : players' = Without(gone)
      BY <2>2 DEF CreateMatch
    <3> QED BY <1>0, <3>1, <3>2, NumberedQuiet
  <2>3. CASE CreateFails
    <3>1. players' = players /\ views' = views
      BY <2>3 DEF CreateFails, queueVars, viewVars
    <3> QED BY <1>0, <3>1, NumberedQuiet
  <2> QED BY <1>3, <2>1, <2>2, <2>3 DEF WaveStep
<1>4. ASSUME NEW m \in Matches, MatchStep(m) PROVE Numbered'
  <2>1. players' = players
    BY <1>4 DEF MatchStep, Publish, EndMatch, ReleaseAgain, queueVars
  <2>2. DOMAIN views' = ViewIds
    BY <1>4 DEF MatchStep, Publish, EndMatch, ReleaseAgain, Free, Unregister
  <2> QED BY <1>0, <2>1, <2>2, NumberedQuiet
<1>5. ASSUME AdminStep PROVE Numbered'
  <2>1. players' = players \/ \E gone : players' = Without(gone)
    BY <1>5 DEF AdminStep, AdminClearQueue, EmergencyClearQueue, AdminRemoveQueue, ForceRemoveFromQueue,
                AdminUnblockQueue, UnblockPlayerState, ClearQueueLock
  <2>2. DOMAIN views' = ViewIds
    BY <1>0, <1>5 DEF AdminStep, AdminClearQueue, EmergencyClearQueue, AdminRemoveQueue, ForceRemoveFromQueue,
                AdminUnblockQueue, UnblockPlayerState, ClearQueueLock, Free, Unregister, viewVars
  <2> QED BY <1>0, <2>1, <2>2, NumberedQuiet
<1>6. ASSUME UNCHANGED vars PROVE Numbered'
  <2>1. players' = players /\ views' = views
    BY <1>6 DEF vars, queueVars, viewVars
  <2> QED BY <1>0, <2>1, NumberedQuiet
<1> QED BY <1>1, <1>2, <1>3, <1>4, <1>5, <1>6 DEF Next

\* A wave pairs well: everybody has one side with a race for it, the sides are as equal as the others
\* let them be, no two players it keeps and who accept each other are both left without a match, and
\* its swaps keep everybody matched and the total error no worse.
THEOREM WavesPair == Spec => WavesPairWell
<1>1. Init => Typed /\ Numbered
  BY TypedInit, NumberedInit
<1>2. Typed /\ Numbered /\ [Next]_vars => (Typed /\ Numbered)'
  BY TypedNext, NumberedNext
<1>3. ASSUME Typed, Numbered, [Next]_vars
      PROVE  Balanced(players') /\ NothingOverlooked(players') /\ RefinementHelps(players')
  <2>1. RatingsTyped /\ players' \in Seq(Entry) /\ IdsDiffer(players')
    BY <1>2, <1>3 DEF Typed, QueueTyped, Numbered, IdsDiffer
  <2>2. PICK q \in Seq(Entry) : q = players'
    BY <2>1
  <2>3. IdsDiffer(q)
    BY <2>1, <2>2
  <2>4. Balanced(q) /\ NothingOverlooked(q) /\ RefinementHelps(q)
    BY <2>1, <2>3, SidesAreBalanced, OverlooksNothing, RefinementIsHelp
  <2> QED BY <2>2, <2>4
<1>4. Typed /\ Numbered /\ [Next]_vars
        => [waves' > waves => /\ Balanced(players')
                              /\ NothingOverlooked(players')
                              /\ RefinementHelps(players')]_vars
  BY <1>3
<1> QED BY <1>1, <1>2, <1>4, PTL DEF Spec, WavesPairWell
=============================================================================
