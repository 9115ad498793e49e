-------------------------- MODULE Standings_proof --------------------------
(***************************************************************************)
(* Proofs about Standings: what ranking_service.py says of its letters,    *)
(* for every population (AllocationIsFair); type correctness; that the     *)
(* rankings catch up with the ratings (RanksCatchUp), which rests on       *)
(* Ranked sorting the rows; and that the message shows what was asked      *)
(* (ShownIsAsked).                                                         *)
(***************************************************************************)
EXTENDS Standings, SequenceTheorems, FiniteSetTheorems, TLAPS

\* Seven fractions below one: fewer than seven entries are left over.  With n in
\* hundreds and the rest, the floors are linear in both.
LEMMA FewAreLeft ==
  ASSUME NEW n \in Nat
  PROVE  /\ Floor(n) \in [Letter -> Nat]
         /\ Left(n) \in 0..6
         /\ Floor(n).b = Floor(n).c /\ Floor(n).c = Floor(n).d /\ Floor(n).d = Floor(n).e
         /\ Floor(n).f - (Floor(n).s + Floor(n).a) \in {0, 1}
  <1>1. PICK q \in Nat, r \in 0..99 : n = 100 * q + r
    <2>1. n \div 100 \in Nat /\ n % 100 \in 0..99 /\ n = 100 * (n \div 100) + (n % 100)
      OBVIOUS
    <2> QED BY <2>1
  <1>2. /\ Floor(n) \in [Letter -> Nat]
        /\ Floor(n).s = q
        /\ Floor(n).a = 7 * q + ((7 * r) \div 100)
        /\ Floor(n).f = 8 * q + ((8 * r) \div 100)
        /\ \A l \in {"b", "c", "d", "e"} : Floor(n)[l] = 21 * q + ((21 * r) \div 100)
    BY <1>1 DEF Floor, Letter, Percent
  <1>3. /\ Floor(n).b = 21 * q + ((21 * r) \div 100)
        /\ Floor(n).c = 21 * q + ((21 * r) \div 100)
        /\ Floor(n).d = 21 * q + ((21 * r) \div 100)
        /\ Floor(n).e = 21 * q + ((21 * r) \div 100)
    BY <1>2
  <1>4. Left(n) = r - 4 * ((21 * r) \div 100) - ((7 * r) \div 100) - ((8 * r) \div 100)
    BY <1>1, <1>2, <1>3 DEF Left
  <1>5. Left(n) \in 0..6
    BY <1>1, <1>4
  <1>6. Floor(n).f - (Floor(n).s + Floor(n).a) \in {0, 1}
    BY <1>1, <1>2
  <1> QED BY <1>2, <1>3, <1>5, <1>6

\* Whose turn it is at each step.
LEMMA Extra ==
  ASSUME NEW n \in Nat, NEW l \in Letter
  PROVE  Allocation(n)[l] = Floor(n)[l] +
           IF \/ l = "d" /\ Left(n) >= 1
              \/ l = "c" /\ Left(n) >= 2
              \/ l = "e" /\ Left(n) >= 3
              \/ l = "b" /\ Left(n) >= 4
              \/ l = "a" /\ Left(n) >= (IF Floor(n).f > Floor(n).s + Floor(n).a THEN 5 ELSE 6)
              \/ l = "f" /\ Left(n) >= (IF Floor(n).f > Floor(n).s + Floor(n).a THEN 6 ELSE 5)
           THEN 1 ELSE 0
  <1>1. Allocation(n)[l] = Floor(n)[l] +
          IF \E k \in 1..7 : k <= Left(n) /\ Turns(n)[k] = l THEN 1 ELSE 0
    BY DEF Allocation
  <1>2. Left(n) \in 0..6
    BY FewAreLeft
  <1>3. CASE Floor(n).f > Floor(n).s + Floor(n).a
    <2>1. Turns(n) = <<"d", "c", "e", "b", "a", "f", "s">>
      BY <1>3 DEF Turns
    <2> QED BY <1>1, <1>2, <1>3, <2>1 DEF Letter
  <1>4. CASE ~(Floor(n).f > Floor(n).s + Floor(n).a)
    <2>1. Turns(n) = <<"d", "c", "e", "b", "f", "a", "s">>
      BY <1>4 DEF Turns
    <2> QED BY <1>1, <1>2, <1>4, <2>1 DEF Letter
  <1> QED BY <1>3, <1>4

\* The allocation gives every ranked entry one letter, as many to each of the
\* middle letters up to one, and as many to S and A together as to F or one
\* less, for every number of ranked entries (ranking_service.py says "S+A = F").
THEOREM AllocationIsFair ==
  ASSUME NEW n \in Nat
  PROVE  AllocationFair(n)
  <1> DEFINE x == Allocation(n)
             y == Floor(n)
  <1>1. /\ y \in [Letter -> Nat] /\ Left(n) \in 0..6
        /\ y.b = y.c /\ y.c = y.d /\ y.d = y.e
        /\ y.f - (y.s + y.a) \in {0, 1}
    BY FewAreLeft
  <1>2. Left(n) = n - (y.s + y.a + y.b + y.c + y.d + y.e + y.f)
    BY DEF Left
  <1>3. \A l \in Letter : y[l] \in Nat
    BY <1>1
  <1>4. /\ x.d = y.d + IF Left(n) >= 1 THEN 1 ELSE 0
        /\ x.c = y.c + IF Left(n) >= 2 THEN 1 ELSE 0
        /\ x.e = y.e + IF Left(n) >= 3 THEN 1 ELSE 0
        /\ x.b = y.b + IF Left(n) >= 4 THEN 1 ELSE 0
        /\ x.s = y.s
    BY Extra, <1>1 DEF Letter
  <1>5. /\ x.a = y.a + IF Left(n) >= (IF y.f > y.s + y.a THEN 5 ELSE 6) THEN 1 ELSE 0
        /\ x.f = y.f + IF Left(n) >= (IF y.f > y.s + y.a THEN 6 ELSE 5) THEN 1 ELSE 0
    BY Extra DEF Letter
  <1> HIDE DEF x, y
  <1>6. /\ y.s \in Nat /\ y.a \in Nat /\ y.b \in Nat /\ y.c \in Nat
        /\ y.d \in Nat /\ y.e \in Nat /\ y.f \in Nat
    BY <1>3 DEF Letter
  <1>7. x.s + x.a + x.b + x.c + x.d + x.e + x.f = n
    <2> DEFINE left == Left(n)
    <2>1. left \in 0..6 /\ left = n - (y.s + y.a + y.b + y.c + y.d + y.e + y.f)
      BY <1>1, <1>2
    <2>2. x.b + x.c + x.d + x.e = y.b + y.c + y.d + y.e + IF left >= 4 THEN 4 ELSE left
      BY <2>1, <1>4, <1>6
    <2>3. x.s + x.a + x.f = y.s + y.a + y.f + IF left >= 4 THEN left - 4 ELSE 0
      BY <2>1, <1>4, <1>5, <1>6
    <2> HIDE DEF left
    <2>4. /\ x.b \in Nat /\ x.c \in Nat /\ x.d \in Nat /\ x.e \in Nat
          /\ x.s \in Nat /\ x.a \in Nat /\ x.f \in Nat
      BY <1>4, <1>5, <1>6
    <2>5. x.s + x.a + x.b + x.c + x.d + x.e + x.f
            = (x.b + x.c + x.d + x.e) + (x.s + x.a + x.f)
      BY <2>4
    <2>6. y.s + y.a + y.b + y.c + y.d + y.e + y.f
            = (y.b + y.c + y.d + y.e) + (y.s + y.a + y.f)
      BY <1>6
    <2>7. /\ y.b + y.c + y.d + y.e \in Nat /\ y.s + y.a + y.f \in Nat
      BY <1>6
    <2> QED BY <2>1, <2>2, <2>3, <2>5, <2>6, <2>7
  <1>8. x.d >= x.c /\ x.c >= x.e /\ x.e >= x.b /\ x.d - x.b <= 1
    BY <1>1, <1>4, <1>6
  <1>9. x.f - (x.s + x.a) \in {0, 1}
    BY <1>1, <1>4, <1>5, <1>6
  <1> QED BY <1>7, <1>8, <1>9 DEF AllocationFair, x

-----------------------------------------------------------------------------
(* The order of the rows, and the ranking it gives *)

RowsTyped == row \in [Entry -> RowType \cup {None}]

LEMMA RowFacts ==
  ASSUME RowsTyped, NEW e \in Rows
  PROVE  /\ e \in Entry /\ e \in Nat
         /\ row[e] \in RowType
         /\ row[e].mmr \in Int /\ row[e].last \in Nat /\ row[e].played \in BOOLEAN
<1>1. e \in Entry /\ row[e] \in RowType /\ e \in Nat
  BY BoundsAssumption DEF RowsTyped, Rows
<1>2. row[e].mmr \in Rating /\ row[e].last \in 0..MaxDay /\ row[e].played \in BOOLEAN
  BY <1>1 DEF RowType
<1>3. Rating \subseteq Int /\ MaxDay \in Nat
  BY BoundsAssumption
<1>4. row[e].last \in Nat
  BY <1>2, <1>3
<1>5. row[e].mmr \in Int
  BY <1>2, <1>3
<1> QED BY <1>1, <1>2, <1>4, <1>5

\* Rows are totally ordered.
LEMMA AheadOrders ==
  ASSUME RowsTyped
  PROVE  /\ \A e, f \in Rows : e # f => Ahead(e, f) \/ Ahead(f, e)
         /\ \A e, f \in Rows : ~(Ahead(e, f) /\ Ahead(f, e))
         /\ \A e, f, g \in Rows : Ahead(e, f) /\ Ahead(f, g) => Ahead(e, g)
<1>1. \A e \in Rows : e \in Nat /\ row[e].mmr \in Int /\ row[e].last \in Nat
  BY RowFacts
<1>2. \A e, f \in Rows : e # f => Ahead(e, f) \/ Ahead(f, e)
  BY <1>1 DEF Ahead
<1>3. \A e, f \in Rows : ~(Ahead(e, f) /\ Ahead(f, e))
  BY <1>1 DEF Ahead
<1>4. \A e, f, g \in Rows : Ahead(e, f) /\ Ahead(f, g) => Ahead(e, g)
  BY <1>1 DEF Ahead
<1> QED BY <1>2, <1>3, <1>4

\* A ranking is up to date when it lists whoever is to be ranked, best first.
UpToDate(r) ==
  /\ {e \in Rows : IsRanked(e)} \subseteq ToSet(r)
  /\ \A i, j \in DOMAIN r : i < j => Ahead(r[i], r[j])

\* Whoever has fewer ahead comes first, so counting those ahead ranks the rows: each has a
\* place of its own, and every place is taken.
LEMMA RankedOK ==
  ASSUME RowsTyped
  PROVE  Ranked \in Seq(Entry) /\ IsInjective(Ranked) /\ UpToDate(Ranked)
<1> DEFINE L == {e \in Rows : IsRanked(e)}
           above(e) == {f \in L : Ahead(f, e)}
           N == Cardinality(L)
           place == [e \in L |-> 1 + Cardinality(above(e))]
<1>1. L \subseteq Rows /\ L \subseteq Entry /\ IsFiniteSet(L) /\ N \in Nat
  <2>1. L \subseteq Rows /\ L \subseteq Entry
    BY DEF Rows
  <2>2. IsFiniteSet(L)
    BY <2>1, BoundsAssumption, FS_Subset
  <2> QED BY <2>1, <2>2, FS_CardinalityType
<1>2. Ranked = Inverse(place, L, 1..N)
  BY DEF Ranked
<1>3. \A e \in L : IsFiniteSet(above(e)) /\ Cardinality(above(e)) \in Nat
  BY <1>1, FS_Subset, FS_CardinalityType
<1> HIDE DEF L
<1>4. ASSUME NEW e \in L PROVE place[e] \in 1..N
  <2>1. above(e) \in SUBSET (L \ {e})
    BY <1>1, AheadOrders
  <2>2. IsFiniteSet(L \ {e}) /\ Cardinality(L \ {e}) = N - 1
    BY <1>1, FS_RemoveElement
  <2>3. Cardinality(above(e)) <= N - 1
    BY <2>1, <2>2, FS_Subset
  <2> QED BY <1>1, <1>3, <2>3
<1>5. ASSUME NEW e \in L, NEW f \in L, Ahead(e, f) PROVE place[e] < place[f]
  <2>1. above(e) \cup {e} \in SUBSET above(f)
    BY <1>1, <1>5, AheadOrders
  <2>2. e \notin above(e)
    BY <1>1, AheadOrders
  <2>3. Cardinality(above(e) \cup {e}) = Cardinality(above(e)) + 1
    BY <1>3, <2>2, FS_AddElement
  <2>4. Cardinality(above(e) \cup {e}) <= Cardinality(above(f))
    BY <1>3, <2>1, FS_Subset
  <2>5. Cardinality(above(e)) \in Nat /\ Cardinality(above(f)) \in Nat
    BY <1>3
  <2>6. place[e] = 1 + Cardinality(above(e)) /\ place[f] = 1 + Cardinality(above(f))
    OBVIOUS
  <2> HIDE DEF place, above
  <2> QED BY <2>3, <2>4, <2>5, <2>6
<1>6. place \in [L -> 1..N]
  <2>1. place = [e \in L |-> place[e]]
    OBVIOUS
  <2> HIDE DEF place
  <2> QED BY <1>4, <2>1
<1> HIDE DEF place, above, N
<1>7. \A e, f \in L : place[e] = place[f] => e = f
  <2> SUFFICES ASSUME NEW e \in L, NEW f \in L, e # f PROVE place[e] # place[f]
    OBVIOUS
  <2>1. Ahead(e, f) \/ Ahead(f, e)
    BY <1>1, AheadOrders
  <2>2. place[e] \in Int /\ place[f] \in Int
    BY <1>4
  <2> QED BY <1>5, <2>1, <2>2
<1>8. place \in Injection(L, 1..N)
  BY <1>6, <1>7 DEF Injection, IsInjective
<1>9. IsFiniteSet(1..N) /\ Cardinality(1..N) = N
  BY <1>1, FS_Interval
<1>10. \A t \in 1..N : \E e \in L : place[e] = t
  <2>1. place \in Surjection(L, 1..N)
    BY <1>8, <1>9, FS_Injection DEF N
  <2> QED BY <2>1 DEF Surjection
<1>11. /\ DOMAIN Ranked = 1..N
       /\ \A t \in 1..N : Ranked[t] \in L /\ place[Ranked[t]] = t
  <2>1. Ranked = [t \in 1..N |-> CHOOSE s \in L : t \in Range(place) => place[s] = t]
    BY <1>2 DEF Inverse
  <2>2. ASSUME NEW t \in 1..N PROVE Ranked[t] \in L /\ place[Ranked[t]] = t
    <3>1. PICK e \in L : place[e] = t
      BY <1>10
    <3>2. t \in Range(place)
      BY <1>6, <3>1 DEF Range
    <3>3. \E s \in L : t \in Range(place) => place[s] = t
      BY <3>1
    <3>4. Ranked[t] = CHOOSE s \in L : t \in Range(place) => place[s] = t
      BY <2>1
    <3> QED BY <3>2, <3>3, <3>4
  <2> QED BY <2>1, <2>2
<1>12. Ranked \in Seq(Entry)
  <2>1. Ranked = [t \in 1..N |-> Ranked[t]]
    BY <1>2, <1>11 DEF Inverse
  <2>2. N \in Nat /\ \A t \in 1..N : Ranked[t] \in Entry
    BY <1>1, <1>11
  <2> HIDE DEF N
  <2> QED BY <2>1, <2>2
<1>13. IsInjective(Ranked)
  BY <1>11 DEF IsInjective
<1>14. L \subseteq ToSet(Ranked)
  <2> SUFFICES ASSUME NEW e \in L PROVE \E t \in 1..N : Ranked[t] = e
    BY <1>11 DEF ToSet
  <2>1. place[e] \in 1..N /\ Ranked[place[e]] \in L /\ place[Ranked[place[e]]] = place[e]
    BY <1>6, <1>11
  <2> QED BY <1>7, <2>1
<1>15. ASSUME NEW i \in DOMAIN Ranked, NEW j \in DOMAIN Ranked, i < j
       PROVE  Ahead(Ranked[i], Ranked[j])
  <2>1. /\ Ranked[i] \in L /\ place[Ranked[i]] = i
        /\ Ranked[j] \in L /\ place[Ranked[j]] = j
    BY <1>11, <1>15
  <2>2. i \in Int /\ j \in Int
    BY <1>11
  <2>3. Ranked[i] # Ranked[j] /\ ~Ahead(Ranked[j], Ranked[i])
    BY <1>5, <1>15, <2>1, <2>2
  <2> QED BY <1>1, <2>1, <2>3, AheadOrders
<1> QED BY <1>12, <1>13, <1>14, <1>15 DEF UpToDate, L

-----------------------------------------------------------------------------
(* Pages *)

\* Even no rows fill a page, and no number of rows more than the menu offers.
LEMMA PagesOK ==
  ASSUME NEW n \in Nat
  PROVE  Pages(n) \in 1..MaxPages
<1>1. PageSize \in Nat \ {0} /\ MaxPages \in Nat \ {0}
  BY BoundsAssumption
<1>2. CASE n = 0
  BY <1>1, <1>2 DEF Pages, Least
<1>3. CASE n # 0
  <2> DEFINE q == (n + PageSize - 1) \div PageSize
             r == (n + PageSize - 1) % PageSize
  <2>1. q \in Int /\ r \in 0..(PageSize - 1) /\ n + PageSize - 1 = PageSize * q + r
    BY <1>1
  <2>2. Pages(n) = Least(MaxPages, q)
    BY <1>3 DEF Pages
  <2> HIDE DEF q, r
  <2>3. q >= 1
    <3>1. PageSize * q >= n
      BY <1>1, <2>1
    <3>2. PageSize * q > 0
      BY <1>1, <1>3, <2>1, <3>1
    <3> QED BY <1>1, <2>1, <3>2
  <2> QED BY <1>1, <2>1, <2>2, <2>3 DEF Least
<1> QED BY <1>2, <1>3

\* What the filters leave are rows that were asked for, and of each player one when the
\* best race was.
LEMMA FilteredOK ==
  ASSUME RowsTyped, NEW ask \in Ask, NEW table, DOMAIN table = Rows
  PROVE  /\ Filtered(table, ask) \subseteq Rows \cap ask.only
         /\ ask.best => \A e, f \in Filtered(table, ask) : PlayerOf[e] = PlayerOf[f] => e = f
<1> DEFINE placed == {e \in DOMAIN table : table[e].letter # "u"}
<1>1. Filtered(table, ask) \subseteq (IF ask.best THEN BestOf(placed) ELSE placed) \cap ask.only
  BY DEF Filtered
<1>2. BestOf(placed) \subseteq placed /\ placed \subseteq Rows
  BY DEF BestOf
<1>3. \A e, f \in BestOf(placed) : PlayerOf[e] = PlayerOf[f] => e = f
  <2> SUFFICES ASSUME NEW e \in BestOf(placed), NEW f \in BestOf(placed),
                      PlayerOf[e] = PlayerOf[f], e # f
               PROVE  FALSE
    OBVIOUS
  <2>1. e \in placed /\ f \in placed /\ ~Ahead(f, e) /\ ~Ahead(e, f)
    <3> HIDE DEF placed
    <3> QED BY DEF BestOf
  <2> QED BY <1>2, <2>1, AheadOrders
<1> HIDE DEF placed
<1> QED BY <1>1, <1>2, <1>3

\* A page answers the question it was asked.
Answers(p, ask) ==
  /\ p.page = ask.page
  /\ ToSet(p.entries) \subseteq ask.only
  /\ ask.best => \A e, f \in ToSet(p.entries) : PlayerOf[e] = PlayerOf[f] => e = f

LEMMA PageOK ==
  ASSUME RowsTyped, NEW ask \in Ask, NEW table, DOMAIN table = Rows
  PROVE  /\ Page(table, ask) \in PageType
         /\ Len(Page(table, ask).entries) <= PageSize
         /\ Answers(Page(table, ask), ask)
<1> DEFINE found == Filtered(table, ask)
           above(e) == {f \in found : \/ table[f].place < table[e].place
                                     \/ (table[f].place = table[e].place /\ f <= e)}
           order == Inverse([e \in found |-> Cardinality(above(e))], found,
                            1..Cardinality(found))
           total == Pages(Len(order))
           first == (ask.page - 1) * PageSize + 1
           last == Least(ask.page, total) * PageSize
           upto == Least(last, Len(order))
           entries == SubSeq(order, first, upto)
<1>0. Page(table, ask) = [page |-> ask.page, total |-> total, entries |-> entries]
  BY DEF Page
<1>1. found \subseteq Rows /\ found \subseteq Entry /\ found \subseteq ask.only
      /\ IsFiniteSet(found) /\ Cardinality(found) \in Nat
  <2>1. found \subseteq Rows /\ found \subseteq ask.only
    BY FilteredOK
  <2>2. found \subseteq Entry
    BY <2>1 DEF Rows
  <2>3. IsFiniteSet(found)
    BY <2>2, BoundsAssumption, FS_Subset
  <2> QED BY <2>1, <2>2, <2>3, FS_CardinalityType
<1>2. order \in Seq(found) /\ Len(order) \in Nat
  <2> DEFINE g == [e \in found |-> Cardinality(above(e))]
             N == Cardinality(found)
  <2>1. order = [t \in 1..N |-> CHOOSE s \in found : t \in Range(g) => g[s] = t]
    BY DEF Inverse
  <2>2. ASSUME NEW t \in 1..N
        PROVE  (CHOOSE s \in found : t \in Range(g) => g[s] = t) \in found
    <3>1. found # {}
      BY <1>1, <2>2, FS_EmptySet
    <3>2. \E s \in found : t \in Range(g) => g[s] = t
      <4>1. DOMAIN g = found
        OBVIOUS
      <4> HIDE DEF g, found
      <4> QED BY <3>1, <4>1 DEF Range
    <3> HIDE DEF g, found
    <3> QED BY <3>2
  <2> HIDE DEF g, found, order
  <2>3. N \in Nat
    BY <1>1
  <2> HIDE DEF N
  <2>4. order \in Seq(found)
    BY <2>1, <2>2, <2>3
  <2> QED BY <2>4, LenProperties
<1> HIDE DEF order, found
<1>3. total \in 1..MaxPages
  BY <1>2, PagesOK
<1>4. ask.page \in Nat \ {0} /\ PageSize \in Nat \ {0} /\ MaxPages \in Nat \ {0}
  BY BoundsAssumption DEF Ask
<1> HIDE DEF total
<1>5. first \in Nat \ {0} /\ last \in Nat /\ last <= first + PageSize - 1
  <2> DEFINE k == Least(ask.page, total)
  <2>1. k \in Nat /\ k <= ask.page
    BY <1>3, <1>4 DEF Least
  <2>2. last = k * PageSize
    OBVIOUS
  <2> HIDE DEF k, last
  <2>3. (ask.page - 1) * PageSize \in Nat /\ ask.page * PageSize = (ask.page - 1) * PageSize + PageSize
    BY <1>4
  <2>4. k * PageSize \in Nat /\ k * PageSize <= ask.page * PageSize
    BY <1>4, <2>1
  <2> QED BY <1>4, <2>2, <2>3, <2>4
<1>6. upto \in Nat /\ upto <= Len(order) /\ upto <= first + PageSize - 1
  BY <1>2, <1>4, <1>5 DEF Least
<1> HIDE DEF first, last, upto
<1>7. /\ entries \in Seq(found) /\ Len(entries) <= PageSize
      /\ ToSet(entries) \subseteq found
  <2>1. \A i \in first..upto : order[i] \in found
    BY <1>2, <1>5, <1>6, ElementOfSeq
  <2>2. entries \in Seq(found)
    BY <1>2, <1>5, <1>6, <2>1
  <2>3. Len(entries) <= PageSize
    BY <1>2, <1>4, <1>5, <1>6
  <2> HIDE DEF entries
  <2> QED BY <2>2, <2>3, ElementOfSeq, LenProperties DEF ToSet
<1> HIDE DEF entries
<1>8. entries \in Seq(Entry)
  BY <1>1, <1>7
<1>9. Page(table, ask) \in PageType
  BY <1>0, <1>3, <1>4, <1>8 DEF PageType
<1>10. ask.best => \A e, f \in ToSet(entries) : PlayerOf[e] = PlayerOf[f] => e = f
  BY <1>7, FilteredOK DEF found
<1> QED BY <1>0, <1>1, <1>7, <1>9, <1>10 DEF Answers

-----------------------------------------------------------------------------
(* Types *)

\* The rank button stays among its values.
LEMMA NextRankType ==
  /\ RankChoices \in Seq({"all"} \cup Letter) /\ RankChoices[1] = "all"
  /\ 1 \in DOMAIN RankChoices
  /\ \A r \in ToSet(RankChoices) : NextRank(r) \in ToSet(RankChoices)
<1>1. <<"all">> \in Seq({"all"} \cup Letter) /\ Len(<<"all">>) = 1 /\ <<"all">>[1] = "all"
  OBVIOUS
<1>2. RankCycle \in Seq({"all"} \cup Letter)
  BY ValuesAssumption
<1>3. RankChoices \in Seq({"all"} \cup Letter) /\ Len(RankChoices) = 1 + Len(RankCycle)
      /\ RankChoices[1] = "all"
  BY <1>1, <1>2, ConcatProperties, LenProperties DEF RankChoices
<1>4. Len(RankChoices) \in Nat \ {0} /\ DOMAIN RankChoices = 1..Len(RankChoices)
  BY <1>2, <1>3, LenProperties
<1>5. ASSUME NEW r \in ToSet(RankChoices) PROVE NextRank(r) \in ToSet(RankChoices)
  <2> DEFINE i == CHOOSE k \in DOMAIN RankChoices : RankChoices[k] = r
  <2>1. i \in DOMAIN RankChoices
    BY <1>5 DEF ToSet
  <2>2. NextRank(r) = RankChoices[(i % Len(RankChoices)) + 1]
    BY DEF NextRank
  <2> HIDE DEF i
  <2>3. (i % Len(RankChoices)) + 1 \in DOMAIN RankChoices
    BY <1>4, <2>1
  <2> QED BY <2>2, <2>3 DEF ToSet
<1> QED BY <1>3, <1>4, <1>5

LEMMA TypeInit == Init => TypeOK
<1> SUFFICES ASSUME Init PROVE TypeOK
  OBVIOUS
<1>1. RowsTyped
  <2>1. Loaded \subseteq RowType \cup {None}
    <3>1. 0 \in 0..MaxDay
      BY BoundsAssumption
    <3> QED BY <3>1 DEF Loaded, RowType
  <2> QED BY <2>1 DEF Init, RowsTyped
<1>2. \A e \in Rows : row[e].last <= now /\ (row[e].match = None \/ row[e].match <= row[e].last)
  <2> SUFFICES ASSUME NEW e \in Rows PROVE row[e].last = 0 /\ row[e].match = 0
    BY DEF Init
  <2>1. row[e] \in [mmr : Rating, played : {TRUE}, last : {0}, match : {0}]
    BY DEF Init, Loaded, Rows
  <2> QED BY <2>1
<1>3. now \in 0..MaxDay /\ waiting \in 0..(2 * changes) /\ changes \in 0..MaxChanges
  BY BoundsAssumption DEF Init
<1>4. view \in Ask
  <2>1. "all" \in ToSet(RankChoices)
    BY NextRankType DEF ToSet
  <2> QED BY <2>1, BoundsAssumption DEF Init, NoFilters, Ask
<1>5. fetches \in Seq(Fetch) /\ \A i \in DOMAIN fetches : Len(fetches[i].page.entries) <= PageSize
  BY DEF Init
<1>6. ranking \in Seq(Entry) /\ IsInjective(ranking)
  BY <1>1, RankedOK DEF Init
<1> QED BY <1>1, <1>2, <1>3, <1>4, <1>5, <1>6 DEF Init, TypeOK, RowsTyped

\* A change of the ratings: the new rows are rows, and what is asked for is counted.
LEMMA TypeChange ==
  ASSUME TypeOK, Changes, NEW n \in 0..2, waiting' = waiting + n,
         RowsTyped',
         \A e \in Rows' : /\ row'[e].last <= now
                          /\ row'[e].match = None \/ row'[e].match <= row'[e].last,
         UNCHANGED <<now, rankVars, viewVars>>, drifted' \in BOOLEAN
  PROVE  TypeOK'
<1>1. waiting' \in 0..(2 * changes') /\ changes' \in 0..MaxChanges
  BY BoundsAssumption DEF Changes, TypeOK
<1>2. /\ UNCHANGED <<now, fresh, ranking, view, lookup, fetches, shown, overlapped>>
  BY DEF rankVars, viewVars
<1> QED BY <1>1, <1>2 DEF TypeOK, RowsTyped

\* A new question is one.
LEMMA TypeLookUp ==
  ASSUME TypeOK, NEW ask \in Ask, LookUp(ask)
  PROVE  /\ view' \in Ask /\ view' = ask /\ lookup' \in LookUpType /\ lookup'.ask = ask
         /\ lookup' # None
         /\ UNCHANGED <<row, now, waiting, changes, fresh, ranking, drifted>>
<1>1. lookup' = [ask |-> ask, from |-> ranking] /\ view' = ask
  BY DEF LookUp
<1>2. lookup' \in LookUpType /\ lookup'.ask = ask
  BY <1>1 DEF LookUpType, TypeOK
<1>3. lookup' # None
  BY <1>2, ValuesAssumption
<1> QED BY <1>1, <1>2, <1>3 DEF LookUp, ratingVars, rankVars

\* Taking out one leaves the others.
LEMMA RemoveAtType ==
  ASSUME NEW S, NEW s \in Seq(S), NEW i \in DOMAIN s
  PROVE  RemoveAt(s, i) \in Seq(S) /\ Len(RemoveAt(s, i)) = Len(s) - 1
<1>1. Len(s) \in Nat /\ DOMAIN s = 1..Len(s) /\ i \in 1..Len(s)
  BY LenProperties
<1>2. \A k \in 1..Len(s) : s[k] \in S
  BY ElementOfSeq
<1> DEFINE a == SubSeq(s, 1, i - 1)
           b == SubSeq(s, i + 1, Len(s))
<1>3. a \in Seq(S) /\ Len(a) = i - 1
  <2>1. 1 \in Int /\ i - 1 \in Int /\ \A k \in 1..(i - 1) : s[k] \in S
    BY <1>1, <1>2
  <2>2. a \in Seq(S) /\ Len(a) = IF 1 <= i - 1 THEN (i - 1) - 1 + 1 ELSE 0
    BY <2>1, SubSeqProperties
  <2> HIDE DEF a
  <2> QED BY <1>1, <2>2
<1>4. b \in Seq(S) /\ Len(b) = Len(s) - i
  <2>1. i + 1 \in Int /\ Len(s) \in Int /\ \A k \in (i + 1)..Len(s) : s[k] \in S
    BY <1>1, <1>2
  <2>2. b \in Seq(S) /\ Len(b) = IF i + 1 <= Len(s) THEN Len(s) - (i + 1) + 1 ELSE 0
    BY <2>1, SubSeqProperties
  <2> HIDE DEF b
  <2> QED BY <1>1, <2>2
<1>5. RemoveAt(s, i) = a \o b
  BY DEF RemoveAt
<1> HIDE DEF a, b
<1>6. a \o b \in Seq(S) /\ Len(a \o b) = Len(a) + Len(b)
  BY <1>3, <1>4, ConcatProperties
<1> QED BY <1>1, <1>3, <1>4, <1>5, <1>6

\* A page that was looked up is fetched.
LEMMA TypeFetch ==
  ASSUME TypeOK, FinishLookUp
  PROVE  \E f \in Fetch : /\ fetches' = Append(fetches, f) /\ f.ask = lookup.ask
                          /\ Len(f.page.entries) <= PageSize /\ Answers(f.page, f.ask)
<1>1. PICK j \in Nat :
        fetches' = Append(fetches, [ask |-> lookup.ask, page |-> Page(Table(j), lookup.ask)])
  <2>1. IsFiniteSet(Rows) /\ Cardinality(Rows) \in Nat
    BY BoundsAssumption, FS_Subset, FS_CardinalityType DEF Rows
  <2> QED BY <2>1 DEF FinishLookUp
<1> DEFINE p == Page(Table(j), lookup.ask)
           f == [ask |-> lookup.ask, page |-> p]
<1>2. lookup.ask \in Ask /\ DOMAIN Table(j) = Rows /\ RowsTyped
  BY DEF FinishLookUp, TypeOK, LookUpType, Table, RowsTyped
<1>3. p \in PageType /\ Len(p.entries) <= PageSize /\ Answers(p, lookup.ask)
  BY <1>2, PageOK
<1> HIDE DEF p
<1>4. f \in Fetch /\ f.ask = lookup.ask /\ f.page = p
  BY <1>2, <1>3 DEF Fetch
<1> QED BY <1>1, <1>3, <1>4 DEF p

\* Nothing of the ratings changes, the message and what it waits for may.
LEMMA TypeView ==
  ASSUME TypeOK, UNCHANGED <<ratingVars, now, rankVars>>,
         view' \in Ask, lookup' \in LookUpType \cup {None},
         fetches' \in Seq({f \in Fetch : Len(f.page.entries) <= PageSize}),
         shown' \in Message \cup {None}, shown' # None => Len(shown'.page.entries) <= PageSize,
         overlapped' \in BOOLEAN
  PROVE  TypeOK'
<1>1. UNCHANGED <<row, now, waiting, changes, fresh, ranking, drifted>>
  BY DEF ratingVars, rankVars
<1>2. fetches' \in Seq(Fetch) /\ \A i \in DOMAIN fetches' : Len(fetches'[i].page.entries) <= PageSize
  <2>1. Len(fetches') \in Nat /\ DOMAIN fetches' = 1..Len(fetches')
        /\ \A i \in 1..Len(fetches') : fetches'[i] \in Fetch /\ Len(fetches'[i].page.entries) <= PageSize
    BY LenProperties, ElementOfSeq
  <2>2. fetches' \in Seq(Fetch)
    OBVIOUS
  <2> QED BY <2>1, <2>2
<1> QED BY <1>1, <1>2 DEF TypeOK, Rows

\* The pages in the executor, by what is known of them.
LEMMA FetchesType ==
  ASSUME TypeOK
  PROVE  /\ fetches \in Seq({f \in Fetch : Len(f.page.entries) <= PageSize})
         /\ Len(fetches) \in Nat /\ DOMAIN fetches = 1..Len(fetches)
<1>1. /\ fetches \in Seq(Fetch) /\ Len(fetches) \in Nat /\ DOMAIN fetches = 1..Len(fetches)
      /\ \A i \in 1..Len(fetches) : fetches[i] \in Fetch /\ Len(fetches[i].page.entries) <= PageSize
  BY LenProperties, ElementOfSeq DEF TypeOK
<1> QED BY <1>1

LEMMA TypeClick ==
  ASSUME TypeOK, NEW ask \in Ask, Click(ask)
  PROVE  TypeOK'
<1>1. /\ LookUp(ask) /\ UNCHANGED <<fetches, shown>> /\ overlapped' \in BOOLEAN
  BY DEF Click
<1>2. view' \in Ask /\ lookup' \in LookUpType
  BY <1>1, TypeLookUp
<1>3. UNCHANGED <<ratingVars, now, rankVars>>
  BY <1>1 DEF LookUp
<1>4. fetches' \in Seq({f \in Fetch : Len(f.page.entries) <= PageSize})
  BY <1>1, FetchesType
<1>5. shown' \in Message \cup {None} /\ (shown' # None => Len(shown'.page.entries) <= PageSize)
  BY <1>1 DEF TypeOK
<1> QED BY <1>1, <1>2, <1>3, <1>4, <1>5, TypeView

\* What a click asks for.
LEMMA ClickAsks ==
  ASSUME TypeOK
  PROVE  /\ view.page > 1 => [view EXCEPT !.page = @ - 1] \in Ask
         /\ [view EXCEPT !.page = @ + 1] \in Ask
         /\ \A p \in 1..MaxPages : [view EXCEPT !.page = p] \in Ask
         /\ [view EXCEPT !.rank = NextRank(@), !.page = 1] \in Ask
         /\ [view EXCEPT !.best = ~@, !.page = 1] \in Ask
         /\ \A S \in Selection : [view EXCEPT !.only = S, !.page = 1] \in Ask
         /\ NoFilters \in Ask
<1>1. /\ view \in Ask /\ view.page \in Nat \ {0} /\ view.rank \in ToSet(RankChoices)
      /\ view.best \in BOOLEAN /\ view.only \in Selection
  BY DEF TypeOK, Ask
<1>9. \A w \in Ask : [w EXCEPT !.page = 1] \in Ask
  BY DEF Ask
<1>2. view.page > 1 => [view EXCEPT !.page = @ - 1] \in Ask
  BY <1>1 DEF Ask
<1>3. [view EXCEPT !.page = @ + 1] \in Ask
  BY <1>1 DEF Ask
<1>4. \A p \in 1..MaxPages : [view EXCEPT !.page = p] \in Ask
  BY <1>1, BoundsAssumption DEF Ask
<1>5. [view EXCEPT !.rank = NextRank(@), !.page = 1] \in Ask
  <2>1. NextRank(view.rank) \in ToSet(RankChoices)
    BY <1>1, NextRankType
  <2>2. [view EXCEPT !.rank = NextRank(@)] \in Ask
    BY <1>1, <2>1 DEF Ask
  <2> QED BY <1>9, <2>2
<1>6. [view EXCEPT !.best = ~@, !.page = 1] \in Ask
  <2>1. (~view.best) \in BOOLEAN /\ \A b \in BOOLEAN : [view EXCEPT !.best = b] \in Ask
    BY <1>1 DEF Ask
  <2>2. [view EXCEPT !.best = ~@] \in Ask
    BY <2>1
  <2> QED BY <1>9, <2>2
<1>7. ASSUME NEW S \in Selection PROVE [view EXCEPT !.only = S, !.page = 1] \in Ask
  <2>1. [view EXCEPT !.only = S] \in Ask
    BY <1>1 DEF Ask
  <2> QED BY <1>9, <2>1
<1>8. NoFilters \in Ask
  <2>1. "all" \in ToSet(RankChoices)
    BY NextRankType DEF ToSet
  <2> QED BY <2>1, BoundsAssumption DEF NoFilters, Ask
<1> QED BY <1>2, <1>3, <1>4, <1>5, <1>6, <1>7, <1>8

\* A click is one of those, on a message that is shown.
IsClick == \E ask \in Ask : Click(ask)
LEMMA ClicksAre ==
  ASSUME TypeOK,
         \/ PreviousPage \/ NextPage \/ CycleRank \/ ToggleBest \/ ClearFilters
         \/ \E p \in 1..MaxPages : GoToPage(p)
         \/ \E S \in Selection : Select(S)
  PROVE  IsClick
<1>1. CASE PreviousPage
  BY <1>1, ClickAsks DEF PreviousPage, IsClick
<1>2. CASE NextPage
  BY <1>2, ClickAsks DEF NextPage, IsClick
<1>3. CASE CycleRank
  BY <1>3, ClickAsks DEF CycleRank, IsClick
<1>4. CASE ToggleBest
  BY <1>4, ClickAsks DEF ToggleBest, IsClick
<1>5. CASE ClearFilters
  BY <1>5, ClickAsks DEF ClearFilters, IsClick
<1>6. CASE \E p \in 1..MaxPages : GoToPage(p)
  BY <1>6, ClickAsks DEF GoToPage, IsClick
<1>7. CASE \E S \in Selection : Select(S)
  BY <1>7, ClickAsks DEF Select, IsClick
<1> QED BY <1>1, <1>2, <1>3, <1>4, <1>5, <1>6, <1>7

LEMMA TypeNext == TypeOK /\ [Next]_vars => TypeOK'
<1> SUFFICES ASSUME TypeOK, [Next]_vars PROVE TypeOK'
  OBVIOUS
<1>0. RowsTyped /\ now \in Nat /\ now \in 0..MaxDay
  BY BoundsAssumption DEF TypeOK, RowsTyped
<1>1. ASSUME NEW e \in Entry, CreateRow(e) PROVE TypeOK'
  <2> DEFINE new == [mmr |-> NewRating, played |-> FALSE, last |-> now, match |-> None]
  <2>1. /\ row' = [row EXCEPT ![e] = new] /\ waiting' = waiting + 1 /\ Changes
        /\ UNCHANGED <<now, rankVars, viewVars, drifted>>
    BY <1>1 DEF CreateRow, AskRefresh
  <2>2. new \in RowType
    BY <1>0, BoundsAssumption DEF RowType
  <2>3. RowsTyped'
    BY <1>0, <2>1, <2>2 DEF RowsTyped
  <2>4. \A f \in Rows' : /\ row'[f].last <= now
                         /\ row'[f].match = None \/ row'[f].match <= row'[f].last
    <3>1. \A f \in Entry : f # e => row'[f] = row[f]
      BY <1>0, <2>1 DEF RowsTyped
    <3>2. row'[e] = new
      BY <1>0, <2>1 DEF RowsTyped
    <3> QED BY <1>0, <3>1, <3>2 DEF Rows, TypeOK
  <2> QED BY <2>1, <2>3, <2>4, TypeChange DEF TypeOK
<1>2. ASSUME NEW e \in Entry, NEW m \in Rating, Rate(e, m) PROVE TypeOK'
  <2> DEFINE new == [mmr |-> m, played |-> TRUE, last |-> now, match |-> now]
  <2>1. /\ row' = [row EXCEPT ![e] = new] /\ waiting' = waiting + 1 /\ Changes
        /\ UNCHANGED <<now, rankVars, viewVars, drifted>>
    BY <1>2 DEF Rate, AskRefresh
  <2>2. new \in RowType
    BY <1>0 DEF RowType
  <2>3. RowsTyped'
    BY <1>0, <2>1, <2>2 DEF RowsTyped
  <2>4. \A f \in Rows' : /\ row'[f].last <= now
                         /\ row'[f].match = None \/ row'[f].match <= row'[f].last
    <3>1. \A f \in Entry : f # e => row'[f] = row[f]
      BY <1>0, <2>1 DEF RowsTyped
    <3>2. row'[e] = new
      BY <1>0, <2>1 DEF RowsTyped
    <3> QED BY <1>0, <3>1, <3>2 DEF Rows, TypeOK
  <2> QED BY <2>1, <2>3, <2>4, TypeChange DEF TypeOK
<1>3. ASSUME NEW e \in Entry, NEW m \in Rating, Adjust(e, m) PROVE TypeOK'
  <2> DEFINE new == [row[e] EXCEPT !.mmr = m, !.last = now]
  <2>1. /\ row' = [row EXCEPT ![e].mmr = m, ![e].last = now] /\ waiting' = waiting + 2 /\ Changes
        /\ UNCHANGED <<now, rankVars, viewVars, drifted>> /\ row[e] # None
    BY <1>3 DEF Adjust, AskRefresh
  <2>2. row[e] \in RowType /\ e \in Rows
    BY <1>0, <2>1 DEF RowsTyped, Rows
  <2>3. new \in RowType /\ new.last = now /\ new.match = row[e].match
    <3>1. [row[e] EXCEPT !.mmr = m] \in RowType /\ [row[e] EXCEPT !.mmr = m].match = row[e].match
      BY <2>2 DEF RowType
    <3>2. \A w \in RowType : /\ [w EXCEPT !.last = now] \in RowType
                             /\ [w EXCEPT !.last = now].last = now
                             /\ [w EXCEPT !.last = now].match = w.match
      BY <1>0 DEF RowType
    <3> QED BY <3>1, <3>2
  <2>4. row' = [row EXCEPT ![e] = new]
    <3>1. \A x : [row EXCEPT ![e] = x][e] = x
      BY <1>0 DEF RowsTyped
    <3> QED BY <1>0, <2>1 DEF RowsTyped
  <2> HIDE DEF new
  <2>5. RowsTyped'
    BY <1>0, <2>3, <2>4 DEF RowsTyped
  <2>6. \A f \in Rows' : /\ row'[f].last <= now
                         /\ row'[f].match = None \/ row'[f].match <= row'[f].last
    <3>1. \A f \in Entry : f # e => row'[f] = row[f]
      BY <1>0, <2>4 DEF RowsTyped
    <3>2. row'[e] = new
      BY <1>0, <2>4 DEF RowsTyped
    <3>3. row[e].match = None \/ row[e].match <= now
      <4>1. row[e].last \in Nat /\ row[e].last <= now
            /\ (row[e].match = None \/ row[e].match <= row[e].last)
        BY <1>0, <2>2, RowFacts DEF TypeOK
      <4>2. row[e].match = None \/ row[e].match \in Nat
        BY <2>2, BoundsAssumption DEF RowType
      <4> QED BY <1>0, <4>1, <4>2
    <3> QED BY <1>0, <2>3, <3>1, <3>2, <3>3 DEF Rows, TypeOK
  <2>7. 2 \in 0..2 /\ drifted' \in BOOLEAN /\ UNCHANGED <<now, rankVars, viewVars>>
    BY <2>1 DEF TypeOK
  <2> QED BY <2>1, <2>5, <2>6, <2>7, TypeChange
<1>4. CASE Reconcile
  <2>1. /\ row' = [e \in Entry |-> Reconciled(e)] /\ waiting' = waiting + 0 /\ Changes
        /\ UNCHANGED <<now, rankVars, viewVars>> /\ drifted' \in BOOLEAN
    BY <1>4 DEF Reconcile, TypeOK
  <2>2. ASSUME NEW e \in Entry
        PROVE  \/ row'[e] = row[e]
               \/ /\ row[e] # None /\ row'[e] \in RowType
                  /\ row'[e].last \in 0..now /\ row'[e].match <= row'[e].last
    <3>1. CASE row[e] = None \/ row[e].match = None
      BY <2>1, <3>1 DEF Reconciled
    <3>2. CASE ~(row[e] = None \/ row[e].match = None)
      <4>1. e \in Rows /\ row[e] \in RowType
        BY <1>0, <3>2 DEF Rows, RowsTyped
      <4>2. row[e].match \in 0..MaxDay
        BY <3>2, <4>1 DEF RowType
      <4>3. row[e].match <= row[e].last /\ row[e].last <= now /\ row[e].last \in Nat
        BY <3>2, <4>1, <1>0, RowFacts DEF TypeOK
      <4>4. row'[e] = [[row[e] EXCEPT !.played = TRUE] EXCEPT !.last = row[e].match]
        BY <2>1, <3>2 DEF Reconciled
      <4>5. [row[e] EXCEPT !.played = TRUE] \in RowType
            /\ [row[e] EXCEPT !.played = TRUE].match = row[e].match
        BY <4>1 DEF RowType
      <4>6. \A w \in RowType, t \in 0..MaxDay :
              /\ [w EXCEPT !.last = t] \in RowType
              /\ [w EXCEPT !.last = t].last = t /\ [w EXCEPT !.last = t].match = w.match
        BY DEF RowType
      <4>7. row'[e] \in RowType /\ row'[e].last = row[e].match /\ row'[e].match = row[e].match
        <5> DEFINE w == [row[e] EXCEPT !.played = TRUE]
        <5>1. w \in RowType /\ w.match = row[e].match /\ row'[e] = [w EXCEPT !.last = row[e].match]
          BY <4>4, <4>5
        <5> HIDE DEF w
        <5> QED BY <4>2, <4>6, <5>1
      <4>8. row[e].match \in Nat
        BY <4>2, BoundsAssumption
      <4> QED BY <1>0, <3>2, <4>3, <4>7, <4>8
    <3> QED BY <3>1, <3>2
  <2>3. RowsTyped'
    BY <1>0, <2>1, <2>2 DEF RowsTyped
  <2>4. \A f \in Rows' : /\ row'[f].last <= now
                         /\ row'[f].match = None \/ row'[f].match <= row'[f].last
    BY <1>0, <2>2 DEF Rows, TypeOK
  <2> QED BY <2>1, <2>3, <2>4, TypeChange
<1>5. CASE DayPasses
  <2>1. UNCHANGED <<row, waiting, changes, drifted, fresh, ranking, view, lookup, fetches, shown,
                    overlapped>> /\ now' = now + 1 /\ now < MaxDay
    BY <1>5 DEF DayPasses, ratingVars, rankVars, viewVars
  <2>2. now' \in 0..MaxDay
    BY <1>0, <2>1, BoundsAssumption
  <2>3. \A e \in Rows : row[e].last <= now' /\ (row[e].match = None \/ row[e].match <= row[e].last)
    <3>1. \A e \in Rows : row[e].last \in Nat /\ row[e].last <= now
      BY <1>0, RowFacts DEF TypeOK
    <3> QED BY <1>0, <2>1, <3>1 DEF TypeOK
  <2> QED BY <2>1, <2>2, <2>3 DEF TypeOK, Rows
<1>6. CASE StartRefresh
  <2>1. UNCHANGED <<row, changes, now, ranking, view, lookup, fetches, shown, overlapped>>
    BY <1>6 DEF StartRefresh, viewVars
  <2>2. fresh' \in Seq(Entry) /\ IsInjective(fresh')
    BY <1>0, <1>6, RankedOK DEF StartRefresh
  <2>3. waiting' \in 0..(2 * changes') /\ drifted' \in BOOLEAN
    <3>1. changes \in Nat /\ waiting \in 0..(2 * changes) /\ waiting' = waiting - 1 /\ waiting > 0
      BY <1>6, BoundsAssumption DEF StartRefresh, TypeOK
    <3>2. changes' = changes /\ drifted' = FALSE
      BY <1>6 DEF StartRefresh
    <3>3. waiting - 1 \in 0..(2 * changes)
      BY <3>1
    <3>4. waiting' \in 0..(2 * changes')
      BY <3>1, <3>2, <3>3
    <3> QED BY <3>2, <3>4
  <2> QED BY <2>1, <2>2, <2>3 DEF TypeOK, Rows
<1>7. CASE PublishRefresh
  <2>1. UNCHANGED <<row, changes, now, waiting, drifted, view, lookup, fetches, shown, overlapped>>
    BY <1>7 DEF PublishRefresh, ratingVars, viewVars
  <2> QED BY <1>7, <2>1 DEF PublishRefresh, TypeOK, Rows
<1>8. CASE OpenLeaderboard
  <2>1. LookUp(NoFilters) /\ fetches' = <<>> /\ shown' = None /\ overlapped' = FALSE
    BY <1>8 DEF OpenLeaderboard
  <2>2. view' \in Ask /\ lookup' \in LookUpType
    BY <2>1, ClickAsks, TypeLookUp
  <2>3. UNCHANGED <<ratingVars, now, rankVars>>
    BY <2>1 DEF LookUp
  <2>4. fetches' \in Seq({f \in Fetch : Len(f.page.entries) <= PageSize})
    BY <2>1
  <2> QED BY <2>1, <2>2, <2>3, <2>4, TypeView
<1>9. CASE IsClick
  BY <1>9, TypeClick DEF IsClick
<1>10. CASE FinishLookUp
  <2>1. PICK f \in Fetch : /\ fetches' = Append(fetches, f)
                           /\ Len(f.page.entries) <= PageSize
    BY <1>10, TypeFetch
  <2>2. /\ lookup' = None
        /\ UNCHANGED <<ratingVars, now, rankVars, view, shown, overlapped>>
    BY <1>10 DEF FinishLookUp
  <2>3. fetches' \in Seq({g \in Fetch : Len(g.page.entries) <= PageSize})
    BY <2>1, FetchesType, AppendProperties
  <2> QED BY <2>2, <2>3, TypeView DEF TypeOK
<1>11. ASSUME NEW i \in DOMAIN fetches, Render(i) PROVE TypeOK'
  <2>1. /\ shown' = [page |-> fetches[i].page, labels |-> Labels]
        /\ fetches' = RemoveAt(fetches, i)
        /\ UNCHANGED <<ratingVars, now, rankVars, view, lookup, overlapped>>
    BY <1>11 DEF Render
  <2>2. fetches' \in Seq({g \in Fetch : Len(g.page.entries) <= PageSize})
    BY <2>1, FetchesType, RemoveAtType
  <2>3. fetches[i] \in Fetch /\ Len(fetches[i].page.entries) <= PageSize
    BY FetchesType, ElementOfSeq
  <2>4. Labels \in [rank : ToSet(RankChoices), best : BOOLEAN, only : Selection]
    BY DEF Labels, TypeOK, Ask
  <2>5. shown' \in Message /\ shown'.page = fetches[i].page
    <3>1. fetches[i].page \in PageType
      BY <2>3 DEF Fetch
    <3> QED BY <2>1, <2>4, <3>1 DEF Message
  <2> QED BY <2>1, <2>2, <2>3, <2>5, TypeView DEF TypeOK
<1>12. CASE TimeOut
  <2>1. /\ shown' = None
        /\ UNCHANGED <<ratingVars, now, rankVars, view, lookup, fetches, overlapped>>
    BY <1>12 DEF TimeOut
  <2> QED BY <2>1, FetchesType, TypeView DEF TypeOK
<1>13. CASE UNCHANGED vars
  BY <1>13 DEF vars, ratingVars, rankVars, viewVars, TypeOK, Rows
<1> QED BY <1>1, <1>2, <1>3, <1>4, <1>5, <1>6, <1>7, <1>8, <1>9, <1>10, <1>11, <1>12, <1>13,
           ClicksAre DEF Next, RatingStep, RankStep, ViewStep

\* The variables keep their types: a ranking lists no entry twice, no row is dated in the
\* future, and a page has rows for one page and at least one page, for every page size,
\* window and number of entries.
THEOREM TypeCorrect == Spec => []TypeOK
BY TypeInit, TypeNext, PTL DEF Spec

-----------------------------------------------------------------------------
(* The rankings catch up *)

\* What will be the ranking once the refresh that runs has published.
Latest == IF fresh = None THEN ranking ELSE fresh
RanksInv == waiting = 0 /\ ~drifted => UpToDate(Latest)

\* An up-to-date ranking stays so while the rows stay, since days only take away.
LEMMA UpToDateStays ==
  ASSUME TypeOK, NEW r, UpToDate(r), row' = row, now' \in Nat, now <= now'
  PROVE  UpToDate(r)'
<1>1. Rows' = Rows /\ \A i, j : Ahead(i, j)' = Ahead(i, j)
  BY DEF Rows, Ahead
<1>2. ASSUME NEW e \in Rows, IsRanked(e)' PROVE IsRanked(e)
  <2>1. row[e].last \in Nat /\ Window \in Nat /\ now \in Nat
    BY RowFacts, BoundsAssumption DEF TypeOK, RowsTyped
  <2> QED BY <1>2, <2>1 DEF IsRanked
<1>3. {e \in Rows : IsRanked(e)}' \subseteq {e \in Rows : IsRanked(e)}
  BY <1>1, <1>2
<1> QED BY <1>1, <1>3 DEF UpToDate

LEMMA RanksNext ==
  ASSUME TypeOK, RanksInv, [Next]_vars
  PROVE  RanksInv'
<1>0. /\ RowsTyped /\ now \in Nat /\ waiting \in Nat
  BY BoundsAssumption DEF TypeOK, RowsTyped
<1>1. CASE \E e \in Entry : CreateRow(e) \/ \E m \in Rating : Rate(e, m) \/ Adjust(e, m)
  <2>1. waiting' > 0
    <3>1. waiting' = waiting + 1 \/ waiting' = waiting + 2
      BY <1>1 DEF CreateRow, Rate, Adjust, AskRefresh
    <3> QED BY <1>0, <3>1
  <2> QED BY <2>1 DEF RanksInv
<1>2. CASE Reconcile
  <2>1. /\ UNCHANGED <<now, waiting, fresh, ranking>> /\ drifted' = (drifted \/ row' # row)
    BY <1>2 DEF Reconcile, rankVars
  <2>2. ~drifted' => ~drifted /\ row' = row
    BY <2>1
  <2> QED BY <1>0, <2>1, <2>2, UpToDateStays DEF RanksInv, Latest
<1>3. CASE DayPasses
  <2>1. UNCHANGED <<row, waiting, drifted, fresh, ranking>> /\ now' = now + 1
    BY <1>3 DEF DayPasses, ratingVars, rankVars
  <2> QED BY <1>0, <2>1, UpToDateStays DEF RanksInv, Latest
<1>4. CASE StartRefresh
  <2>1. fresh' = Ranked /\ UNCHANGED <<row, now>>
    BY <1>4 DEF StartRefresh
  <2>2. fresh' # None /\ UpToDate(Ranked)
    BY <1>0, <2>1, RankedOK, ValuesAssumption
  <2>3. Latest' = Ranked
    BY <2>1, <2>2 DEF Latest
  <2>4. \A r : UpToDate(r) => UpToDate(r)'
    BY <1>0, <2>1, UpToDateStays
  <2> QED BY <2>2, <2>3, <2>4 DEF RanksInv
<1>5. CASE PublishRefresh
  <2>1. /\ fresh # None /\ ranking' = fresh /\ fresh' = None
        /\ UNCHANGED <<row, now, waiting, drifted>>
    BY <1>5 DEF PublishRefresh, ratingVars
  <2> QED BY <1>0, <2>1, UpToDateStays DEF RanksInv, Latest
<1>6. CASE ViewStep \/ UNCHANGED vars
  <2>1. UNCHANGED <<row, now, waiting, drifted, fresh, ranking>>
    BY <1>6 DEF ViewStep, OpenLeaderboard, PreviousPage, NextPage, CycleRank, ToggleBest,
                ClearFilters, GoToPage, Select, Click, LookUp, FinishLookUp, Render, TimeOut,
                ratingVars, rankVars, vars
  <2> QED BY <1>0, <2>1, UpToDateStays DEF RanksInv, Latest
<1> QED BY <1>1, <1>2, <1>3, <1>4, <1>5, <1>6 DEF Next, RatingStep, RankStep

\* When no refresh waits or runs and no row was reconciled since, whoever has played lately
\* is ranked and the order is that of the rows, however changes and refreshes interleaved.
THEOREM RankingsCatchUp == Spec => []RanksCatchUp
<1>1. Init => RanksInv
  <2> SUFFICES ASSUME Init PROVE UpToDate(Latest)
    BY DEF RanksInv
  <2>1. RowsTyped
    BY TypeInit DEF TypeOK, RowsTyped
  <2> QED BY <2>1, RankedOK DEF Init, Latest
<1>2. TypeOK /\ RanksInv /\ [Next]_vars => RanksInv'
  BY RanksNext
<1>3. RanksInv => RanksCatchUp
  BY DEF RanksInv, RanksCatchUp, Latest, UpToDate
<1> QED BY TypeInit, TypeNext, <1>1, <1>2, <1>3, PTL DEF Spec

-----------------------------------------------------------------------------
(* The message shows what was asked *)

\* What makes ShownIsAsked inductive: every page fetched answers its own question, and
\* unless clicks overlap at most one is under way, for the question the view holds.
Fetched == \A i \in DOMAIN fetches : Answers(fetches[i].page, fetches[i].ask)
OneAtATime ==
  /\ lookup # None => fetches = <<>> /\ lookup.ask = view
  /\ lookup = None => Len(fetches) <= 1
  /\ \A i \in DOMAIN fetches : fetches[i].ask = view
  /\ shown # None /\ lookup = None /\ fetches = <<>> =>
       Answers(shown.page, view) /\ shown.labels = Labels
ShownInv == Fetched /\ (~overlapped => OneAtATime)

LEMMA ShownInit == Init => ShownInv
<1> SUFFICES ASSUME Init PROVE ShownInv
  OBVIOUS
<1>1. fetches = <<>> /\ shown = None /\ lookup = None
  BY DEF Init
<1> QED BY <1>1 DEF ShownInv, Fetched, OneAtATime

LEMMA ShownNext ==
  ASSUME TypeOK, ShownInv, [Next]_vars
  PROVE  ShownInv'
<1>1. CASE OpenLeaderboard
  <2>1. LookUp(NoFilters) /\ fetches' = <<>> /\ shown' = None
    BY <1>1 DEF OpenLeaderboard
  <2>2. view' = NoFilters /\ lookup' # None /\ lookup'.ask = NoFilters
    BY <2>1, ClickAsks, TypeLookUp
  <2> QED BY <2>1, <2>2 DEF ShownInv, Fetched, OneAtATime
<1>2. CASE IsClick
  <2>1. PICK ask \in Ask : Click(ask)
    BY <1>2 DEF IsClick
  <2>2. LookUp(ask) /\ UNCHANGED <<fetches, shown>> /\ overlapped' = (fetches # <<>>)
    BY <2>1 DEF Click
  <2>3. view' = ask /\ lookup' # None /\ lookup'.ask = ask
    BY <2>2, TypeLookUp
  <2>4. ~overlapped' => fetches' = <<>>
    BY <2>2
  <2> QED BY <2>2, <2>3, <2>4 DEF ShownInv, Fetched, OneAtATime
<1>3. CASE FinishLookUp
  <2>1. PICK f \in Fetch : /\ fetches' = Append(fetches, f) /\ f.ask = lookup.ask
                           /\ Answers(f.page, f.ask)
    BY <1>3, TypeFetch
  <2>2. lookup # None /\ lookup' = None /\ UNCHANGED <<view, shown, overlapped>>
    BY <1>3 DEF FinishLookUp
  <2>3. /\ fetches \in Seq(Fetch) /\ Len(fetches) \in Nat /\ DOMAIN fetches = 1..Len(fetches)
    BY FetchesType DEF TypeOK
  <2>4. /\ DOMAIN fetches' = 1..(Len(fetches) + 1) /\ Len(fetches') = Len(fetches) + 1
        /\ fetches'[Len(fetches) + 1] = f
        /\ \A i \in 1..Len(fetches) : fetches'[i] = fetches[i]
    BY <2>1, <2>3, AppendProperties, LenProperties
  <2>5. Fetched'
    BY <2>1, <2>3, <2>4 DEF ShownInv, Fetched
  <2>6. ASSUME ~overlapped PROVE OneAtATime'
    <3>1. fetches = <<>> /\ Len(fetches) = 0 /\ f.ask = view
      BY <2>1, <2>2, <2>6 DEF ShownInv, OneAtATime
    <3>2. fetches' # <<>> /\ Len(fetches') = 1 /\ DOMAIN fetches' = {1} /\ fetches'[1].ask = view
      BY <2>4, <3>1
    <3> QED BY <2>2, <3>2 DEF OneAtATime
  <2> QED BY <2>2, <2>5, <2>6 DEF ShownInv
<1>4. ASSUME NEW i \in DOMAIN fetches, Render(i) PROVE ShownInv'
  <2>1. /\ lookup = None /\ shown' = [page |-> fetches[i].page, labels |-> Labels]
        /\ fetches' = RemoveAt(fetches, i)
        /\ UNCHANGED <<view, lookup, overlapped>>
    BY <1>4 DEF Render
  <2> DEFINE G == {f \in Fetch : Answers(f.page, f.ask)}
  <2>2. fetches \in Seq(G)
    <3>1. /\ fetches \in Seq(Fetch) /\ Len(fetches) \in Nat /\ DOMAIN fetches = 1..Len(fetches)
      BY FetchesType DEF TypeOK
    <3>2. \A k \in 1..Len(fetches) : fetches[k] \in G
      BY <3>1, ElementOfSeq DEF ShownInv, Fetched
    <3> HIDE DEF G
    <3> QED BY <3>1, <3>2
  <2>3. fetches' \in Seq(G) /\ Len(fetches') = Len(fetches) - 1
    <3> HIDE DEF G
    <3> QED BY <2>1, <2>2, RemoveAtType
  <2>4. /\ DOMAIN fetches = 1..Len(fetches) /\ Len(fetches) \in Nat
        /\ DOMAIN fetches' = 1..Len(fetches')
    <3> HIDE DEF G
    <3> QED BY <2>2, <2>3, LenProperties
  <2>5. Fetched'
    <3>1. \A k \in 1..Len(fetches') : fetches'[k] \in G
      <4> HIDE DEF G
      <4> QED BY <2>3, ElementOfSeq
    <3> QED BY <2>4, <3>1 DEF Fetched
  <2>6. ASSUME ~overlapped PROVE OneAtATime'
    <3>1. Len(fetches) <= 1 /\ fetches[i].ask = view
      BY <2>1, <2>6 DEF ShownInv, OneAtATime
    <3>2. Len(fetches') = 0 /\ DOMAIN fetches' = {}
      BY <2>3, <2>4, <3>1
    <3>3. Answers(fetches[i].page, view)
      BY <3>1 DEF ShownInv, Fetched
    <3>4. shown'.page = fetches[i].page /\ shown'.labels = Labels /\ Labels' = Labels
      BY <2>1 DEF Labels
    <3> QED BY <2>1, <3>2, <3>3, <3>4 DEF OneAtATime
  <2> QED BY <2>1, <2>5, <2>6 DEF ShownInv
<1>5. CASE TimeOut
  <2>1. /\ shown' = None /\ UNCHANGED <<view, lookup, fetches, overlapped>>
    BY <1>5 DEF TimeOut
  <2> QED BY <2>1 DEF ShownInv, Fetched, OneAtATime
<1>6. CASE RatingStep \/ RankStep \/ UNCHANGED vars
  <2>1. UNCHANGED <<view, lookup, fetches, shown, overlapped>>
    BY <1>6 DEF RatingStep, RankStep, CreateRow, Rate, Adjust, AskRefresh, Reconcile, DayPasses,
                StartRefresh, PublishRefresh, viewVars, vars
  <2> QED BY <2>1 DEF ShownInv, Fetched, OneAtATime, Labels
<1> QED BY <1>1, <1>2, <1>3, <1>4, <1>5, <1>6, ClicksAre DEF Next, ViewStep

\* A click that nothing overlaps leaves the message with the page and the filters chosen,
\* rows that pass them and, of each player, one row when the best race was asked for.
THEOREM MessageShowsWhatIsAsked == Spec => []ShownIsAsked
<1>1. ShownInv => ShownIsAsked
  BY DEF ShownInv, OneAtATime, Answers, ShownIsAsked
<1>2. TypeOK /\ ShownInv /\ [Next]_vars => ShownInv'
  BY ShownNext
<1> QED BY TypeInit, TypeNext, ShownInit, <1>1, <1>2, PTL DEF Spec
=============================================================================
