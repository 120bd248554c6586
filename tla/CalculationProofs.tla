------------------------- MODULE CalculationProofs -------------------------
(***************************************************************************)
(* The calculations, for every input: what a refresh queues, for any       *)
(* finite set of candidates, any scores, lengths, weights and queue size;  *)
(* and the spans a batch stores, for any OTLP request.  The sums of        *)
(* functions over finite sets are here as well: AgreementProofs has the    *)
(* theorems about the statistics made of them.                             *)
(***************************************************************************)
EXTENDS Calculations, OtlpTranslate, FiniteSetTheorems, NaturalsInduction,
        WellFoundedInduction, TLAPS

-----------------------------------------------------------------------------
(* How many numbers there are from 1 to n.                                 *)
LEMMA OneTo ==
    ASSUME NEW n \in Nat
    PROVE  IsFiniteSet(1 .. n) /\ Cardinality(1 .. n) = n
<1>1. 1 \in Int /\ n \in Int
  OBVIOUS
<1>2. IsFiniteSet(1 .. n) /\ Cardinality(1 .. n) = IF 1 > n THEN 0 ELSE n - 1 + 1
  BY <1>1, FS_Interval
<1>3. QED
  BY <1>2

(* What holds for a number and for none below it has a least case.         *)
LEMMA LeastIn ==
    ASSUME NEW S \in SUBSET Nat, S # {}
    PROVE  \E x \in S : \A y \in S : x <= y
<1> DEFINE less == {p \in Nat \X Nat : p[1] < p[2]}
<1>1. IsWellFoundedOn(less, Nat)
  BY NatLessThanWellFounded DEF OpToRel
<1> HIDE DEF less
<1>2. PICK x \in S : \A y \in S : ~ (<<y, x>> \in less)
  BY <1>1, WFMin
<1>3. ASSUME NEW y \in S PROVE x <= y
  <2>1. <<y, x>> \in Nat \X Nat
    OBVIOUS
  <2>2. <<y, x>> \notin less
    BY <1>2
  <2>3. ~ (y < x)
    BY <2>1, <2>2 DEF less
  <2>4. QED
    BY <2>3
<1>4. QED
  BY <1>3

(* Strict total orders R of a finite set S.                                *)

StrictOrder(S, R) ==
    /\ \A x \in S : <<x, x>> \notin R
    /\ \A x, y, z \in S : <<x, y>> \in R /\ <<y, z>> \in R => <<x, z>> \in R
    /\ \A x, y \in S : x = y \/ <<x, y>> \in R \/ <<y, x>> \in R

Below(S, R, x) == {y \in S : <<y, x>> \in R}
Place(S, R, x) == Cardinality(Below(S, R, x))
First(S, R, n) == {x \in S : Place(S, R, x) < n}

(* An element is not below itself: its place is one of 0, 1, ..., |S| - 1. *)
LEMMA PlaceInRange ==
    ASSUME NEW S, IsFiniteSet(S), NEW R, StrictOrder(S, R), NEW x \in S
    PROVE  /\ IsFiniteSet(Below(S, R, x))
           /\ Place(S, R, x) \in 0 .. Cardinality(S) - 1
<1>1. Below(S, R, x) \subseteq S /\ x \notin Below(S, R, x)
  BY DEF Below, StrictOrder
<1>2. IsFiniteSet(Below(S, R, x)) /\ Cardinality(Below(S, R, x)) <= Cardinality(S)
      /\ (Cardinality(S) = Cardinality(Below(S, R, x)) => S = Below(S, R, x))
  BY <1>1, FS_Subset
<1>3. Cardinality(S) \in Nat /\ Cardinality(Below(S, R, x)) \in Nat
  BY <1>2, FS_CardinalityType
<1>4. Cardinality(S) # Cardinality(Below(S, R, x))
  BY <1>1, <1>2
<1>5. QED
  BY <1>2, <1>3, <1>4 DEF Place

(* Who comes later has the later place.                                    *)
LEMMA PlacesIncrease ==
    ASSUME NEW S, IsFiniteSet(S), NEW R, StrictOrder(S, R),
           NEW x \in S, NEW y \in S, <<x, y>> \in R
    PROVE  Place(S, R, x) < Place(S, R, y)
<1>1. Below(S, R, x) \subseteq Below(S, R, y)
  BY DEF Below, StrictOrder
<1>2. x \in Below(S, R, y) /\ x \notin Below(S, R, x)
  BY DEF Below, StrictOrder
<1>3. IsFiniteSet(Below(S, R, x)) /\ IsFiniteSet(Below(S, R, y))
  BY PlaceInRange
<1>4. /\ Cardinality(Below(S, R, x)) <= Cardinality(Below(S, R, y))
      /\ (Cardinality(Below(S, R, y)) = Cardinality(Below(S, R, x))
            => Below(S, R, y) = Below(S, R, x))
  BY <1>1, <1>3, FS_Subset
<1>5. Cardinality(Below(S, R, x)) \in Nat /\ Cardinality(Below(S, R, y)) \in Nat
  BY <1>3, FS_CardinalityType
<1>6. QED
  BY <1>2, <1>4, <1>5 DEF Place

(* Every place is taken by one element: an injection between finite sets   *)
(* of the same size leaves nothing out.                                    *)
LEMMA PlacesAreTaken ==
    ASSUME NEW S, IsFiniteSet(S), NEW R, StrictOrder(S, R)
    PROVE  [x \in S |-> Place(S, R, x)] \in Bijection(S, 0 .. Cardinality(S) - 1)
<1> DEFINE T == 0 .. Cardinality(S) - 1
           f == [x \in S |-> Place(S, R, x)]
<1>1. Cardinality(S) \in Nat
  BY FS_CardinalityType
<1>2. IsFiniteSet(T) /\ Cardinality(T) = Cardinality(S)
  BY <1>1, FS_Interval, SMTT(60)
<1>3. f \in [S -> T]
  BY PlaceInRange
<1>4. ASSUME NEW x \in S, NEW y \in S, x # y
      PROVE  f[x] # f[y]
  <2>1. Place(S, R, x) \in Int /\ Place(S, R, y) \in Int
    BY <1>1, PlaceInRange
  <2>2. CASE <<x, y>> \in R
    BY <2>1, <2>2, PlacesIncrease
  <2>3. CASE <<y, x>> \in R
    BY <2>1, <2>3, PlacesIncrease
  <2>4. QED
    BY <1>4, <2>2, <2>3 DEF StrictOrder
<1>5. f \in Injection(S, T)
  <2> HIDE DEF f, T
  <2>1. QED
    BY <1>3, <1>4 DEF Injection, IsInjective
<1>6. f \in Surjection(S, T)
  BY <1>2, <1>5, FS_Injection
<1>7. QED
  BY <1>5, <1>6 DEF Bijection

(* The first n are n, or all of a smaller set.                             *)
LEMMA FirstAreCounted ==
    ASSUME NEW S, IsFiniteSet(S), NEW R, StrictOrder(S, R), NEW n \in Nat
    PROVE  Cardinality(First(S, R, n)) = IF n <= Cardinality(S) THEN n ELSE Cardinality(S)
<1> DEFINE m == IF n <= Cardinality(S) THEN n ELSE Cardinality(S)
           T == 0 .. m - 1
           All == 0 .. Cardinality(S) - 1
           f == [x \in S |-> Place(S, R, x)]
           g == [x \in First(S, R, n) |-> Place(S, R, x)]
<1>1. Cardinality(S) \in Nat /\ m \in Nat
  BY FS_CardinalityType
<1>2. f \in Injection(S, All) /\ f \in Surjection(S, All)
  BY PlacesAreTaken DEF Bijection
<1>3. \A x \in S : Place(S, R, x) \in All
  BY PlaceInRange
<1>4. \A x \in S : x \in First(S, R, n) <=> Place(S, R, x) \in T
  BY <1>1, <1>3 DEF First
<1>5. First(S, R, n) \subseteq S
  BY DEF First
<1>6. \A x, y \in S : x # y => Place(S, R, x) # Place(S, R, y)
  BY <1>2 DEF Injection, IsInjective
<1>7. \A k \in All : \E x \in S : Place(S, R, x) = k
  BY <1>2 DEF Surjection
<1>8. T \subseteq All
  BY <1>1
<1> HIDE DEF T, All
<1>9. g \in [First(S, R, n) -> T]
  BY <1>4, <1>5
<1>10. g \in Injection(First(S, R, n), T)
  BY <1>5, <1>6, <1>9 DEF Injection, IsInjective
<1>11. g \in Surjection(First(S, R, n), T)
  BY <1>4, <1>7, <1>8, <1>9 DEF Surjection
<1>12. IsFiniteSet(T) /\ Cardinality(T) = m
  <2>1. m \in Nat /\ T = 0 .. m - 1
    BY <1>1 DEF T
  <2> HIDE DEF m
  <2>2. QED
    BY <2>1, FS_Interval
<1>13. Cardinality(First(S, R, n)) = Cardinality(T)
  <2> HIDE DEF g
  <2>1. QED
    BY <1>10, <1>11, <1>12, FS_Injection
<1>14. QED
  BY <1>12, <1>13

-----------------------------------------------------------------------------
(* The cut at queue_size.                                                  *)

Before(entries, order) ==
    {p \in (DOMAIN entries) \X (DOMAIN entries) :
        LET place(rec) == CHOOSE i \in DOMAIN order : order[i] = rec
        IN  \/ entries[p[1]].priority > entries[p[2]].priority
            \/ /\ entries[p[1]].priority = entries[p[2]].priority
               /\ place(p[1]) < place(p[2])}

(* A sequence with as many entries as there are records, all different,    *)
(* has a place for each record.                                            *)
LEMMA OrderPlaces ==
    ASSUME NEW D, IsFiniteSet(D), NEW order \in SetToSeqs(D)
    PROVE  /\ DOMAIN order \subseteq Int
           /\ \A rec \in D : \E i \in DOMAIN order : order[i] = rec
<1> DEFINE N == 1 .. Cardinality(D)
<1>1. Cardinality(D) \in Nat
  BY FS_CardinalityType
<1>2. order \in [N -> D] /\ \A i, j \in N : i # j => order[i] # order[j]
  BY DEF SetToSeqs
<1>3. IsFiniteSet(N) /\ Cardinality(N) = Cardinality(D)
  BY <1>1, FS_Interval
<1>4. N \subseteq Int
  OBVIOUS
<1> HIDE DEF N
<1>5. order \in Injection(N, D)
  BY <1>2 DEF Injection, IsInjective
<1>6. order \in Surjection(N, D)
  BY <1>3, <1>5, FS_Injection
<1>7. QED
  BY <1>2, <1>4, <1>6 DEF Surjection

(* Sorting by priority, and equal ones in the order they were added, is a  *)
(* strict total order.                                                     *)
LEMMA BeforeIsOrder ==
    ASSUME NEW entries, IsFiniteSet(DOMAIN entries),
           \A rec \in DOMAIN entries : entries[rec].priority \in Int,
           NEW order \in SetToSeqs(DOMAIN entries)
    PROVE  StrictOrder(DOMAIN entries, Before(entries, order))
<1> DEFINE D == DOMAIN entries
           prio(rec) == entries[rec].priority
           place(rec) == CHOOSE i \in DOMAIN order : order[i] = rec
<1>1. \A rec \in D : place(rec) \in Int /\ order[place(rec)] = rec
  BY OrderPlaces
<1>2. \A x, y \in D : <<x, y>> \in Before(entries, order) <=>
        prio(x) > prio(y) \/ (prio(x) = prio(y) /\ place(x) < place(y))
  BY DEF Before
<1>3. \A x \in D : prio(x) \in Int
  OBVIOUS
<1>4. \A x, y \in D : place(x) = place(y) => x = y
  BY <1>1
<1>5. \A x \in D : place(x) \in Int
  BY <1>1
<1> HIDE DEF D, prio, place
<1>6. QED
  <2>1. \A x \in D : <<x, x>> \notin Before(entries, order)
    BY <1>2, <1>3, <1>5
  <2>2. \A x, y, z \in D : /\ <<x, y>> \in Before(entries, order)
                           /\ <<y, z>> \in Before(entries, order)
                           => <<x, z>> \in Before(entries, order)
    BY <1>2, <1>3, <1>5
  <2>3. \A x, y \in D : \/ x = y
                        \/ <<x, y>> \in Before(entries, order)
                        \/ <<y, x>> \in Before(entries, order)
    <3>1. TAKE x, y \in D
    <3>2. prio(x) \in Int /\ prio(y) \in Int /\ place(x) \in Int /\ place(y) \in Int
      BY <1>3, <1>5
    <3>3. CASE prio(x) = prio(y) /\ place(x) = place(y)
      BY <1>4, <3>3
    <3>4. CASE ~ (prio(x) = prio(y) /\ place(x) = place(y))
      BY <1>2, <3>2, <3>4
    <3>5. QED
      BY <3>3, <3>4
  <2>4. QED
    BY <2>1, <2>2, <2>3 DEF StrictOrder, D

LEMMA RankedIsFirst ==
    ASSUME NEW entries, NEW order, NEW n
    PROVE  Ranked(entries, order, n) = First(DOMAIN entries, Before(entries, order), n)
<1>1. ASSUME NEW rec \in DOMAIN entries
      PROVE  Below(DOMAIN entries, Before(entries, order), rec) =
               {other \in DOMAIN entries :
                  LET place(r) == CHOOSE i \in DOMAIN order : order[i] = r
                  IN  \/ entries[other].priority > entries[rec].priority
                      \/ /\ entries[other].priority = entries[rec].priority
                         /\ place(other) < place(rec)}
  BY DEF Below, Before
<1>2. QED
  BY <1>1 DEF Ranked, First, Place

(* The queue is filled as far as it goes, and no record left out has a     *)
(* better priority than a record taken.                                    *)
LEMMA RankedIsBest ==
    ASSUME NEW entries, IsFiniteSet(DOMAIN entries),
           \A rec \in DOMAIN entries : entries[rec].priority \in Int,
           NEW order \in SetToSeqs(DOMAIN entries), NEW n \in Nat
    PROVE  LET taken == Ranked(entries, order, n)
           IN  /\ Cardinality(taken) = Min({n, Cardinality(DOMAIN entries)})
               /\ \A a \in taken, b \in DOMAIN entries \ taken :
                      entries[a].priority >= entries[b].priority
<1> DEFINE D == DOMAIN entries
           R == Before(entries, order)
           taken == Ranked(entries, order, n)
<1>1. StrictOrder(D, R) /\ taken = First(D, R, n)
  BY BeforeIsOrder, RankedIsFirst
<1>2. Cardinality(D) \in Nat
  BY FS_CardinalityType
<1>3. Cardinality(taken) = IF n <= Cardinality(D) THEN n ELSE Cardinality(D)
  <2> HIDE DEF R, taken, D
  <2>1. IsFiniteSet(D)
    BY DEF D
  <2>2. QED
    BY <1>1, <2>1, FirstAreCounted
<1>4. Min({n, Cardinality(D)}) = IF n <= Cardinality(D) THEN n ELSE Cardinality(D)
  BY <1>2 DEF Min
<1>5. ASSUME NEW a \in taken, NEW b \in D \ taken
      PROVE  entries[a].priority >= entries[b].priority
  <2>1. a \in D /\ Place(D, R, a) < n /\ ~ (Place(D, R, b) < n)
    BY <1>1 DEF First
  <2>2. Place(D, R, a) \in Int /\ Place(D, R, b) \in Int
    BY <1>1, <1>2, <2>1, PlaceInRange
  <2>3. <<b, a>> \notin R
    BY <1>1, <2>1, <2>2, PlacesIncrease
  <2>4. entries[a].priority \in Int /\ entries[b].priority \in Int
    BY <2>1
  <2>5. ~ (entries[b].priority > entries[a].priority)
    BY <2>1, <2>3 DEF Before
  <2>6. QED
    BY <2>4, <2>5
<1>6. QED
  BY <1>3, <1>4, <1>5

-----------------------------------------------------------------------------
(* The median.                                                             *)

(* Some value has fewer than k below it and k or more not above it: the    *)
(* one in place k - 1 when equal values are told apart by any count.       *)
LEMMA SmallestExists ==
    ASSUME NEW values, IsFiniteSet(DOMAIN values),
           \A i \in DOMAIN values : values[i] \in Int,
           NEW k \in 1 .. Cardinality(DOMAIN values)
    PROVE  /\ Smallest(values, k) \in Range(values)
           /\ Cardinality({i \in DOMAIN values : values[i] < Smallest(values, k)}) < k
           /\ k <= Cardinality({i \in DOMAIN values : values[i] <= Smallest(values, k)})
<1> DEFINE D == DOMAIN values
           N == 1 .. Cardinality(D)
<1>1. Cardinality(D) \in Nat
  BY FS_CardinalityType
<1>2. PICK order : order \in Bijection(N, D)
  BY FS_CardinalityType DEF ExistsBijection
<1> DEFINE place(x) == CHOOSE i \in N : order[i] = x
           R == {p \in D \X D : \/ values[p[1]] < values[p[2]]
                                \/ values[p[1]] = values[p[2]] /\ place(p[1]) < place(p[2])}
<1>3. \A x \in D : place(x) \in N /\ order[place(x)] = x
  BY <1>2 DEF Bijection, Surjection
<1>4. \A x \in D : place(x) \in Int
  BY <1>3
<1>5. \A x, y \in D : place(x) = place(y) => x = y
  BY <1>3
<1>6. \A x, y \in D : <<x, y>> \in R <=>
        values[x] < values[y] \/ (values[x] = values[y] /\ place(x) < place(y))
  OBVIOUS
<1>7. StrictOrder(D, R)
  <2> HIDE DEF R, place, D
  <2>1. \A x \in D : values[x] \in Int
    BY DEF D
  <2>2. \A x \in D : <<x, x>> \notin R
    BY <1>4, <1>6, <2>1
  <2>3. \A x, y, z \in D : <<x, y>> \in R /\ <<y, z>> \in R => <<x, z>> \in R
    BY <1>4, <1>6, <2>1
  <2>4. ASSUME NEW x \in D, NEW y \in D
        PROVE  x = y \/ <<x, y>> \in R \/ <<y, x>> \in R
    <3>1. values[x] \in Int /\ values[y] \in Int /\ place(x) \in Int /\ place(y) \in Int
      BY <1>4, <2>1
    <3>2. CASE values[x] = values[y] /\ place(x) = place(y)
      BY <1>5, <3>2
    <3>3. CASE ~ (values[x] = values[y] /\ place(x) = place(y))
      BY <1>6, <3>1, <3>3
    <3>4. QED
      BY <3>2, <3>3
  <2>5. QED
    BY <2>2, <2>3, <2>4 DEF StrictOrder
<1>8. PICK x \in D : Place(D, R, x) = k - 1
  <2>1. k - 1 \in 0 .. Cardinality(D) - 1
    BY <1>1
  <2> HIDE DEF R, D
  <2>2. IsFiniteSet(D)
    BY DEF D
  <2>3. [y \in D |-> Place(D, R, y)] \in Surjection(D, 0 .. Cardinality(D) - 1)
    BY <1>7, <2>2, PlacesAreTaken DEF Bijection
  <2>4. QED
    BY <2>1, <2>3 DEF Surjection
<1> DEFINE less == {i \in D : values[i] < values[x]}
           most == {i \in D : values[i] <= values[x]}
<1>9. Cardinality(less) < k
  <2>1. less \subseteq Below(D, R, x)
    BY DEF Below
  <2>2. IsFiniteSet(Below(D, R, x))
    BY <1>7, PlaceInRange
  <2>3. IsFiniteSet(less) /\ Cardinality(less) <= Cardinality(Below(D, R, x))
    BY <2>1, <2>2, FS_Subset
  <2>4. Cardinality(less) \in Nat
    BY <2>3, FS_CardinalityType
  <2>5. QED
    BY <1>8, <2>3, <2>4 DEF Place
<1>10. k <= Cardinality(most)
  <2>1. Below(D, R, x) \union {x} \subseteq most
    BY DEF Below
  <2>2. x \notin Below(D, R, x)
    <3> HIDE DEF R, D
    <3>1. QED
      BY <1>7 DEF Below, StrictOrder
  <2>3. Cardinality(Below(D, R, x) \union {x}) = k
    <3>1. IsFiniteSet(Below(D, R, x))
      BY <1>7, PlaceInRange
    <3> HIDE DEF R, D
    <3>2. Cardinality(Below(D, R, x) \union {x}) = Cardinality(Below(D, R, x)) + 1
      BY <2>2, <3>1, FS_AddElement
    <3>3. Cardinality(Below(D, R, x)) = k - 1
      BY <1>8 DEF Place
    <3>4. QED
      BY <3>2, <3>3
  <2>4. IsFiniteSet(most)
    BY FS_Subset
  <2>5. Cardinality(Below(D, R, x) \union {x}) <= Cardinality(most)
    BY <2>1, <2>4, FS_Subset
  <2>6. QED
    BY <2>3, <2>5
<1>11. values[x] \in Range(values)
  BY DEF Range
<1>12. QED
  <2> HIDE DEF R
  <2>1. QED
    BY <1>9, <1>10, <1>11 DEF Smallest

LEMMA MedianType ==
    ASSUME NEW values, IsFiniteSet(DOMAIN values), DOMAIN values # {},
           \A i \in DOMAIN values : values[i] \in Int
    PROVE  Median(values) \in Int
<1> DEFINE n == Cardinality(DOMAIN values)
<1>1. n \in Nat /\ n # 0
  BY FS_CardinalityType, FS_EmptySet
<1>2. (n + 1) \div 2 \in 1 .. n /\ n \div 2 + 1 \in 1 .. n
  <2> HIDE DEF n
  <2>1. QED
    BY <1>1
<1>3. \A v \in Range(values) : v \in Int
  BY DEF Range
<1>4. \A k \in 1 .. n : Smallest(values, k) \in Int
  BY <1>3, SmallestExists
<1>5. QED
  BY <1>2, <1>4 DEF Median

-----------------------------------------------------------------------------
(* What the strategies give.                                               *)

LEMMA AbsIsNatural ==
    ASSUME NEW a \in Int
    PROVE  Stats!Abs(a) \in Nat
BY DEF Stats!Abs

LEMMA DistanceIsInteger ==
    ASSUME NEW score \in Int
    PROVE  DistanceFromDecisionBoundary(score) \in Int
<1>1. Stats!Round(score) \in Int
  BY DEF Stats!Round
<1>2. Stats!Abs(score - 4 * Stats!Round(score)) \in Nat /\ Stats!Abs(score - 2) \in Nat
  BY <1>1, AbsIsNatural
<1>3. \A d \in Int : Min({4, d}) \in Int
  <2>1. ASSUME NEW d \in Int
        PROVE  \E x \in {4, d} : \A y \in {4, d} : x <= y
    <3>1. CASE d <= 4
      BY <3>1
    <3>2. CASE ~ (d <= 4)
      BY <3>2
    <3>3. QED
      BY <3>1, <3>2
  <2>2. QED
    BY <2>1 DEF Min
<1>4. QED
  BY <1>2, <1>3 DEF DistanceFromDecisionBoundary

(* On the scales 0 to 1 and 1 to 5 no distance is greater than 1.          *)
LEMMA DistanceOnScales ==
    ASSUME NEW score \in 0 .. 20
    PROVE  DistanceFromDecisionBoundary(score) \in 0 .. 4
<1>1. CASE 4 < score
  <2>1. Stats!Round(score) \in Int
    BY DEF Stats!Round
  <2>2. Stats!Abs(score - 4 * Stats!Round(score)) \in Nat
    BY <2>1, AbsIsNatural
  <2>3. PICK d \in Nat : d = 2 * Stats!Abs(score - 4 * Stats!Round(score))
    BY <2>2
  <2>4. Min({4, d}) \in 0 .. 4
    <3>1. CASE d <= 4
      <4>1. d \in {4, d} /\ \A y \in {4, d} : d <= y
        BY <3>1
      <4>2. QED
        BY <3>1, <4>1 DEF Min
    <3>2. CASE ~ (d <= 4)
      <4>1. 4 \in {4, d} /\ \A y \in {4, d} : 4 <= y
        BY <3>2
      <4>2. QED
        BY <3>2, <4>1 DEF Min
    <3>3. QED
      BY <3>1, <3>2
  <2>5. DistanceFromDecisionBoundary(score) = Min({4, d})
    BY <1>1, <2>3 DEF DistanceFromDecisionBoundary
  <2>6. QED
    BY <2>4, <2>5
<1>2. CASE ~ (4 < score)
  BY <1>2 DEF DistanceFromDecisionBoundary, Stats!Abs
<1>3. QED
  BY <1>1, <1>2

LEMMA LowConfidenceType ==
    ASSUME NEW judge, \A rec \in DOMAIN judge : judge[rec] \in Int, NEW weight \in Int
    PROVE  /\ DOMAIN LowConfidence(judge, weight) = DOMAIN judge
           /\ \A rec \in DOMAIN judge : LowConfidence(judge, weight)[rec] \in Int
<1>1. ASSUME NEW rec \in DOMAIN judge
      PROVE  weight * 1000 * (4 - DistanceFromDecisionBoundary(judge[rec])) \in Int
  BY DistanceIsInteger
<1>2. QED
  BY <1>1 DEF LowConfidence

(* tanh does not fall.                                                     *)
LEMMA TanhIncreases ==
    ASSUME NEW a \in Nat, NEW b \in Nat, a <= b
    PROVE  /\ Tanh(a) \in 0 .. 1000
           /\ 4 * 1 * Tanh(a) <= 4 * 1 * Tanh(b)
<1>1. /\ a \in 0 .. 12 => Tanh(a) = TanhTable[a + 1]
      /\ b \in 0 .. 12 => Tanh(b) = TanhTable[b + 1]
      /\ ~ (a \in 0 .. 12) => Tanh(a) = 1000
      /\ ~ (b \in 0 .. 12) => Tanh(b) = 1000
  BY DEF Tanh, TanhTable
<1>2. \A i \in 1 .. 13 : TanhTable[i] \in 0 .. 1000
  BY DEF TanhTable
<1>3. \A i \in 1 .. 12 : TanhTable[i] <= TanhTable[i + 1]
  BY DEF TanhTable
<1>4. \A i, j \in 1 .. 13 : i <= j => TanhTable[i] <= TanhTable[j]
  BY DEF TanhTable
<1>5. Tanh(a) \in 0 .. 1000 /\ Tanh(b) \in 0 .. 1000
  <2>1. \A c \in 0 .. 12 : c + 1 \in 1 .. 13
    OBVIOUS
  <2>2. 1000 \in 0 .. 1000
    OBVIOUS
  <2>3. Tanh(a) \in 0 .. 1000
    <3>1. CASE a \in 0 .. 12
      <4>1. PICK d \in 1 .. 13 : d = a + 1
        BY <2>1, <3>1
      <4>2. Tanh(a) = TanhTable[d]
        BY <1>1, <3>1, <4>1
      <4>3. TanhTable[d] \in 0 .. 1000
        BY <1>2, Zenon
      <4>4. QED
        BY <4>2, <4>3, Zenon
    <3>2. CASE ~ (a \in 0 .. 12)
      BY <1>1, <2>2, <3>2
    <3>3. QED
      BY <3>1, <3>2
  <2>4. Tanh(b) \in 0 .. 1000
    <3>1. CASE b \in 0 .. 12
      <4>1. PICK d \in 1 .. 13 : d = b + 1
        BY <2>1, <3>1
      <4>2. Tanh(b) = TanhTable[d]
        BY <1>1, <3>1, <4>1
      <4>3. TanhTable[d] \in 0 .. 1000
        BY <1>2, Zenon
      <4>4. QED
        BY <4>2, <4>3, Zenon
    <3>2. CASE ~ (b \in 0 .. 12)
      BY <1>1, <2>2, <3>2
    <3>3. QED
      BY <3>1, <3>2
  <2>5. QED
    BY <2>3, <2>4
<1>6. Tanh(a) <= Tanh(b)
  <2>1. CASE b \in 0 .. 12
    <3>1. a \in 0 .. 12 /\ a + 1 \in 1 .. 13 /\ b + 1 \in 1 .. 13 /\ a + 1 <= b + 1
      BY <2>1
    <3>2. TanhTable[a + 1] <= TanhTable[b + 1]
      BY <1>4, <3>1
    <3>3. QED
      BY <1>1, <2>1, <3>1, <3>2
  <2>2. CASE ~ (b \in 0 .. 12)
    BY <1>1, <1>5, <2>2
  <2>3. QED
    BY <2>1, <2>2
<1>7. \A s, t \in Int : s <= t => 4 * 1 * s <= 4 * 1 * t
  OBVIOUS
<1>8. Tanh(a) \in Int /\ Tanh(b) \in Int
  BY <1>5, SMTT(60)
<1>9. QED
  BY <1>5, <1>6, <1>7, <1>8, SMTT(60)

(* A division by one positive number keeps the order.                      *)
LEMMA DivIncreases ==
    ASSUME NEW a \in Nat, NEW b \in Nat, a <= b, NEW m \in Nat, m > 0
    PROVE  a \div m \in Nat /\ a \div m <= b \div m
<1>1. /\ a \div m \in Int /\ a = m * (a \div m) + (a % m) /\ a % m \in 0 .. m - 1
      /\ b \div m \in Int /\ b = m * (b \div m) + (b % m) /\ b % m \in 0 .. m - 1
  BY Z3
<1>2. QED
  BY <1>1, Z3

LEMMA MaxOfTwo ==
    ASSUME NEW a \in Int, NEW b \in Int
    PROVE  /\ Max({a}) = a
           /\ Max({a, b}) = IF a >= b THEN a ELSE b
<1>1. Max({a}) = a
  BY DEF Max
<1>2. CASE a >= b
  BY <1>1, <1>2 DEF Max
<1>3. CASE ~ (a >= b)
  BY <1>1, <1>3 DEF Max
<1>4. QED
  BY <1>1, <1>2, <1>3

(* The drift of a record, with the median and the spread it is drawn from. *)
LEMMA DriftFormula ==
    ASSUME NEW lengths, IsFiniteSet(DOMAIN lengths), DOMAIN lengths # {},
           \A rec \in DOMAIN lengths : lengths[rec] \in Int, NEW weight \in Int
    PROVE  /\ Median(lengths) \in Int
           /\ \E mad \in Nat \ {0} :
                \A rec \in DOMAIN lengths :
                    DriftOutlier(lengths, weight)[rec] =
                        4 * weight
                          * Tanh((4 * Stats!Abs(2 * lengths[rec] - Median(lengths))) \div mad)
<1> DEFINE median == Median(lengths)
           deviation == [rec \in DOMAIN lengths |-> Stats!Abs(2 * lengths[rec] - median)]
           mad == AtLeastOne(Median(deviation))
<1>1. median \in Int
  BY MedianType
<1> HIDE DEF median
<1>2. DOMAIN deviation = DOMAIN lengths /\ \A rec \in DOMAIN lengths : deviation[rec] \in Int
  BY <1>1, AbsIsNatural
<1>3. Median(deviation) \in Int
  <2> HIDE DEF deviation
  <2>1. QED
    BY <1>2, MedianType
<1>4. mad \in Nat \ {0}
  <2>1. ASSUME NEW d \in Int
        PROVE  AtLeastOne(d) \in Nat \ {0}
    <3>1. PICK least \in Int : least = 4
      OBVIOUS
    <3>2. Max({least, d}) = IF least >= d THEN least ELSE d
      BY MaxOfTwo
    <3>3. QED
      BY <3>1, <3>2 DEF AtLeastOne
  <2> HIDE DEF deviation
  <2>2. QED
    BY <1>3, <2>1
<1>5. DriftOutlier(lengths, weight) =
        [rec \in DOMAIN lengths |-> 4 * weight * Tanh((4 * deviation[rec]) \div mad)]
  BY DEF DriftOutlier, median
<1> HIDE DEF mad
<1>6. \A rec \in DOMAIN lengths :
        DriftOutlier(lengths, weight)[rec] =
            4 * weight * Tanh((4 * Stats!Abs(2 * lengths[rec] - median)) \div mad)
  BY <1>5
<1>7. QED
  BY <1>1, <1>4, <1>6 DEF median

LEMMA DriftIsTanh ==
    ASSUME NEW lengths, IsFiniteSet(DOMAIN lengths),
           \A rec \in DOMAIN lengths : lengths[rec] \in Int, NEW weight \in Int,
           NEW rec \in DOMAIN lengths
    PROVE  \E z \in Nat : DriftOutlier(lengths, weight)[rec] = 4 * weight * Tanh(z)
<1> DEFINE deviation == Stats!Abs(2 * lengths[rec] - Median(lengths))
<1>1. PICK mad \in Nat \ {0} :
        DriftOutlier(lengths, weight)[rec] = 4 * weight * Tanh((4 * deviation) \div mad)
  BY DriftFormula
<1>2. Median(lengths) \in Int
  BY DriftFormula
<1>3. deviation \in Nat
  BY <1>2, AbsIsNatural
<1> HIDE DEF deviation
<1>4. PICK z \in Nat : z = (4 * deviation) \div mad
  BY <1>3, DivIncreases
<1>5. DriftOutlier(lengths, weight)[rec] = 4 * weight * Tanh(z)
  BY <1>1, <1>4 DEF deviation
<1>6. QED
  BY <1>5

LEMMA DriftOutlierType ==
    ASSUME NEW lengths, IsFiniteSet(DOMAIN lengths),
           \A rec \in DOMAIN lengths : lengths[rec] \in Int, NEW weight \in Int
    PROVE  /\ DOMAIN DriftOutlier(lengths, weight) = DOMAIN lengths
           /\ \A rec \in DOMAIN lengths : DriftOutlier(lengths, weight)[rec] \in Int
<1>1. DOMAIN DriftOutlier(lengths, weight) = DOMAIN lengths
  BY DEF DriftOutlier
<1>2. ASSUME NEW rec \in DOMAIN lengths
      PROVE  DriftOutlier(lengths, weight)[rec] \in Int
  <2>1. PICK z \in Nat : DriftOutlier(lengths, weight)[rec] = 4 * weight * Tanh(z)
    BY DriftIsTanh
  <2>2. z <= z
    BY <2>1
  <2>3. Tanh(z) \in 0 .. 1000
    BY <2>2, TanhIncreases, ZenonT(60)
  <2>4. QED
    BY <2>1, <2>3
<1>3. QED
  BY <1>1, <1>2

(* A record that either strategy gives a priority keeps the better one.    *)
Integral(priority) == \A rec \in DOMAIN priority : priority[rec] \in Int
Prioritised(acc) == \A rec \in DOMAIN acc : acc[rec].priority \in Int
KeepsBest(all, acc, priority) ==
    /\ DOMAIN all = DOMAIN acc \union DOMAIN priority
    /\ \A rec \in DOMAIN acc \ DOMAIN priority : all[rec].priority = acc[rec].priority
    /\ \A rec \in DOMAIN priority \ DOMAIN acc : all[rec].priority = priority[rec]
    /\ \A rec \in DOMAIN acc \intersect DOMAIN priority :
         all[rec].priority = Max({acc[rec].priority, priority[rec]})

LEMMA AccumulateKeepsBest ==
    ASSUME NEW acc, NEW strategy, NEW priority, Prioritised(acc), Integral(priority)
    PROVE  KeepsBest(Accumulate(acc, strategy, priority), acc, priority)
<1> DEFINE all == Accumulate(acc, strategy, priority)
           new(rec) == [strategy |-> strategy, priority |-> priority[rec]]
<1>1. DOMAIN all = DOMAIN acc \union DOMAIN priority
  BY DEF Accumulate
<1>2. \A rec \in DOMAIN acc \union DOMAIN priority :
        all[rec] = IF /\ rec \in DOMAIN priority
                      /\ rec \in DOMAIN acc => priority[rec] > acc[rec].priority
                   THEN new(rec) ELSE acc[rec]
  BY DEF Accumulate
<1>3. \A rec : new(rec).priority = priority[rec]
  OBVIOUS
<1> HIDE DEF all, new
<1>4. ASSUME NEW rec \in DOMAIN acc \intersect DOMAIN priority
      PROVE  all[rec].priority = Max({acc[rec].priority, priority[rec]})
  <2>1. acc[rec].priority \in Int /\ priority[rec] \in Int
    BY DEF Prioritised, Integral
  <2>2. Max({acc[rec].priority, priority[rec]}) =
          IF acc[rec].priority >= priority[rec] THEN acc[rec].priority ELSE priority[rec]
    BY <2>1, MaxOfTwo
  <2>3. CASE priority[rec] > acc[rec].priority
    BY <1>2, <1>3, <2>1, <2>2, <2>3
  <2>4. CASE ~ (priority[rec] > acc[rec].priority)
    BY <1>2, <2>1, <2>2, <2>4
  <2>5. QED
    BY <2>3, <2>4
<1>5. QED
  BY <1>1, <1>2, <1>3, <1>4 DEF KeepsBest, all

-----------------------------------------------------------------------------
(* What a refresh queues.                                                  *)

(* Whatever the judge scored, however long the inputs are and whatever the *)
(* weights: a refresh fills the queue as far as it goes with the best of   *)
(* its candidates, each at the best priority a strategy gives it, in any   *)
(* order of equal ones.                                                    *)
THEOREM RefreshQueuesTheBest ==
    ASSUME NEW judge, IsFiniteSet(DOMAIN judge),
           \A rec \in DOMAIN judge : judge[rec] \in Int,
           NEW lengths, IsFiniteSet(DOMAIN lengths),
           \A rec \in DOMAIN lengths : lengths[rec] \in Int,
           NEW weights, weights.low_confidence \in Int, weights.drift_outlier \in Int,
           NEW n \in Nat
    PROVE  RanksBest(judge, lengths, weights, n)
<1> DEFINE entries == ByRecordPriority(judge, lengths, weights)
           useLow == weights.low_confidence > 0
           useDrift == weights.drift_outlier > 0 /\ DOMAIN lengths # {}
           low == IF useLow THEN LowConfidence(judge, weights.low_confidence) ELSE <<>>
           drift == IF useDrift THEN DriftOutlier(lengths, weights.drift_outlier) ELSE <<>>
           lowAcc == IF useLow
                     THEN Accumulate(<<>>, "low_confidence",
                                     LowConfidence(judge, weights.low_confidence))
                     ELSE <<>>
           offers(rec) == {f[rec] : f \in {f \in {low, drift} : rec \in DOMAIN f}}
<1>1. DOMAIN <<>> = {}
  OBVIOUS
<1>2. /\ DOMAIN low \subseteq DOMAIN judge
      /\ \A rec \in DOMAIN low : low[rec] \in Int
  BY <1>1, LowConfidenceType
<1>3. /\ DOMAIN drift \subseteq DOMAIN lengths
      /\ \A rec \in DOMAIN drift : drift[rec] \in Int
  BY <1>1, DriftOutlierType
<1>4. /\ DOMAIN lowAcc = DOMAIN low
      /\ \A rec \in DOMAIN lowAcc : lowAcc[rec].priority = low[rec]
  <2>1. CASE useLow
    <3>1. PICK strategy, empty : strategy = "low_confidence" /\ empty = <<>>
      OBVIOUS
    <3>2. lowAcc = Accumulate(empty, strategy, low)
      BY <2>1, <3>1
    <3> HIDE DEF low, lowAcc
    <3>3. DOMAIN empty = {}
      BY <1>1, <3>1
    <3>4. Prioritised(empty) /\ Integral(low)
      BY <1>2, <3>3 DEF Prioritised, Integral
    <3>5. KeepsBest(lowAcc, empty, low)
      BY <3>2, <3>4, AccumulateKeepsBest
    <3>6. QED
      BY <3>3, <3>5 DEF KeepsBest
  <2>2. CASE ~useLow
    BY <1>1, <2>2
  <2>3. QED
    BY <2>1, <2>2
<1>5. entries = IF useDrift THEN Accumulate(lowAcc, "drift_outlier", drift) ELSE lowAcc
  BY DEF ByRecordPriority
<1>6. ~useDrift => DOMAIN drift = {}
  BY <1>1
<1> HIDE DEF entries, low, drift, lowAcc, useLow, useDrift
<1>7. \A rec \in DOMAIN lowAcc : lowAcc[rec].priority \in Int
  BY <1>2, <1>4
<1>8. /\ DOMAIN entries = DOMAIN low \union DOMAIN drift
      /\ \A rec \in DOMAIN entries :
           entries[rec].priority =
             IF rec \in DOMAIN low
             THEN IF rec \in DOMAIN drift THEN Max({low[rec], drift[rec]}) ELSE low[rec]
             ELSE drift[rec]
  <2>1. CASE useDrift
    <3>1. PICK strategy : entries = Accumulate(lowAcc, strategy, drift)
      BY <1>5, <2>1
    <3>2. Prioritised(lowAcc) /\ Integral(drift)
      BY <1>3, <1>7 DEF Prioritised, Integral
    <3>3. KeepsBest(entries, lowAcc, drift)
      BY <3>1, <3>2, AccumulateKeepsBest
    <3>4. QED
      BY <1>4, <3>3 DEF KeepsBest
  <2>2. CASE ~useDrift
    BY <1>4, <1>5, <1>6, <2>2
  <2>3. QED
    BY <2>1, <2>2
<1>9. ASSUME NEW rec \in DOMAIN entries
      PROVE  entries[rec].priority = Max(offers(rec)) /\ entries[rec].priority \in Int
  <2>1. CASE rec \in DOMAIN low /\ rec \in DOMAIN drift
    <3>1. offers(rec) = {low[rec], drift[rec]}
      BY <2>1
    <3>2. low[rec] \in Int /\ drift[rec] \in Int
      BY <1>2, <1>3, <2>1
    <3> HIDE DEF offers
    <3>3. QED
      BY <1>8, <2>1, <3>1, <3>2, MaxOfTwo
  <2>2. CASE rec \in DOMAIN low /\ rec \notin DOMAIN drift
    <3>1. offers(rec) = {low[rec]}
      BY <2>2
    <3>2. low[rec] \in Int
      BY <1>2, <2>2
    <3> HIDE DEF offers
    <3>3. QED
      BY <1>8, <2>2, <3>1, <3>2, MaxOfTwo
  <2>3. CASE rec \notin DOMAIN low /\ rec \in DOMAIN drift
    <3>1. offers(rec) = {drift[rec]}
      BY <2>3
    <3>2. drift[rec] \in Int
      BY <1>3, <2>3
    <3> HIDE DEF offers
    <3>3. QED
      BY <1>8, <2>3, <3>1, <3>2, MaxOfTwo
  <2>4. QED
    BY <1>8, <2>1, <2>2, <2>3
<1>10. IsFiniteSet(DOMAIN entries)
  <2>1. IsFiniteSet(DOMAIN low) /\ IsFiniteSet(DOMAIN drift)
    BY <1>2, <1>3, FS_Subset
  <2>2. QED
    BY <1>8, <2>1, FS_Union
<1>11. ASSUME NEW order \in SetToSeqs(DOMAIN entries)
       PROVE  /\ Cardinality(Ranked(entries, order, n)) = Min({n, Cardinality(DOMAIN entries)})
              /\ \A a \in Ranked(entries, order, n),
                    b \in DOMAIN entries \ Ranked(entries, order, n) :
                     entries[a].priority >= entries[b].priority
  BY <1>9, <1>10, RankedIsBest
<1>12. QED
  BY <1>8, <1>9, <1>11 DEF RanksBest, entries, low, drift, useLow, useDrift

(* A strategy gives a record between none and all of its weight, whatever  *)
(* the score on the scales there are and whatever the length; and of two   *)
(* lengths the farther from the median never gets less (StrategiesShare).  *)
THEOREM StrategiesCountForTheirWeight ==
    ASSUME NEW judge, \A rec \in DOMAIN judge : judge[rec] \in Int,
           NEW lengths, IsFiniteSet(DOMAIN lengths),
           \A rec \in DOMAIN lengths : lengths[rec] \in Int
    PROVE  StrategiesShare(judge, lengths)
<1>1. ASSUME NEW rec \in DOMAIN judge, judge[rec] \in 0 .. 20
      PROVE  LowConfidence(judge, 1)[rec] \in 0 .. 4000
  <2>1. LowConfidence(judge, 1)[rec]
           = 1 * 1000 * (4 - DistanceFromDecisionBoundary(judge[rec]))
    BY DEF LowConfidence
  <2>2. DistanceFromDecisionBoundary(judge[rec]) \in 0 .. 4
    BY <1>1, DistanceOnScales
  <2>3. QED
    BY <2>1, <2>2
<1>3. ASSUME NEW rec \in DOMAIN lengths
      PROVE  DriftOutlier(lengths, 1)[rec] \in 0 .. 4000
  <2>1. PICK z \in Nat : DriftOutlier(lengths, 1)[rec] = 4 * 1 * Tanh(z)
    BY DriftIsTanh
  <2>2. z <= z
    BY <2>1
  <2>3. Tanh(z) \in 0 .. 1000
    BY <2>2, TanhIncreases, ZenonT(60)
  <2>4. QED
    BY <2>1, <2>3
<1>2. ASSUME NEW a \in DOMAIN lengths, NEW b \in DOMAIN lengths,
             Stats!Abs(2 * lengths[a] - Median(lengths))
                <= Stats!Abs(2 * lengths[b] - Median(lengths))
      PROVE  DriftOutlier(lengths, 1)[a] <= DriftOutlier(lengths, 1)[b]
  <2> DEFINE deviation(rec) == Stats!Abs(2 * lengths[rec] - Median(lengths))
  <2>1. Median(lengths) \in Int
    BY DriftFormula
  <2>2. deviation(a) \in Nat /\ deviation(b) \in Nat
    BY <2>1, AbsIsNatural
  <2>3. PICK mad \in Nat \ {0} :
          \A rec \in DOMAIN lengths :
              DriftOutlier(lengths, 1)[rec] = 4 * 1 * Tanh((4 * deviation(rec)) \div mad)
    BY DriftFormula
  <2>4. deviation(a) <= deviation(b)
    BY <1>2
  <2> HIDE DEF deviation
  <2>5. 4 * deviation(a) \in Nat /\ 4 * deviation(b) \in Nat
        /\ 4 * deviation(a) <= 4 * deviation(b) /\ mad > 0
    BY <2>2, <2>3, <2>4
  <2>6. PICK y \in Nat, z \in Nat : /\ y = (4 * deviation(a)) \div mad
                                    /\ z = (4 * deviation(b)) \div mad
                                    /\ y <= z
    BY <2>5, DivIncreases
  <2>7. 4 * 1 * Tanh(y) <= 4 * 1 * Tanh(z)
    BY <2>6, TanhIncreases
  <2>8. DriftOutlier(lengths, 1)[a] = 4 * 1 * Tanh(y)
        /\ DriftOutlier(lengths, 1)[b] = 4 * 1 * Tanh(z)
    BY <2>3, <2>6
  <2>9. QED
    BY <2>7, <2>8
<1>4. QED
  BY <1>1, <1>2, <1>3 DEF StrategiesShare

(* The invariant RankingIsSound of the run, for whatever judgements,       *)
(* lengths, weights and sizes the constants name.                          *)
THEOREM RankingIsAlwaysSound == Calculating => []RankingIsSound
<1>1. ASSUME input \in RefreshInputs PROVE RankingIsSound
  <2>1. /\ IntegerTable(input.judge) /\ IntegerTable(input.lengths)
        /\ input.weights.low_confidence \in Int /\ input.weights.drift_outlier \in Int
        /\ input.size \in Nat
    BY <1>1, CalculationsAssumption DEF RefreshInputs
  <2>2. StrategiesShare(input.judge, input.lengths)
    BY <2>1, StrategiesCountForTheirWeight DEF IntegerTable
  <2>3. RanksBest(input.judge, input.lengths, input.weights, input.size)
    BY <2>1, RefreshQueuesTheBest DEF IntegerTable
  <2>4. QED
    BY <2>2, <2>3 DEF RankingIsSound
<1>2. RankingIsSound
  BY <1>1 DEF RankingIsSound
<1>3. QED
  BY <1>2, PTL

-----------------------------------------------------------------------------
(* The loop of Translate.                                                  *)

(* Its rounds, as a function of the number of spans it has seen.           *)
Rounds(spans, f, n) ==
    [k \in 0 .. n |-> IF k = 0 THEN <<>> ELSE AddSpan(f[k - 1], spans[k])]
Loop(spans) == CHOOSE f : f = Rounds(spans, f, Len(spans))

LEMMA LoopUnfolds ==
    ASSUME NEW spans, Len(spans) \in Nat
    PROVE  /\ Translate(spans) = Loop(spans)[Len(spans)]
           /\ Loop(spans)[0] = <<>>
           /\ \A n \in 1 .. Len(spans) :
                Loop(spans)[n] = AddSpan(Loop(spans)[n - 1], spans[n])
<1> DEFINE Ok(n) == \E f : f = Rounds(spans, f, n)
           Wrong == {n \in Nat : ~ Ok(n)}
<1>1. Ok(0)
  <2> DEFINE f == [k \in 0 .. 0 |-> <<>>]
  <2>1. f = Rounds(spans, f, 0)
    BY DEF Rounds
  <2>2. QED
    BY <2>1
<1>2. ASSUME NEW n \in Nat, n # 0, Ok(n - 1)
      PROVE  Ok(n)
  <2>1. PICK f : f = Rounds(spans, f, n - 1)
    BY <1>2
  <2> DEFINE g == [k \in 0 .. n |-> IF k = n THEN AddSpan(f[n - 1], spans[n]) ELSE f[k]]
  <2>2. \A k \in 0 .. n - 1 :
          g[k] = f[k] /\ f[k] = IF k = 0 THEN <<>> ELSE AddSpan(f[k - 1], spans[k])
    BY <2>1 DEF Rounds
  <2>3. ASSUME NEW k \in 0 .. n
        PROVE  g[k] = IF k = 0 THEN <<>> ELSE AddSpan(g[k - 1], spans[k])
    <3>1. CASE k = n
      <4>1. g[k] = AddSpan(f[n - 1], spans[n]) /\ n - 1 \in 0 .. n - 1
        BY <1>2, <3>1
      <4>2. QED
        BY <1>2, <2>2, <3>1, <4>1
    <3>2. CASE k # n
      <4>1. k \in 0 .. n - 1 /\ (k # 0 => k - 1 \in 0 .. n - 1)
        BY <3>2
      <4>2. QED
        BY <2>2, <4>1
    <3>3. QED
      BY <3>1, <3>2
  <2>4. g = Rounds(spans, g, n)
    BY <2>3 DEF Rounds
  <2> HIDE DEF g
  <2>5. QED
    BY <2>4
<1>3. Wrong = {}
  <2>1. SUFFICES ASSUME Wrong # {} PROVE FALSE
    OBVIOUS
  <2>2. Wrong \in SUBSET Nat
    OBVIOUS
  <2>3. PICK n \in Wrong : \A m \in Wrong : n <= m
    BY <2>1, <2>2, LeastIn
  <2>4. n \in Nat /\ ~ Ok(n) /\ n # 0
    BY <1>1
  <2>5. n - 1 \in Nat /\ ~ (n <= n - 1)
    BY <2>4
  <2>6. Ok(n - 1)
    BY <2>3, <2>5
  <2>7. QED
    BY <1>2, <2>4, <2>6
<1>4. \E f : f = Rounds(spans, f, Len(spans))
  BY <1>3
<1>5. Loop(spans) = Rounds(spans, Loop(spans), Len(spans))
  BY <1>4 DEF Loop
<1>6. Translate(spans) = Loop(spans)[Len(spans)]
  BY DEF Translate, Loop, Rounds
<1>7. QED
  BY <1>5, <1>6 DEF Rounds

-----------------------------------------------------------------------------
(* What the spans at positions P have made of a trace.                     *)

LEMMA SpanFields ==
    ASSUME NEW Ids, NEW Names, NEW Scopes, NEW spans \in Seq(OtlpSpan(Ids, Names, Scopes))
    PROVE  \A k \in DOMAIN spans : /\ spans[k].start \in Nat \union {Missing}
                                   /\ spans[k].end \in Nat \union {Missing}
                                   /\ spans[k].error \in BOOLEAN
<1>1. \A sp \in OtlpSpan(Ids, Names, Scopes) : /\ sp.start \in Nat \union {Missing}
                                              /\ sp.end \in Nat \union {Missing}
                                              /\ sp.error \in BOOLEAN
  BY DEF OtlpSpan
<1>2. \A k \in DOMAIN spans : spans[k] \in OtlpSpan(Ids, Names, Scopes)
  OBVIOUS
<1>3. QED
  BY <1>1, <1>2

Listed(P, k) == Cardinality({l \in P : l <= k})
Internals(spans) == {InternalSpan(spans[k]) : k \in DOMAIN spans}
Roots(spans, P) == {k \in P : spans[k].parent = Missing}
Start(spans, k) == UnixNanoToMs(spans[k].start)

SpansOf(it, spans, P) ==
    /\ it.spans \in Seq(Internals(spans))
    /\ Len(it.spans) = Cardinality(P)
    /\ \A k \in P : it.spans[Listed(P, k)] = InternalSpan(spans[k])
StatusOf(it, spans, P) == it.status = "error" <=> \E k \in P : spans[k].error
EndOf(it, spans, P) ==
    /\ it.end_ms \in Nat \union {Missing}
    /\ \A k \in P : EndMs(spans[k]) <= it.end_ms
    /\ it.end_ms = Missing \/ \E k \in P : it.end_ms = EndMs(spans[k])
StartOf(it, spans, P) ==
    /\ it.start_ms \in Nat
    /\ P = {} => it.start_ms = 0
    /\ P # {} => \E k \in P : it.start_ms = Start(spans, k)
    /\ (\A k \in P : Start(spans, k) # 0) => \A k \in P : it.start_ms <= Start(spans, k)
NameOf(it, spans, P) ==
    Roots(spans, P) # {} => \E k \in Roots(spans, P) : it.name = spans[k].name

TraceOf(it, spans, P) ==
    /\ SpansOf(it, spans, P)
    /\ StatusOf(it, spans, P)
    /\ EndOf(it, spans, P)
    /\ StartOf(it, spans, P)
    /\ NameOf(it, spans, P)

(* The n-th span is added behind the earlier ones.                         *)
LEMMA SpanListed ==
    ASSUME NEW spans, NEW it, NEW n \in DOMAIN spans, NEW P \in SUBSET (1 .. n - 1), n \in Nat,
           SpansOf(it, spans, P)
    PROVE  SpansOf(WithSpan(it, spans[n]), spans, P \union {n})
<1> DEFINE is == InternalSpan(spans[n])
           after == WithSpan(it, spans[n])
           Q == P \union {n}
<1>1. after.spans = Append(it.spans, is)
  BY DEF WithSpan
<1>2. is \in Internals(spans)
  BY DEF Internals
<1>3. it.spans \in Seq(Internals(spans)) /\ Len(it.spans) = Cardinality(P)
      /\ \A k \in P : it.spans[Listed(P, k)] = InternalSpan(spans[k])
  BY DEF SpansOf
<1>4. IsFiniteSet(P) /\ Cardinality(P) \in Nat /\ n \notin P
      /\ IsFiniteSet(Q) /\ Cardinality(Q) = Cardinality(P) + 1
  <2>1. IsFiniteSet(1 .. n - 1)
    BY FS_Interval
  <2>2. IsFiniteSet(P)
    BY <2>1, FS_Subset
  <2>3. n \notin P
    <3>1. n \notin 1 .. n - 1
      OBVIOUS
    <3>2. QED
      BY <3>1
  <2>4. QED
    BY <2>2, <2>3, FS_AddElement, FS_CardinalityType
<1>5. \A k \in P : k \in Nat /\ k < n
  OBVIOUS
<1>6. Listed(Q, n) = Cardinality(P) + 1
  <2>1. {l \in Q : l <= n} = Q
    <3>1. n <= n /\ \A l \in P : l <= n
      BY <1>5
    <3>2. QED
      BY <3>1
  <2>2. QED
    BY <1>4, <2>1 DEF Listed
<1>7. ASSUME NEW k \in P
      PROVE  Listed(Q, k) = Listed(P, k) /\ Listed(P, k) \in 1 .. Cardinality(P)
  <2>1. {l \in Q : l <= k} = {l \in P : l <= k}
    BY <1>5
  <2>2. {l \in P : l <= k} \subseteq P /\ k \in {l \in P : l <= k}
    BY <1>5
  <2>3. IsFiniteSet({l \in P : l <= k}) /\ Cardinality({l \in P : l <= k}) <= Cardinality(P)
    BY <1>4, <2>2, FS_Subset
  <2>4. Cardinality({l \in P : l <= k}) \in Nat /\ Cardinality({l \in P : l <= k}) # 0
    BY <2>2, <2>3, FS_CardinalityType, FS_EmptySet
  <2>5. Listed(Q, k) = Listed(P, k)
    BY <2>1 DEF Listed
  <2>6. Listed(P, k) \in Nat /\ Listed(P, k) # 0 /\ Listed(P, k) <= Cardinality(P)
    BY <2>3, <2>4 DEF Listed
  <2>7. QED
    BY <1>4, <2>5, <2>6
<1> HIDE DEF is, after, Q
<1>8. after.spans \in Seq(Internals(spans)) /\ Len(after.spans) = Cardinality(Q)
  BY <1>1, <1>2, <1>3, <1>4
<1>9. ASSUME NEW k \in Q
      PROVE  after.spans[Listed(Q, k)] = InternalSpan(spans[k])
  <2>1. CASE k = n
    <3>1. after.spans[Cardinality(P) + 1] = is
      BY <1>1, <1>2, <1>3, <1>4
    <3>2. QED
      BY <1>6, <2>1, <3>1 DEF is
  <2>2. CASE k # n
    <3>1. k \in P
      BY <2>2 DEF Q
    <3>2. after.spans[Listed(P, k)] = it.spans[Listed(P, k)]
      BY <1>1, <1>2, <1>3, <1>7, <3>1
    <3>3. QED
      BY <1>3, <1>7, <3>1, <3>2
  <2>3. QED
    BY <2>1, <2>2
<1>10. QED
  BY <1>8, <1>9 DEF SpansOf, after, Q

LEMMA StatusKept ==
    ASSUME NEW spans, NEW it, NEW n, NEW P, StatusOf(it, spans, P), spans[n].error \in BOOLEAN
    PROVE  StatusOf(WithSpan(it, spans[n]), spans, P \union {n})
<1>1. WithSpan(it, spans[n]).status = IF spans[n].error THEN "error" ELSE it.status
  BY DEF WithSpan
<1>2. QED
  BY <1>1 DEF StatusOf

LEMMA NameKept ==
    ASSUME NEW spans, NEW it, NEW n, NEW P, NameOf(it, spans, P)
    PROVE  NameOf(WithSpan(it, spans[n]), spans, P \union {n})
<1> DEFINE after == WithSpan(it, spans[n])
<1>1. after.name = IF spans[n].parent = Missing THEN spans[n].name ELSE it.name
  BY DEF WithSpan
<1> HIDE DEF after
<1>2. CASE spans[n].parent = Missing
  BY <1>1, <1>2 DEF NameOf, Roots, after
<1>3. CASE spans[n].parent # Missing
  <2>1. Roots(spans, P \union {n}) = Roots(spans, P)
    BY <1>3 DEF Roots
  <2>2. after.name = it.name
    BY <1>1, <1>3
  <2>3. QED
    BY <2>1, <2>2 DEF NameOf, after
<1>4. QED
  BY <1>2, <1>3

(* Times are counted from 0; an end that is missing is below all others.   *)
LEMMA TimesInRange ==
    ASSUME NEW sp, sp.start \in Nat \union {Missing}, sp.end \in Nat \union {Missing}
    PROVE  /\ UnixNanoToMs(sp.start) \in Nat
           /\ EndMs(sp) \in Nat \union {Missing}
           /\ EndMs(sp) \in Int /\ Missing <= EndMs(sp)
<1>1. \A t \in Nat \union {Missing} : UnixNanoToMs(t) \in Nat
  BY DEF UnixNanoToMs, Missing
<1>2. EndMs(sp) \in Nat \union {Missing}
  BY <1>1 DEF EndMs
<1>3. QED
  BY <1>1, <1>2 DEF Missing

LEMMA EndKept ==
    ASSUME NEW spans, NEW it, NEW n, NEW P, EndOf(it, spans, P),
           \A k \in P \union {n} : EndMs(spans[k]) \in Nat \union {Missing}
    PROVE  EndOf(WithSpan(it, spans[n]), spans, P \union {n})
<1> DEFINE after == WithSpan(it, spans[n])
           end(k) == EndMs(spans[k])
<1>1. after.end_ms = Max({it.end_ms, InternalSpan(spans[n]).end_ms})
  BY DEF WithSpan, Later
<1>2. InternalSpan(spans[n]).end_ms = end(n)
  BY DEF InternalSpan
<1>3. it.end_ms \in Nat \union {Missing} /\ end(n) \in Nat \union {Missing}
      /\ it.end_ms \in Int /\ end(n) \in Int
  BY DEF EndOf, Missing
<1>4. \A k \in P : end(k) <= it.end_ms /\ end(k) \in Int
  BY DEF EndOf, Missing
<1>5. it.end_ms = Missing \/ \E k \in P : it.end_ms = end(k)
  BY DEF EndOf
<1> HIDE DEF after, end
<1>6. after.end_ms = IF it.end_ms >= end(n) THEN it.end_ms ELSE end(n)
  BY <1>1, <1>2, <1>3, MaxOfTwo
<1>7. after.end_ms \in Nat \union {Missing}
  BY <1>3, <1>6
<1>8. \A k \in P \union {n} : end(k) <= after.end_ms
  BY <1>3, <1>4, <1>6
<1>9. after.end_ms = Missing \/ \E k \in P \union {n} : after.end_ms = end(k)
  BY <1>5, <1>6
<1>10. QED
  BY <1>7, <1>8, <1>9 DEF EndOf, after, end

LEMMA StartKept ==
    ASSUME NEW spans, NEW it, NEW n, NEW P, StartOf(it, spans, P),
           \A k \in P \union {n} : Start(spans, k) \in Nat
    PROVE  StartOf(WithSpan(it, spans[n]), spans, P \union {n})
<1> DEFINE after == WithSpan(it, spans[n])
           Q == P \union {n}
<1>1. after.start_ms = Earlier(it.start_ms, InternalSpan(spans[n]).start_ms)
  BY DEF WithSpan
<1>2. InternalSpan(spans[n]).start_ms = Start(spans, n)
  BY DEF InternalSpan, Start
<1>3. /\ it.start_ms \in Nat
      /\ P = {} => it.start_ms = 0
      /\ P # {} => \E k \in P : it.start_ms = Start(spans, k)
      /\ (\A k \in P : Start(spans, k) # 0) => \A k \in P : it.start_ms <= Start(spans, k)
  BY DEF StartOf
<1>4. Start(spans, n) \in Nat /\ \A k \in P : Start(spans, k) \in Nat
  OBVIOUS
<1> HIDE DEF after
<1>5. after.start_ms = IF it.start_ms = 0 \/ Start(spans, n) < it.start_ms
                       THEN Start(spans, n) ELSE it.start_ms
  BY <1>1, <1>2 DEF Earlier
<1>6. after.start_ms \in Nat
  BY <1>3, <1>4, <1>5
<1>7. \E k \in Q : after.start_ms = Start(spans, k)
  BY <1>3, <1>5
<1>8. ASSUME \A k \in Q : Start(spans, k) # 0, NEW k \in Q
      PROVE  after.start_ms <= Start(spans, k)
  <2>1. Start(spans, n) # 0 /\ \A l \in P : Start(spans, l) # 0
    BY <1>8
  <2>2. CASE P = {}
    BY <1>3, <1>4, <1>5, <2>2
  <2>3. CASE P # {}
    <3>1. it.start_ms # 0
      BY <1>3, <2>1, <2>3
    <3>2. after.start_ms <= Start(spans, n) /\ after.start_ms <= it.start_ms
      BY <1>3, <1>4, <1>5, <3>1
    <3>3. CASE k \in P
      BY <1>3, <1>4, <1>6, <2>1, <3>2, <3>3
    <3>4. CASE k = n
      BY <3>2, <3>4
    <3>5. QED
      BY <3>3, <3>4
  <2>4. QED
    BY <2>2, <2>3
<1>9. QED
  BY <1>6, <1>7, <1>8 DEF StartOf, after

(* What the first n spans of a request have made.                          *)
SeenSoFar(spans, n, byTrace) ==
    /\ DOMAIN byTrace = {spans[k].trace : k \in {k \in 1 .. n : Identified(spans[k])}}
    /\ \A t \in DOMAIN byTrace : TraceOf(byTrace[t], spans, Of(spans, n, t))

(* A trace that has just been made has none of them yet.                   *)
LEMMA NewTraceIsEmpty ==
    ASSUME NEW spans, NEW sp
    PROVE  TraceOf(NewTrace(sp), spans, {})
<1>1. /\ NewTrace(sp).spans = <<>> /\ NewTrace(sp).start_ms = 0
      /\ NewTrace(sp).end_ms = Missing
  BY DEF NewTrace
<1>2. NewTrace(sp).status # "error"
  BY DEF NewTrace
<1>3. SpansOf(NewTrace(sp), spans, {})
  BY <1>1, FS_EmptySet DEF SpansOf
<1>4. StatusOf(NewTrace(sp), spans, {})
  BY <1>2 DEF StatusOf
<1>5. EndOf(NewTrace(sp), spans, {}) /\ StartOf(NewTrace(sp), spans, {})
  BY <1>1 DEF EndOf, StartOf
<1>6. NameOf(NewTrace(sp), spans, {})
  BY DEF NameOf, Roots
<1>7. QED
  BY <1>3, <1>4, <1>5, <1>6 DEF TraceOf

LEMMA TraceKept ==
    ASSUME NEW Ids, NEW Names, NEW Scopes, NEW spans \in Seq(OtlpSpan(Ids, Names, Scopes)),
           NEW n \in DOMAIN spans, NEW P \in SUBSET (1 .. n - 1), NEW it,
           TraceOf(it, spans, P)
    PROVE  TraceOf(WithSpan(it, spans[n]), spans, P \union {n})
<1>1. n \in Nat /\ P \union {n} \subseteq DOMAIN spans
  <2>1. DOMAIN spans = 1 .. Len(spans) /\ Len(spans) \in Nat
    OBVIOUS
  <2>2. n \in Nat /\ 1 .. n - 1 \subseteq DOMAIN spans
    BY <2>1
  <2>3. QED
    BY <2>2
<1>2. \A k \in DOMAIN spans : /\ spans[k].start \in Nat \union {Missing}
                              /\ spans[k].end \in Nat \union {Missing}
                              /\ spans[k].error \in BOOLEAN
  BY SpanFields
<1>3. \A k \in DOMAIN spans : /\ Start(spans, k) \in Nat
                              /\ EndMs(spans[k]) \in Nat \union {Missing}
  BY <1>2, TimesInRange DEF Start
<1>4. spans[n].error \in BOOLEAN
  BY <1>2
<1>5. \A k \in P \union {n} : Start(spans, k) \in Nat
  BY <1>1, <1>3
<1>6. \A k \in P \union {n} : EndMs(spans[k]) \in Nat \union {Missing}
  BY <1>1, <1>3
<1>7. /\ SpansOf(it, spans, P) /\ StatusOf(it, spans, P) /\ EndOf(it, spans, P)
      /\ StartOf(it, spans, P) /\ NameOf(it, spans, P)
  BY DEF TraceOf
<1>8. SpansOf(WithSpan(it, spans[n]), spans, P \union {n})
  BY <1>1, <1>7, SpanListed
<1>9. StatusOf(WithSpan(it, spans[n]), spans, P \union {n})
  BY <1>4, <1>7, StatusKept
<1>10. EndOf(WithSpan(it, spans[n]), spans, P \union {n})
  BY <1>6, <1>7, EndKept
<1>11. StartOf(WithSpan(it, spans[n]), spans, P \union {n})
  BY <1>5, <1>7, StartKept
<1>12. NameOf(WithSpan(it, spans[n]), spans, P \union {n})
  BY <1>7, NameKept
<1>13. QED
  BY <1>8, <1>9, <1>10, <1>11, <1>12 DEF TraceOf

LEMMA RoundKeeps ==
    ASSUME NEW Ids, NEW Names, NEW Scopes, NEW spans \in Seq(OtlpSpan(Ids, Names, Scopes)),
           NEW n \in DOMAIN spans, NEW byTrace, SeenSoFar(spans, n - 1, byTrace)
    PROVE  SeenSoFar(spans, n, AddSpan(byTrace, spans[n]))
<1> DEFINE sp == spans[n]
           after == AddSpan(byTrace, sp)
           Seen(m) == {spans[k].trace : k \in {k \in 1 .. m : Identified(spans[k])}}
<1>1. n \in Nat /\ n # 0 /\ 1 .. n = (1 .. n - 1) \union {n} /\ n \notin 1 .. n - 1
  OBVIOUS
<1>2. /\ DOMAIN byTrace = Seen(n - 1)
      /\ \A t \in DOMAIN byTrace : TraceOf(byTrace[t], spans, Of(spans, n - 1, t))
  BY DEF SeenSoFar
<1>3. \A t : Of(spans, n - 1, t) \in SUBSET (1 .. n - 1)
  BY DEF Of
<1>4. CASE ~ Identified(sp)
  <2>1. after = byTrace
    BY <1>4 DEF AddSpan
  <2>2. \A t : Of(spans, n, t) = Of(spans, n - 1, t)
    BY <1>1, <1>4 DEF Of
  <2>3. Seen(n) = Seen(n - 1)
    BY <1>1, <1>4
  <2>4. QED
    BY <1>2, <2>1, <2>2, <2>3 DEF SeenSoFar
<1>5. CASE Identified(sp)
  <2> DEFINE it == IF sp.trace \in DOMAIN byTrace THEN byTrace[sp.trace] ELSE NewTrace(sp)
  <2>1. after = [t \in DOMAIN byTrace \union {sp.trace} |->
                    IF t = sp.trace THEN WithSpan(it, sp) ELSE byTrace[t]]
    BY <1>5 DEF AddSpan
  <2>2. /\ DOMAIN after = DOMAIN byTrace \union {sp.trace}
        /\ after[sp.trace] = WithSpan(it, sp)
        /\ \A t \in DOMAIN byTrace : t # sp.trace => after[t] = byTrace[t]
    BY <2>1
  <2>3. Seen(n) = Seen(n - 1) \union {sp.trace}
    BY <1>1, <1>5
  <2>4. /\ Of(spans, n, sp.trace) = Of(spans, n - 1, sp.trace) \union {n}
        /\ \A t : t # sp.trace => Of(spans, n, t) = Of(spans, n - 1, t)
    BY <1>1, <1>5 DEF Of
  <2>5. TraceOf(it, spans, Of(spans, n - 1, sp.trace))
    <3>1. CASE sp.trace \in DOMAIN byTrace
      BY <1>2, <3>1
    <3>2. CASE sp.trace \notin DOMAIN byTrace
      <4>1. Of(spans, n - 1, sp.trace) = {}
        BY <1>2, <3>2 DEF Of
      <4>2. it = NewTrace(sp)
        BY <3>2
      <4> HIDE DEF it, sp
      <4>3. QED
        BY <4>1, <4>2, NewTraceIsEmpty
    <3>3. QED
      BY <3>1, <3>2
  <2> HIDE DEF it, after
  <2>6. TraceOf(WithSpan(it, spans[n]), spans, Of(spans, n - 1, sp.trace) \union {n})
    BY <1>3, <2>5, TraceKept
  <2>7. TraceOf(after[sp.trace], spans, Of(spans, n, sp.trace))
    BY <2>2, <2>4, <2>6
  <2> HIDE DEF sp
  <2>8. \A t \in DOMAIN after : TraceOf(after[t], spans, Of(spans, n, t))
    BY <1>2, <2>2, <2>4, <2>7
  <2> HIDE DEF Seen
  <2>9. DOMAIN after = Seen(n)
    BY <1>2, <2>2, <2>3
  <2>10. QED
    BY <2>8, <2>9 DEF SeenSoFar, after, sp, Seen
<1>6. QED
  BY <1>4, <1>5

LEMMA LoopKeeps ==
    ASSUME NEW Ids, NEW Names, NEW Scopes, NEW spans \in Seq(OtlpSpan(Ids, Names, Scopes))
    PROVE  SeenSoFar(spans, Len(spans), Translate(spans))
<1> DEFINE after == Loop(spans)
           Wrong == {n \in 0 .. Len(spans) : ~ SeenSoFar(spans, n, after[n])}
<1>1. Len(spans) \in Nat /\ DOMAIN spans = 1 .. Len(spans)
  OBVIOUS
<1>2. /\ Translate(spans) = after[Len(spans)]
      /\ after[0] = <<>>
      /\ \A n \in 1 .. Len(spans) : after[n] = AddSpan(after[n - 1], spans[n])
  BY <1>1, LoopUnfolds
<1> HIDE DEF after
<1>3. SeenSoFar(spans, 0, after[0])
  <2>1. DOMAIN after[0] = {}
    BY <1>2
  <2>2. {spans[k].trace : k \in {k \in 1 .. 0 : Identified(spans[k])}} = {}
    OBVIOUS
  <2>3. QED
    BY <2>1, <2>2 DEF SeenSoFar
<1>4. Wrong = {}
  <2>1. SUFFICES ASSUME Wrong # {} PROVE FALSE
    OBVIOUS
  <2>2. Wrong \in SUBSET Nat
    OBVIOUS
  <2>3. PICK n \in Wrong : \A m \in Wrong : n <= m
    BY <2>1, <2>2, LeastIn
  <2>4. n \in 0 .. Len(spans) /\ ~ SeenSoFar(spans, n, after[n])
    OBVIOUS
  <2>5. n \in 1 .. Len(spans) /\ n - 1 \in 0 .. Len(spans) /\ ~ (n <= n - 1)
    BY <1>1, <1>3, <2>4
  <2>6. SeenSoFar(spans, n - 1, after[n - 1])
    BY <2>3, <2>5
  <2>7. SeenSoFar(spans, n, AddSpan(after[n - 1], spans[n]))
    BY <1>1, <2>5, <2>6, RoundKeeps
  <2>8. QED
    BY <1>2, <2>4, <2>5, <2>7
<1>5. Len(spans) \in 0 .. Len(spans)
  BY <1>1
<1>6. QED
  BY <1>2, <1>4, <1>5

(* The translation of any OTLP request loses no identified span and makes  *)
(* none up, keeps their order, and gives every trace the bounds, the       *)
(* status and the name its own spans have, in whatever order they came.    *)
THEOREM TranslationIsExact ==
    ASSUME NEW Ids, NEW Names, NEW Scopes, NEW spans \in Seq(OtlpSpan(Ids, Names, Scopes))
    PROVE  TranslationSound(spans)
<1> DEFINE out == Translate(spans)
           n == Len(spans)
           of(t) == Of(spans, n, t)
<1>1. n \in Nat /\ DOMAIN spans = 1 .. n
  OBVIOUS
<1>2. /\ DOMAIN out = {spans[k].trace : k \in {k \in 1 .. n : Identified(spans[k])}}
      /\ \A t \in DOMAIN out : TraceOf(out[t], spans, of(t))
  BY LoopKeeps DEF SeenSoFar
<1>3. \A k \in DOMAIN spans :
        EndMs(spans[k]) \in Int /\ Missing <= EndMs(spans[k]) /\ Missing \in Int
  <2>1. \A k \in DOMAIN spans : /\ spans[k].start \in Nat \union {Missing}
                                /\ spans[k].end \in Nat \union {Missing}
    BY SpanFields
  <2>2. QED
    BY <2>1, TimesInRange DEF Missing
<1>4. \A t \in DOMAIN out : of(t) # {} /\ of(t) \subseteq DOMAIN spans
  BY <1>1, <1>2 DEF Of
<1> HIDE DEF out, of
<1>5. ASSUME NEW t \in DOMAIN out
      PROVE  /\ Len(out[t].spans) = Cardinality(of(t))
             /\ \A k \in of(t) : out[t].spans[Cardinality({l \in of(t) : l <= k})]
                                   = InternalSpan(spans[k])
             /\ out[t].status = "error" <=> \E k \in of(t) : spans[k].error
             /\ {k \in of(t) : spans[k].parent = Missing} # {} =>
                  \E k \in of(t) : out[t].name = spans[k].name /\ spans[k].parent = Missing
  <2>1. TraceOf(out[t], spans, of(t)) /\ of(t) # {}
    BY <1>2, <1>4
  <2>2. QED
    BY <2>1 DEF TraceOf, SpansOf, Listed, StatusOf, NameOf, Roots
<1>6. ASSUME NEW t \in DOMAIN out
      PROVE  /\ \A k \in of(t) : EndMs(spans[k]) <= out[t].end_ms
             /\ \E k \in of(t) : out[t].end_ms = EndMs(spans[k])
  <2>1. EndOf(out[t], spans, of(t)) /\ of(t) # {} /\ of(t) \subseteq DOMAIN spans
    BY <1>2, <1>4 DEF TraceOf
  <2>2. CASE out[t].end_ms = Missing
    <3>1. \A k \in of(t) : EndMs(spans[k]) = Missing
      BY <1>3, <2>1, <2>2 DEF EndOf
    <3>2. QED
      BY <2>1, <2>2, <3>1 DEF EndOf
  <2>3. CASE out[t].end_ms # Missing
    BY <2>1, <2>3 DEF EndOf
  <2>4. QED
    BY <2>2, <2>3
<1>7. ASSUME NEW t \in DOMAIN out
      PROVE  /\ \E k \in of(t) : out[t].start_ms = UnixNanoToMs(spans[k].start)
             /\ (\A k \in of(t) : UnixNanoToMs(spans[k].start) # 0) =>
                    \A k \in of(t) : out[t].start_ms <= UnixNanoToMs(spans[k].start)
  <2>1. StartOf(out[t], spans, of(t)) /\ of(t) # {}
    BY <1>2, <1>4 DEF TraceOf
  <2>2. QED
    BY <2>1 DEF StartOf, Start
<1>8. ASSUME NEW t \in DOMAIN out
      PROVE  LET starts == {UnixNanoToMs(spans[k].start) : k \in of(t)}
                 roots == {k \in of(t) : spans[k].parent = Missing}
             IN  /\ out[t].end_ms \in {EndMs(spans[k]) : k \in of(t)}
                 /\ out[t].start_ms \in starts
                 /\ 0 \notin starts => \A s \in starts : out[t].start_ms <= s
                 /\ roots # {} => out[t].name \in {spans[k].name : k \in roots}
  BY <1>5, <1>6, <1>7
<1>9. QED
  BY <1>1, <1>2, <1>5, <1>6, <1>8 DEF TranslationSound, out, of

(* The invariant TranslationIsSound of the run, for whatever requests the  *)
(* constants name.                                                         *)
THEOREM TranslationIsAlwaysSound == Translating => []TranslationIsSound
<1>1. ASSUME request \in OtlpRequests PROVE TranslationIsSound
  <2>1. request \in Seq(OtlpSpan(SpanIds, SpanNames, SpanScopes))
    BY <1>1, OtlpAssumption
  <2>2. QED
    BY <2>1, TranslationIsExact DEF TranslationIsSound
<1>2. request \in OtlpRequests /\ [request' \in OtlpRequests]_request
        => (request \in OtlpRequests)'
  OBVIOUS
<1>3. QED
  BY <1>1, <1>2, PTL DEF Translating

-----------------------------------------------------------------------------
(* Sums of a function over sets of its arguments: SumFunction adds the     *)
(* values one by one, in an order that CHOOSE picks, and SumOver(f) has    *)
(* the sums over all sets of arguments.                                    *)

Taken(s) == CHOOSE x \in s : TRUE
SumStep(f, g, U) ==
    [s \in U |-> IF s = {} THEN 0 ELSE f[Taken(s)] + g[s \ {Taken(s)}]]
SumOver(f) == CHOOSE g : g = SumStep(f, g, SUBSET DOMAIN f)

LEMMA SumIsSumOver ==
    ASSUME NEW f
    PROVE  SumFunction(f) = SumOver(f)[DOMAIN f]
BY Zenon DEF SumFunction, SumFunctionOnSet, FoldFunctionOnSet, MapThenFoldSet, SumOver, SumStep,
             Taken

(* A set of subsets that has the empty one, and with each set less one     *)
(* element the set itself, has them all.                                   *)
LEMMA SubsetInduction ==
    ASSUME NEW D, IsFiniteSet(D), NEW Good, {} \in Good,
           \A s \in SUBSET D : s # {} /\ (\A x \in s : s \ {x} \in Good) => s \in Good
    PROVE  \A s \in SUBSET D : s \in Good
<1> DEFINE Sizes == {Cardinality(s) : s \in {s \in SUBSET D : s \notin Good}}
<1>1. SUFFICES ASSUME NEW t \in SUBSET D, t \notin Good PROVE FALSE
  OBVIOUS
<1>2. \A s \in SUBSET D : IsFiniteSet(s) /\ Cardinality(s) \in Nat
  BY FS_Subset, FS_CardinalityType
<1>3. Sizes \in SUBSET Nat /\ Sizes # {}
  BY <1>1, <1>2
<1>4. PICK n \in Sizes : \A m \in Sizes : n <= m
  BY <1>3, LeastIn
<1>5. PICK s \in SUBSET D : s \notin Good /\ Cardinality(s) = n
  BY <1>4
<1>6. ASSUME NEW x \in s PROVE s \ {x} \in Good
  <2>1. SUFFICES ASSUME s \ {x} \notin Good PROVE FALSE
    OBVIOUS
  <2>2. Cardinality(s \ {x}) = n - 1 /\ n \in Nat
    <3>1. IsFiniteSet(s) /\ n \in Nat
      BY <1>2, <1>5
    <3>2. Cardinality(s \ {x}) = Cardinality(s) - 1
      BY <3>1, FS_RemoveElement
    <3>3. QED
      BY <1>5, <3>1, <3>2
  <2>3. Cardinality(s \ {x}) \in Sizes
    BY <2>1
  <2>4. n <= Cardinality(s \ {x})
    <3> HIDE DEF Sizes
    <3>1. QED
      BY <1>4, <2>3
  <2>5. QED
    BY <2>2, <2>4
<1>7. QED
  BY <1>5, <1>6

(* The sums exist: for no number of elements is there a first failure.     *)
LEMMA SumsExist ==
    ASSUME NEW f, IsFiniteSet(DOMAIN f)
    PROVE  SumOver(f) = SumStep(f, SumOver(f), SUBSET DOMAIN f)
<1> DEFINE D == DOMAIN f
           Small(n) == {s \in SUBSET D : Cardinality(s) <= n}
           Ok(n) == \E g : g = SumStep(f, g, Small(n))
           Wrong == {n \in Nat : ~ Ok(n)}
<1>1. \A s \in SUBSET D : /\ IsFiniteSet(s) /\ Cardinality(s) \in Nat
                          /\ Cardinality(s) = 0 <=> s = {}
                          /\ Cardinality(s) <= Cardinality(D)
  BY FS_Subset, FS_CardinalityType, FS_EmptySet
<1>2. \A s \in SUBSET D : s # {} =>
        /\ s \ {Taken(s)} \in SUBSET D
        /\ Cardinality(s \ {Taken(s)}) = Cardinality(s) - 1
  <2>1. \A s \in SUBSET D : s # {} => Taken(s) \in s
    BY DEF Taken
  <2>2. QED
    BY <1>1, <2>1, FS_RemoveElement
<1>3. Cardinality(D) \in Nat
  BY <1>1
<1> HIDE DEF D
<1>4. Ok(0)
  <2> DEFINE g == [s \in Small(0) |-> 0]
  <2>1. \A s \in Small(0) : s = {}
    BY <1>1
  <2>2. g = SumStep(f, g, Small(0))
    BY <2>1 DEF SumStep
  <2> HIDE DEF g
  <2>3. QED
    BY <2>2
<1>5. ASSUME NEW n \in Nat, n # 0, Ok(n - 1)
      PROVE  Ok(n)
  <2>1. PICK g : g = SumStep(f, g, Small(n - 1))
    BY <1>5
  <2> DEFINE h == [s \in Small(n) |-> IF s = {} THEN 0 ELSE f[Taken(s)] + g[s \ {Taken(s)}]]
  <2>2. \A s \in Small(n - 1) :
          g[s] = IF s = {} THEN 0 ELSE f[Taken(s)] + g[s \ {Taken(s)}]
    BY <2>1 DEF SumStep
  <2>3. \A s \in Small(n - 1) : s \in Small(n)
    BY <1>1, <1>5
  <2>4. \A s \in Small(n) : s # {} => s \ {Taken(s)} \in Small(n - 1)
    BY <1>1, <1>2, <1>5
  <2> HIDE DEF Small
  <2>5. \A s \in Small(n - 1) : h[s] = g[s]
    BY <2>2, <2>3
  <2>6. \A s \in Small(n) : h[s] = IF s = {} THEN 0 ELSE f[Taken(s)] + h[s \ {Taken(s)}]
    BY <2>4, <2>5
  <2>7. h = SumStep(f, h, Small(n))
    BY <2>6 DEF SumStep
  <2> HIDE DEF h
  <2>8. QED
    BY <2>7
<1>6. Wrong = {}
  <2> HIDE DEF Ok
  <2>1. SUFFICES ASSUME Wrong # {} PROVE FALSE
    OBVIOUS
  <2>2. Wrong \in SUBSET Nat
    OBVIOUS
  <2>3. PICK n \in Wrong : \A m \in Wrong : n <= m
    BY <2>1, <2>2, LeastIn
  <2>4. n \in Nat /\ ~ Ok(n) /\ n # 0
    BY <1>4
  <2>5. n - 1 \in Nat /\ ~ (n <= n - 1)
    BY <2>4
  <2>6. Ok(n - 1)
    BY <2>3, <2>5
  <2>7. QED
    BY <1>5, <2>4, <2>6
<1>7. Small(Cardinality(D)) = SUBSET D
  BY <1>1
<1>8. Ok(Cardinality(D))
  BY <1>3, <1>6
<1>9. \E g : g = SumStep(f, g, SUBSET D)
  BY <1>7, <1>8
<1>10. QED
  BY <1>9 DEF SumOver, D

(* What the sums of f are: nothing for no argument, and any argument can   *)
(* be taken out.                                                           *)
Summable(f) == IsFiniteSet(DOMAIN f) /\ \A x \in DOMAIN f : f[x] \in Int
AreSums(A, f) ==
    /\ A[{}] = 0
    /\ \A s \in SUBSET DOMAIN f : A[s] \in Int
    /\ \A s \in SUBSET DOMAIN f : \A x \in s : A[s] = A[s \ {x}] + f[x]

LEMMA SumsAdd ==
    ASSUME NEW f, Summable(f)
    PROVE  AreSums(SumOver(f), f)
<1> DEFINE D == DOMAIN f
           A == SumOver(f)
<1>1. \A s \in SUBSET D : A[s] = IF s = {} THEN 0 ELSE f[Taken(s)] + A[s \ {Taken(s)}]
  BY SumsExist DEF SumStep, Summable
<1>2. \A x \in D : f[x] \in Int
  BY DEF Summable
<1>3. IsFiniteSet(D) /\ {} \in SUBSET D
  BY DEF Summable
<1>4. \A s \in SUBSET D : s # {} => Taken(s) \in s
  BY DEF Taken
<1> HIDE DEF D, A
<1>5. A[{}] = 0
  BY <1>1, <1>3
<1> DEFINE Whole == {s \in SUBSET D : A[s] \in Int}
<1>6. \A s \in SUBSET D : s \in Whole
  <2>1. {} \in Whole
    BY <1>3, <1>5
  <2>2. ASSUME NEW s \in SUBSET D, s # {}, \A x \in s : s \ {x} \in Whole
        PROVE  s \in Whole
    <3>1. Taken(s) \in s /\ f[Taken(s)] \in Int
      BY <1>2, <1>4, <2>2
    <3>2. A[s \ {Taken(s)}] \in Int
      BY <2>2, <3>1
    <3>3. QED
      BY <1>1, <2>2, <3>1, <3>2
  <2> HIDE DEF Whole
  <2>3. QED
    BY <1>3, <2>1, <2>2, SubsetInduction
<1> DEFINE Good == {s \in SUBSET D : \A x \in s : A[s] = A[s \ {x}] + f[x]}
<1>7. \A s \in SUBSET D : s \in Good
  <2>1. {} \in Good
    OBVIOUS
  <2>2. ASSUME NEW s \in SUBSET D, s # {}, \A x \in s : s \ {x} \in Good
        PROVE  s \in Good
    <3>1. SUFFICES ASSUME NEW x \in s PROVE A[s] = A[s \ {x}] + f[x]
      OBVIOUS
    <3>2. PICK p \in s : A[s] = f[p] + A[s \ {p}]
      BY <1>1, <1>4, <2>2
    <3>3. /\ A[s \ {p}] \in Int /\ A[s \ {x}] \in Int /\ A[(s \ {p}) \ {x}] \in Int
          /\ f[p] \in Int /\ f[x] \in Int
      BY <1>2, <1>6
    <3>4. CASE x = p
      BY <3>2, <3>3, <3>4
    <3>5. CASE x # p
      <4>1. (s \ {p}) \ {x} = (s \ {x}) \ {p} /\ x \in s \ {p} /\ p \in s \ {x}
        BY <3>5
      <4>2. A[s \ {p}] = A[(s \ {p}) \ {x}] + f[x]
        BY <2>2, <4>1
      <4>3. A[s \ {x}] = A[(s \ {p}) \ {x}] + f[p]
        BY <2>2, <4>1
      <4>4. QED
        BY <3>2, <3>3, <4>2, <4>3
    <3>6. QED
      BY <3>4, <3>5
  <2> HIDE DEF Good
  <2>3. QED
    BY <1>3, <2>1, <2>2, SubsetInduction
<1>8. QED
  BY <1>5, <1>6, <1>7 DEF AreSums, D, A

(* The sum over all arguments.                                             *)
LEMMA SumIsInteger ==
    ASSUME NEW f, Summable(f)
    PROVE  SumFunction(f) \in Int
BY SumsAdd, SumIsSumOver DEF AreSums

(* A sum is linear in its function.                                        *)
Combines(h, a, f, b, g) ==
    /\ DOMAIN g = DOMAIN f /\ DOMAIN h = DOMAIN f
    /\ \A x \in DOMAIN f : h[x] = a * f[x] + b * g[x]

LEMMA SumIsLinear ==
    ASSUME NEW f, NEW g, NEW h, Summable(f), Summable(g), Summable(h),
           NEW a \in Int, NEW b \in Int, Combines(h, a, f, b, g)
    PROVE  SumFunction(h) = a * SumFunction(f) + b * SumFunction(g)
<1> DEFINE D == DOMAIN f
           F == SumOver(f)
           G == SumOver(g)
           H == SumOver(h)
           Good == {s \in SUBSET D : H[s] = a * F[s] + b * G[s]}
<1>1. AreSums(F, f) /\ AreSums(G, g) /\ AreSums(H, h) /\ DOMAIN g = D /\ DOMAIN h = D
  BY SumsAdd DEF Combines
<1>2. /\ F[{}] = 0 /\ G[{}] = 0 /\ H[{}] = 0
      /\ \A s \in SUBSET D : F[s] \in Int /\ G[s] \in Int /\ H[s] \in Int
      /\ \A s \in SUBSET D : \A x \in s :
            F[s] = F[s \ {x}] + f[x] /\ G[s] = G[s \ {x}] + g[x] /\ H[s] = H[s \ {x}] + h[x]
  BY <1>1 DEF AreSums
<1>3. /\ IsFiniteSet(D) /\ {} \in SUBSET D
      /\ \A x \in D : f[x] \in Int /\ g[x] \in Int /\ h[x] = a * f[x] + b * g[x]
      /\ DOMAIN g = D /\ DOMAIN h = D
  BY DEF Summable, Combines
<1> HIDE DEF F, G, H, D
<1>4. {} \in Good
  BY <1>2, <1>3
<1>5. ASSUME NEW s \in SUBSET D, s # {}, \A x \in s : s \ {x} \in Good
      PROVE  s \in Good
  <2>1. PICK x \in s : TRUE
    BY <1>5
  <2>2. PICK u \in Int, v \in Int, p \in Int, q \in Int :
          u = F[s \ {x}] /\ v = G[s \ {x}] /\ p = f[x] /\ q = g[x]
    BY <1>2, <1>3
  <2>3. H[s \ {x}] = a * u + b * v /\ h[x] = a * p + b * q
    BY <1>3, <1>5, <2>2
  <2>4. F[s] = u + p /\ G[s] = v + q /\ H[s] = (a * u + b * v) + (a * p + b * q)
    BY <1>2, <2>2, <2>3
  <2>5. (a * u + b * v) + (a * p + b * q) = a * (u + p) + b * (v + q)
    OBVIOUS
  <2>6. QED
    BY <2>4, <2>5
<1>6. D \in Good
  <2> HIDE DEF Good
  <2>1. \A s \in SUBSET D : s \in Good
    BY <1>3, <1>4, <1>5, SubsetInduction
  <2>2. QED
    BY <2>1
<1>7. SumFunction(f) = F[D] /\ SumFunction(g) = G[D] /\ SumFunction(h) = H[D]
  BY <1>3, SumIsSumOver DEF F, G, H, D
<1>8. QED
  BY <1>6, <1>7

(* The larger function has the larger sum, or they are the same.           *)
LEMMA SumIsMonotone ==
    ASSUME NEW f, NEW g, Summable(f), Summable(g), DOMAIN g = DOMAIN f,
           \A x \in DOMAIN f : f[x] <= g[x]
    PROVE  /\ SumFunction(f) <= SumFunction(g)
           /\ SumFunction(f) = SumFunction(g) => \A x \in DOMAIN f : f[x] = g[x]
<1> DEFINE D == DOMAIN f
           F == SumOver(f)
           G == SumOver(g)
           Good == {s \in SUBSET D : /\ F[s] <= G[s]
                                     /\ F[s] = G[s] => \A x \in s : f[x] = g[x]}
<1>1. AreSums(F, f) /\ AreSums(G, g)
  BY SumsAdd
<1>2. /\ F[{}] = 0 /\ G[{}] = 0
      /\ \A s \in SUBSET D : F[s] \in Int /\ G[s] \in Int
      /\ \A s \in SUBSET D : \A x \in s : F[s] = F[s \ {x}] + f[x] /\ G[s] = G[s \ {x}] + g[x]
  BY <1>1 DEF AreSums
<1>3. /\ IsFiniteSet(D) /\ {} \in SUBSET D
      /\ \A x \in D : f[x] \in Int /\ g[x] \in Int /\ f[x] <= g[x]
  BY DEF Summable
<1> HIDE DEF F, G, D
<1>4. {} \in Good
  BY <1>2, <1>3
<1>5. ASSUME NEW s \in SUBSET D, s # {}, \A x \in s : s \ {x} \in Good
      PROVE  s \in Good
  <2>1. PICK x \in s : TRUE
    BY <1>5
  <2>2. PICK u \in Int, v \in Int, p \in Int, q \in Int :
          u = F[s \ {x}] /\ v = G[s \ {x}] /\ p = f[x] /\ q = g[x] /\ p <= q
    BY <1>2, <1>3
  <2>3. u <= v /\ (u = v => \A y \in s \ {x} : f[y] = g[y])
    BY <1>5, <2>2
  <2>4. F[s] = u + p /\ G[s] = v + q
    BY <1>2, <2>2
  <2>5. F[s] <= G[s] /\ (F[s] = G[s] => u = v /\ p = q)
    BY <2>2, <2>3, <2>4
  <2>6. QED
    BY <2>2, <2>3, <2>5
<1>6. D \in Good
  <2> HIDE DEF Good
  <2>1. \A s \in SUBSET D : s \in Good
    BY <1>3, <1>4, <1>5, SubsetInduction
  <2>2. QED
    BY <2>1
<1>7. SumFunction(f) = F[D] /\ SumFunction(g) = G[D]
  BY SumIsSumOver DEF F, G, D
<1>8. QED
  BY <1>6, <1>7 DEF D

(* A constant is added as often as there are arguments.                    *)
LEMMA SumOfConstant ==
    ASSUME NEW f, Summable(f), NEW c \in Int, \A x \in DOMAIN f : f[x] = c
    PROVE  SumFunction(f) = c * Cardinality(DOMAIN f)
<1> DEFINE D == DOMAIN f
           F == SumOver(f)
           Good == {s \in SUBSET D : F[s] = c * Cardinality(s)}
<1>1. /\ F[{}] = 0
      /\ \A s \in SUBSET D : \A x \in s : F[s] = F[s \ {x}] + c
  BY SumsAdd DEF AreSums
<1>2. IsFiniteSet(D) /\ {} \in SUBSET D
  BY DEF Summable
<1> HIDE DEF F, D
<1>3. {} \in Good
  BY <1>1, <1>2, FS_EmptySet
<1>4. ASSUME NEW s \in SUBSET D, s # {}, \A x \in s : s \ {x} \in Good
      PROVE  s \in Good
  <2>1. PICK x \in s : TRUE
    BY <1>4
  <2>2. IsFiniteSet(s) /\ Cardinality(s) \in Nat
    BY <1>2, FS_Subset, FS_CardinalityType
  <2>3. Cardinality(s \ {x}) = Cardinality(s) - 1
    BY <2>1, <2>2, FS_RemoveElement
  <2>4. F[s] = c * (Cardinality(s) - 1) + c
    BY <1>1, <1>4, <2>1, <2>3
  <2>5. QED
    BY <2>2, <2>4
<1>5. D \in Good
  <2> HIDE DEF Good
  <2>1. \A s \in SUBSET D : s \in Good
    BY <1>2, <1>3, <1>4, SubsetInduction
  <2>2. QED
    BY <2>1
<1>6. SumFunction(f) = F[D]
  BY SumIsSumOver DEF F, D
<1>7. QED
  BY <1>5, <1>6 DEF D

(* Two arguments of a function without negative values.                    *)
LEMMA SumOfSome ==
    ASSUME NEW f, Summable(f), \A x \in DOMAIN f : f[x] >= 0, NEW c \in DOMAIN f
    PROVE  /\ f[c] <= SumFunction(f)
           /\ \A d \in DOMAIN f : d # c => f[c] + f[d] <= SumFunction(f)
<1> DEFINE D == DOMAIN f
           F == SumOver(f)
           Good == {s \in SUBSET D : F[s] >= 0}
<1>1. /\ F[{}] = 0
      /\ \A s \in SUBSET D : F[s] \in Int
      /\ \A s \in SUBSET D : \A x \in s : F[s] = F[s \ {x}] + f[x]
  BY SumsAdd DEF AreSums
<1>2. /\ IsFiniteSet(D) /\ {} \in SUBSET D /\ c \in D
      /\ \A x \in D : f[x] \in Int /\ f[x] >= 0
  BY DEF Summable
<1> HIDE DEF F, D
<1>3. {} \in Good
  BY <1>1, <1>2
<1>4. ASSUME NEW s \in SUBSET D, s # {}, \A x \in s : s \ {x} \in Good
      PROVE  s \in Good
  <2>1. PICK x \in s : f[x] \in Int /\ f[x] >= 0
    BY <1>2, <1>4
  <2>2. F[s \ {x}] \in Int /\ F[s \ {x}] >= 0 /\ F[s] = F[s \ {x}] + f[x]
    BY <1>1, <1>4, <2>1
  <2>3. QED
    BY <2>1, <2>2
<1>5. \A s \in SUBSET D : s \in Good
  <2> HIDE DEF Good
  <2>1. QED
    BY <1>2, <1>3, <1>4, SubsetInduction
<1>6. SumFunction(f) = F[D]
  BY SumIsSumOver DEF F, D
<1>7. F[D] = F[D \ {c}] + f[c] /\ F[D \ {c}] \in Int /\ F[D \ {c}] >= 0 /\ f[c] \in Int
  BY <1>1, <1>2, <1>5
<1>8. ASSUME NEW d \in D, d # c
      PROVE  f[c] + f[d] <= F[D]
  <2>1. F[D \ {c}] = F[(D \ {c}) \ {d}] + f[d]
    BY <1>1, <1>8
  <2>2. F[(D \ {c}) \ {d}] \in Int /\ F[(D \ {c}) \ {d}] >= 0 /\ f[d] \in Int
    BY <1>1, <1>2, <1>5
  <2>3. QED
    BY <1>7, <2>1, <2>2
<1>9. f[c] <= F[D]
  BY <1>7
<1>10. QED
  BY <1>6, <1>8, <1>9 DEF D

LEMMA SumOfSums ==
    ASSUME NEW f, NEW g, NEW h, Summable(f), Summable(g), Summable(h),
           DOMAIN g = DOMAIN f, DOMAIN h = DOMAIN f,
           \A x \in DOMAIN f : h[x] = f[x] + g[x]
    PROVE  SumFunction(h) = SumFunction(f) + SumFunction(g)
<1>1. PICK a \in Int : a = 1
  OBVIOUS
<1>2. SumFunction(f) \in Int /\ SumFunction(g) \in Int
  BY SumIsInteger
<1>3. Combines(h, a, f, a, g)
  BY <1>1 DEF Summable, Combines
<1>4. SumFunction(h) = a * SumFunction(f) + a * SumFunction(g)
  BY <1>3, SumIsLinear
<1>5. QED
  BY <1>1, <1>2, <1>4

(* Rows added first, or columns.                                           *)
RowsFirst(D, E, m) == SumFunction([x \in D |-> SumFunction([y \in E |-> m[x][y]])])
ColumnsFirst(D, E, m) == SumFunction([y \in E |-> SumFunction([x \in D |-> m[x][y]])])

LEMMA SumSwaps ==
    ASSUME NEW D, IsFiniteSet(D), NEW E, IsFiniteSet(E), NEW m \in [D -> [E -> Int]]
    PROVE  RowsFirst(D, E, m) = ColumnsFirst(D, E, m)
<1> DEFINE line(x) == [y \in E |-> m[x][y]]
           col(y) == [x \in D |-> m[x][y]]
           row == [x \in D |-> SumFunction(line(x))]
           R == SumOver(row)
           part(s) == [y \in E |-> SumOver(col(y))[s]]
           Good == {s \in SUBSET D : R[s] = SumFunction(part(s))}
<1>1. \A x \in D, y \in E : m[x][y] \in Int
  OBVIOUS
<1>2. \A x \in D : Summable(line(x)) /\ SumFunction(line(x)) \in Int
  BY <1>1, SumIsInteger DEF Summable
<1>3. \A y \in E : Summable(col(y)) /\ DOMAIN col(y) = D /\ \A x \in D : col(y)[x] = m[x][y]
  BY <1>1 DEF Summable
<1>4. Summable(row)
  BY <1>2 DEF Summable
<1>5. AreSums(R, row) /\ \A y \in E : AreSums(SumOver(col(y)), col(y))
  BY <1>3, <1>4, SumsAdd
<1>6. /\ R[{}] = 0
      /\ \A s \in SUBSET D : R[s] \in Int
      /\ \A s \in SUBSET D : \A x \in s : R[s] = R[s \ {x}] + SumFunction(line(x))
  BY <1>5 DEF AreSums
<1> HIDE DEF col, R, row
<1>7. \A y \in E :
        /\ SumOver(col(y))[{}] = 0
        /\ \A s \in SUBSET D : SumOver(col(y))[s] \in Int
        /\ \A s \in SUBSET D : \A x \in s :
              SumOver(col(y))[s] = SumOver(col(y))[s \ {x}] + m[x][y]
  <2> TAKE y \in E
  <2>1. AreSums(SumOver(col(y)), col(y))
    BY <1>5
  <2>2. DOMAIN col(y) = D /\ \A x \in D : col(y)[x] = m[x][y]
    BY <1>3
  <2>3. /\ SumOver(col(y))[{}] = 0
        /\ \A s \in SUBSET D : SumOver(col(y))[s] \in Int
        /\ \A s \in SUBSET D : \A x \in s :
              SumOver(col(y))[s] = SumOver(col(y))[s \ {x}] + col(y)[x]
    BY <2>1, <2>2 DEF AreSums
  <2>4. QED
    BY <2>2, <2>3
<1>8. \A s \in SUBSET D : /\ Summable(part(s)) /\ DOMAIN part(s) = E
                          /\ \A y \in E : part(s)[y] = SumOver(col(y))[s]
  BY <1>7 DEF Summable
<1> HIDE DEF part
<1>9. {} \in Good
  <2>1. \A y \in E : part({})[y] = 0
    BY <1>7, <1>8
  <2>2. PICK z \in Int : z = 0
    OBVIOUS
  <2>3. SumFunction(part({})) = z * Cardinality(E)
    BY <1>8, <2>1, <2>2, SumOfConstant
  <2>4. Cardinality(E) \in Int
    BY FS_CardinalityType
  <2>5. QED
    BY <1>6, <2>2, <2>3, <2>4
<1>10. ASSUME NEW s \in SUBSET D, s # {}, \A x \in s : s \ {x} \in Good
       PROVE  s \in Good
  <2>1. PICK x \in s : x \in D
    BY <1>10
  <2>2. \A y \in E : part(s)[y] = part(s \ {x})[y] + line(x)[y]
    <3> TAKE y \in E
    <3>1. SumOver(col(y))[s] = SumOver(col(y))[s \ {x}] + m[x][y]
      BY <1>7
    <3>2. part(s)[y] = SumOver(col(y))[s] /\ part(s \ {x})[y] = SumOver(col(y))[s \ {x}]
      BY <1>8
    <3>3. QED
      BY <3>1, <3>2
  <2>3. Summable(part(s \ {x})) /\ DOMAIN part(s \ {x}) = E
    BY <1>8
  <2>4. Summable(line(x)) /\ DOMAIN line(x) = E /\ Summable(part(s)) /\ DOMAIN part(s) = E
    BY <1>2, <1>8, <2>1
  <2> HIDE DEF line
  <2>5. SumFunction(part(s)) = SumFunction(part(s \ {x})) + SumFunction(line(x))
    BY <2>2, <2>3, <2>4, SumOfSums
  <2>6. R[s \ {x}] = SumFunction(part(s \ {x}))
    BY <1>10, <2>1
  <2>7. QED
    BY <1>6, <2>1, <2>5, <2>6
<1>11. R[D] = SumFunction(part(D))
  <2>1. \A s \in SUBSET D : s \in Good
    <3> HIDE DEF Good
    <3>1. QED
      BY <1>9, <1>10, SubsetInduction
  <2>2. QED
    BY <2>1
<1>12. SumFunction(row) = R[D]
  BY SumIsSumOver DEF R, row
<1>13. \A y \in E : SumOver(col(y))[D] = SumFunction(col(y))
  BY <1>3, SumIsSumOver
<1>14. part(D) = [y \in E |-> SumFunction(col(y))]
  BY <1>13 DEF part
<1>15. QED
  BY <1>11, <1>12, <1>14 DEF row, col, RowsFirst, ColumnsFirst

(* The arguments under other names.                                        *)
Renamed(f, p) == [x \in DOMAIN p |-> f[p[x]]]

LEMMA SumOfRenamed ==
    ASSUME NEW D, NEW E, NEW p \in Bijection(D, E), NEW f, Summable(f), DOMAIN f = E,
           IsFiniteSet(D)
    PROVE  SumFunction(Renamed(f, p)) = SumFunction(f)
<1> DEFINE g == [x \in D |-> f[p[x]]]
           G == SumOver(g)
           F == SumOver(f)
           image(s) == {p[x] : x \in s}
           Good == {s \in SUBSET D : G[s] = F[image(s)]}
<1>1. /\ \A x \in D : p[x] \in E
      /\ \A x, y \in D : p[x] = p[y] => x = y
      /\ \A y \in E : \E x \in D : p[x] = y
  BY DEF Bijection, Injection, Surjection, IsInjective
<1>2. Summable(g) /\ DOMAIN g = D /\ \A x \in D : g[x] = f[p[x]]
  BY <1>1 DEF Summable
<1>3. AreSums(G, g) /\ AreSums(F, f)
  BY <1>2, SumsAdd
<1> HIDE DEF g
<1>4. /\ G[{}] = 0 /\ F[{}] = 0
      /\ \A s \in SUBSET D : \A x \in s : G[s] = G[s \ {x}] + f[p[x]]
      /\ \A t \in SUBSET E : \A y \in t : F[t] = F[t \ {y}] + f[y]
  BY <1>2, <1>3 DEF AreSums
<1> HIDE DEF F, G
<1>5. {} \in Good
  <2>1. image({}) = {}
    OBVIOUS
  <2>2. QED
    BY <1>4, <2>1
<1>6. ASSUME NEW s \in SUBSET D, s # {}, \A x \in s : s \ {x} \in Good
      PROVE  s \in Good
  <2>1. PICK x \in s : x \in D
    BY <1>6
  <2>2. image(s \ {x}) = image(s) \ {p[x]} /\ image(s) \in SUBSET E /\ p[x] \in image(s)
    BY <1>1, <2>1
  <2>3. G[s \ {x}] = F[image(s \ {x})]
    BY <1>6, <2>1
  <2> HIDE DEF image
  <2>4. QED
    BY <1>4, <2>1, <2>2, <2>3
<1>7. G[D] = F[image(D)]
  <2>1. \A s \in SUBSET D : s \in Good
    <3> HIDE DEF Good
    <3>1. QED
      BY <1>5, <1>6, SubsetInduction
  <2>2. QED
    BY <2>1
<1>8. image(D) = E
  BY <1>1
<1>9. SumFunction(g) = G[D] /\ SumFunction(f) = F[E]
  BY <1>2, SumIsSumOver DEF F, G
<1>10. Renamed(f, p) = g
  BY DEF Renamed, g, Bijection, Injection
<1>11. QED
  BY <1>7, <1>8, <1>9, <1>10

(* How often the values of s occur, all together.                          *)
LEMMA OccurrencesAdd ==
    ASSUME NEW s, IsFiniteSet(DOMAIN s), NEW C, IsFiniteSet(C),
           \A i \in DOMAIN s : s[i] \in C
    PROVE  /\ \A c \in C : Times(s, c) \in Nat
           /\ Summable([c \in C |-> Times(s, c)])
           /\ SumFunction([c \in C |-> Times(s, c)]) = Cardinality(DOMAIN s)
<1> DEFINE f == [c \in C |-> Times(s, c)]
           F == SumOver(f)
           with(t) == {i \in DOMAIN s : s[i] \in t}
           Good == {t \in SUBSET C : F[t] = Cardinality(with(t))}
<1>1. \A c \in C : Times(s, c) \in Nat
  <2>1. \A c \in C : {i \in DOMAIN s : s[i] = c} \in SUBSET DOMAIN s
    OBVIOUS
  <2>2. QED
    BY <2>1, FS_Subset, FS_CardinalityType DEF Times
<1>2. Summable(f)
  BY <1>1 DEF Summable
<1>3. /\ F[{}] = 0
      /\ \A t \in SUBSET C : F[t] \in Int
      /\ \A t \in SUBSET C : \A c \in t : F[t] = F[t \ {c}] + Times(s, c)
  BY <1>2, SumsAdd DEF AreSums
<1>4. SumFunction(f) = F[C]
  BY SumIsSumOver
<1> HIDE DEF F
<1>5. {} \in Good
  <2>1. with({}) = {}
    OBVIOUS
  <2>2. QED
    BY <1>3, <2>1, FS_EmptySet
<1>6. ASSUME NEW t \in SUBSET C, t # {}, \A c \in t : t \ {c} \in Good
      PROVE  t \in Good
  <2>1. PICK c \in t : c \in C
    BY <1>6
  <2> DEFINE one == {i \in DOMAIN s : s[i] = c}
  <2>2. with(t) = with(t \ {c}) \union one /\ with(t \ {c}) \intersect one = {}
    BY <2>1
  <2>3. with(t \ {c}) \in SUBSET DOMAIN s /\ one \in SUBSET DOMAIN s
    OBVIOUS
  <2>4. F[t \ {c}] = Cardinality(with(t \ {c})) /\ Times(s, c) = Cardinality(one)
    BY <1>6, <2>1 DEF Times
  <2> HIDE DEF one, with
  <2>5. IsFiniteSet(with(t \ {c})) /\ IsFiniteSet(one)
    BY <2>3, FS_Subset
  <2>6. Cardinality(with(t \ {c})) \in Nat /\ Cardinality(one) \in Nat
    BY <2>5, FS_CardinalityType
  <2>7. Cardinality(with(t)) = Cardinality(with(t \ {c})) + Cardinality(one) - Cardinality({})
    BY <2>2, <2>5, FS_Union
  <2>8. Cardinality({}) = 0
    BY FS_EmptySet
  <2>9. QED
    BY <1>3, <2>1, <2>4, <2>6, <2>7, <2>8
<1>7. F[C] = Cardinality(with(C))
  <2>1. \A t \in SUBSET C : t \in Good
    <3> HIDE DEF Good
    <3>1. QED
      BY <1>5, <1>6, SubsetInduction
  <2>2. QED
    BY <2>1
<1>8. with(C) = DOMAIN s
  OBVIOUS
<1>9. QED
  BY <1>1, <1>2, <1>4, <1>7, <1>8

=============================================================================
