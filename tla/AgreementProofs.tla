-------------------------- MODULE AgreementProofs --------------------------
(***************************************************************************)
(* The agreement statistics, for every input: the ranks of any sample; the *)
(* correlations and the kappa of any two samples of one length; Fleiss'    *)
(* kappa of any matrix.                                                    *)
(*                                                                         *)
(* A correlation is bounded by the Cauchy-Schwarz inequality, a kappa from *)
(* below by counting how often chance can agree, both by sums of products  *)
(* over a finite set.                                                      *)
(***************************************************************************)
EXTENDS CalculationProofs

-----------------------------------------------------------------------------
(* The ranks of a sample.                                                  *)

(* Sorting the indices by value, and equal ones as they come, is a strict  *)
(* total order.                                                            *)
IndexOrder(values) ==
    {p \in (DOMAIN values) \X (DOMAIN values) :
        \/ values[p[1]] < values[p[2]]
        \/ values[p[1]] = values[p[2]] /\ p[1] < p[2]}

LEMMA IndexOrderStrict ==
    ASSUME NEW values \in Seq(Int)
    PROVE  /\ StrictOrder(DOMAIN values, IndexOrder(values))
           /\ IsFiniteSet(DOMAIN values) /\ Cardinality(DOMAIN values) = Len(values)
<1> DEFINE D == DOMAIN values
<1>1. D = 1 .. Len(values) /\ Len(values) \in Nat
  OBVIOUS
<1>2. IsFiniteSet(D) /\ Cardinality(D) = Len(values)
  BY <1>1, OneTo
<1>3. \A x \in D : values[x] \in Int /\ x \in Int
  OBVIOUS
<1>4. \A x, y \in D : <<x, y>> \in IndexOrder(values) <=>
        values[x] < values[y] \/ (values[x] = values[y] /\ x < y)
  BY DEF IndexOrder
<1> HIDE DEF D
<1>5. \A x \in D : <<x, x>> \notin IndexOrder(values)
  BY <1>3, <1>4
<1>6. \A x, y, z \in D :
        <<x, y>> \in IndexOrder(values) /\ <<y, z>> \in IndexOrder(values)
            => <<x, z>> \in IndexOrder(values)
  BY <1>3, <1>4, SMTT(60)
<1>7. \A x, y \in D :
        x = y \/ <<x, y>> \in IndexOrder(values) \/ <<y, x>> \in IndexOrder(values)
  <2>1. TAKE x, y \in D
  <2>2. values[x] \in Int /\ values[y] \in Int /\ x \in Int /\ y \in Int
    BY <1>3
  <2>3. x = y \/ x < y \/ y < x
    BY <2>2
  <2>4. values[x] = values[y] \/ values[x] < values[y] \/ values[y] < values[x]
    BY <2>2
  <2>5. QED
    BY <1>4, <2>3, <2>4
<1>8. QED
  BY <1>2, <1>5, <1>6, <1>7 DEF StrictOrder, D

(* The sorted list names every index once, and its values do not fall.     *)
LEMMA IndexedSorts ==
    ASSUME NEW values \in Seq(Int)
    PROVE  /\ Indexed(values) \in Bijection(DOMAIN values, DOMAIN values)
           /\ \A k, l \in DOMAIN values :
                k <= l => values[Indexed(values)[k]] <= values[Indexed(values)[l]]
<1> DEFINE D == DOMAIN values
           R == IndexOrder(values)
           place(u) == Place(D, R, u)
           indexed == Indexed(values)
<1>1. D = 1 .. Len(values) /\ Len(values) \in Nat
  OBVIOUS
<1>2. StrictOrder(D, R) /\ IsFiniteSet(D) /\ Cardinality(D) = Len(values)
  BY IndexOrderStrict
<1>3. \A u \in D : place(u) + 1 \in D /\ place(u) \in Int
  BY <1>1, <1>2, PlaceInRange
<1>4. [u \in D |-> place(u)] \in Bijection(D, 0 .. Len(values) - 1)
  BY <1>2, PlacesAreTaken
<1>5. \A k \in D : \E u \in D : place(u) = k - 1
  BY <1>1, <1>4 DEF Bijection, Surjection
<1>6. \A u, v \in D : place(u) = place(v) => u = v
  BY <1>4 DEF Bijection, Injection, IsInjective
<1>7. \A u \in D :
        {v \in D : values[v] < values[u] \/ (values[v] = values[u] /\ v < u)} = Below(D, R, u)
  BY DEF Below, IndexOrder
<1> DEFINE earlier(u) == {v \in D : values[v] < values[u] \/ (values[v] = values[u] /\ v < u)}
<1>8. indexed = [k \in D |-> CHOOSE u \in D : Cardinality(earlier(u)) = k - 1]
  BY DEF Indexed
<1>9. \A k \in D : indexed[k] \in D /\ place(indexed[k]) = k - 1
  <2>1. \A u \in D : Cardinality(earlier(u)) = place(u)
    BY <1>7 DEF Place
  <2> HIDE DEF earlier, place, R, D
  <2>2. \A k \in D : \E u \in D : Cardinality(earlier(u)) = k - 1
    BY <1>5, <2>1
  <2>3. QED
    BY <1>8, <2>1, <2>2
<1> HIDE DEF indexed, place, R, D
<1>10. indexed \in [D -> D]
  BY <1>8, <1>9
<1>11. indexed \in Injection(D, D)
  <2>1. \A k, l \in D : indexed[k] = indexed[l] => k = l
    BY <1>1, <1>9
  <2>2. QED
    BY <1>10, <2>1 DEF Injection, IsInjective
<1>12. indexed \in Bijection(D, D)
  BY <1>2, <1>11, FS_Injection DEF Bijection
<1>13. ASSUME NEW k \in D, NEW l \in D, k <= l
       PROVE  values[indexed[k]] <= values[indexed[l]]
  <2> DEFINE u == indexed[k]
             v == indexed[l]
  <2>1. u \in D /\ v \in D /\ place(u) = k - 1 /\ place(v) = l - 1 /\ k \in Int /\ l \in Int
    BY <1>1, <1>9
  <2> HIDE DEF u, v
  <2>2. <<v, u>> \notin R
    <3>1. <<v, u>> \in R => place(v) < place(u)
      BY <1>2, <2>1, PlacesIncrease DEF place
    <3>2. QED
      BY <1>13, <2>1, <3>1
  <2>3. ~ (values[v] < values[u])
    BY <2>1, <2>2 DEF R, IndexOrder, D
  <2>4. values[u] \in Int /\ values[v] \in Int
    BY <2>1 DEF D
  <2>5. QED
    BY <2>3, <2>4 DEF u, v
<1>14. QED
  BY <1>12, <1>13 DEF indexed, D

(* A sorted list: its values do not fall.                                  *)
SortedList(at) ==
    /\ at \in Seq(Int)
    /\ \A k, l \in DOMAIN at : k <= l => at[k] <= at[l]

Lower(f, v) == {l \in DOMAIN f : f[l] < v}
UpTo(f, v) == {l \in DOMAIN f : f[l] <= v}

(* The group of a place starts after the lower values ...                  *)
LEMMA GroupStartCounts ==
    ASSUME NEW at, SortedList(at), NEW k \in DOMAIN at
    PROVE  GroupStart(at)[k] = Cardinality(Lower(at, at[k])) + 1
<1> DEFINE D == DOMAIN at
           Step(f) == [l \in D |-> IF l > 1 /\ Tied(at, l, l - 1) THEN f[l - 1] ELSE l]
           first == [l \in D |-> Cardinality(Lower(at, at[l])) + 1]
           i == GroupStart(at)
<1>1. D = 1 .. Len(at) /\ Len(at) \in Nat /\ \A l \in D : at[l] \in Int
  BY DEF SortedList
<1>2. \A l \in D : l \in Int
  BY <1>1
<1>3. ASSUME NEW l \in D, l > 1, Tied(at, l, l - 1)
      PROVE  l - 1 \in D /\ first[l] = first[l - 1]
  <2>1. l - 1 \in D
    BY <1>1, <1>3
  <2>2. at[l] = at[l - 1]
    BY <1>3 DEF Tied
  <2>3. QED
    BY <2>1, <2>2
<1>4. ASSUME NEW l \in D, ~ (l > 1 /\ Tied(at, l, l - 1))
      PROVE  first[l] = l
  <2>1. ASSUME NEW m \in D
        PROVE  at[m] < at[l] <=> m < l
    <3>1. m \in Int /\ l \in Int /\ at[m] \in Int /\ at[l] \in Int
      BY <1>1, <1>2
    <3>2. CASE m < l
      <4>1. l - 1 \in D /\ m <= l - 1 /\ l - 1 <= l /\ l > 1
        BY <1>1, <3>1, <3>2
      <4>2. at[m] <= at[l - 1] /\ at[l - 1] <= at[l] /\ at[l - 1] \in Int
        BY <1>1, <4>1 DEF SortedList
      <4>3. at[l] # at[l - 1]
        BY <1>4, <4>1 DEF Tied
      <4>4. QED
        BY <3>1, <3>2, <4>2, <4>3
    <3>3. CASE ~ (m < l)
      <4>1. at[l] <= at[m]
        BY <3>1, <3>3 DEF SortedList
      <4>2. QED
        BY <3>1, <3>3, <4>1
    <3>4. QED
      BY <3>2, <3>3
  <2>2. Lower(at, at[l]) = 1 .. l - 1
    BY <1>1, <2>1 DEF Lower
  <2>3. Cardinality(1 .. l - 1) = l - 1
    <3>1. l - 1 \in Nat
      BY <1>1
    <3>2. QED
      BY <3>1, OneTo
  <2>4. QED
    BY <1>2, <2>2, <2>3
<1>5. first = Step(first)
  BY <1>3, <1>4
<1>6. i = Step(i)
  <2>1. i = CHOOSE f : f = Step(f)
    BY DEF GroupStart
  <2> HIDE DEF first, Step, i
  <2>2. QED
    BY <1>5, <2>1
<1>7. \A l \in D : i[l] = first[l]
  <2> DEFINE Wrong == {l \in D : i[l] # first[l]}
  <2>1. SUFFICES ASSUME Wrong # {} PROVE FALSE
    OBVIOUS
  <2>2. Wrong \in SUBSET Nat
    BY <1>1
  <2>3. PICK l \in Wrong : \A m \in Wrong : l <= m
    BY <2>1, <2>2, LeastIn
  <2>4. l \in D /\ i[l] # first[l] /\ l \in Int
    BY <1>2
  <2>5. CASE l > 1 /\ Tied(at, l, l - 1)
    <3>1. l - 1 \in D /\ first[l] = first[l - 1]
      BY <1>3, <2>4, <2>5
    <3>2. i[l] = i[l - 1]
      <4> HIDE DEF i
      <4>1. QED
        BY <1>6, <2>4, <2>5
    <3>3. l - 1 \notin Wrong
      BY <2>3, <2>4
    <3>4. QED
      BY <2>4, <3>1, <3>2, <3>3
  <2>6. CASE ~ (l > 1 /\ Tied(at, l, l - 1))
    <3>1. first[l] = l
      BY <1>4, <2>4, <2>6
    <3>2. i[l] = l
      <4> HIDE DEF i
      <4>1. QED
        BY <1>6, <2>4, <2>6
    <3>3. QED
      BY <2>4, <3>1, <3>2
  <2>7. QED
    BY <2>5, <2>6
<1>8. QED
  BY <1>7

(* ... and ends with the last of the values that are not greater.          *)
LEMMA GroupEndCounts ==
    ASSUME NEW at, SortedList(at), NEW k \in DOMAIN at
    PROVE  GroupEnd(at)[k] = Cardinality(UpTo(at, at[k]))
<1> DEFINE D == DOMAIN at
           n == Len(at)
           Step(f) == [l \in D |-> IF l < n /\ Tied(at, l, l + 1) THEN f[l + 1] ELSE l]
           last == [l \in D |-> Cardinality(UpTo(at, at[l]))]
           j == GroupEnd(at)
<1>1. D = 1 .. n /\ n \in Nat /\ \A l \in D : at[l] \in Int
  BY DEF SortedList
<1>2. \A l \in D : l \in Int
  BY <1>1
<1>3. ASSUME NEW l \in D, l < n, Tied(at, l, l + 1)
      PROVE  l + 1 \in D /\ last[l] = last[l + 1]
  <2>1. l + 1 \in D
    BY <1>1, <1>3
  <2>2. at[l] = at[l + 1]
    BY <1>3 DEF Tied
  <2>3. QED
    BY <2>1, <2>2
<1>4. ASSUME NEW l \in D, ~ (l < n /\ Tied(at, l, l + 1))
      PROVE  last[l] = l
  <2>1. ASSUME NEW m \in D
        PROVE  at[m] <= at[l] <=> m <= l
    <3>1. m \in Int /\ l \in Int /\ at[m] \in Int /\ at[l] \in Int
      BY <1>1, <1>2
    <3>2. CASE m <= l
      BY <3>2 DEF SortedList
    <3>3. CASE ~ (m <= l)
      <4>1. l + 1 \in D /\ l <= l + 1 /\ l + 1 <= m /\ l < n
        BY <1>1, <3>1, <3>3
      <4>2. at[l] <= at[l + 1] /\ at[l + 1] <= at[m] /\ at[l + 1] \in Int
        BY <1>1, <4>1 DEF SortedList
      <4>3. at[l] # at[l + 1]
        BY <1>4, <4>1 DEF Tied
      <4>4. QED
        BY <3>1, <3>3, <4>2, <4>3
    <3>4. QED
      BY <3>2, <3>3
  <2>2. UpTo(at, at[l]) = 1 .. l
    BY <1>1, <2>1 DEF UpTo
  <2>3. Cardinality(1 .. l) = l
    BY <1>1, FS_Interval
  <2>4. QED
    BY <1>2, <2>2, <2>3
<1>5. last = Step(last)
  BY <1>3, <1>4
<1>6. j = Step(j)
  <2>1. j = CHOOSE f : f = Step(f)
    BY DEF GroupEnd
  <2> HIDE DEF last, Step, j
  <2>2. QED
    BY <1>5, <2>1
<1>7. \A l \in D : j[l] = last[l]
  <2> DEFINE Wrong == {l \in D : j[l] # last[l]}
             Back == {b \in Nat : n - b \in Wrong}
  <2>1. SUFFICES ASSUME Wrong # {} PROVE FALSE
    OBVIOUS
  <2>2. Back \in SUBSET Nat /\ Back # {}
    <3>1. PICK l \in Wrong : TRUE
      BY <2>1
    <3>2. l \in 1 .. n
      BY <1>1
    <3>3. n - l \in Nat /\ n - (n - l) = l
      BY <1>1, <3>2
    <3> HIDE DEF Wrong
    <3>4. QED
      BY <3>1, <3>3
  <2>3. PICK b \in Back : \A c \in Back : b <= c
    BY <2>2, LeastIn
  <2>4. PICK l \in Wrong : l = n - b /\ b \in Nat
    OBVIOUS
  <2>5. l \in D /\ j[l] # last[l] /\ l \in Int
    BY <1>2
  <2>6. CASE l < n /\ Tied(at, l, l + 1)
    <3>1. l + 1 \in D /\ last[l] = last[l + 1]
      BY <1>3, <2>5, <2>6
    <3>2. j[l] = j[l + 1]
      <4> HIDE DEF j
      <4>1. QED
        BY <1>6, <2>5, <2>6
    <3>3. l + 1 \notin Wrong
      <4>1. b - 1 \in Nat /\ n - (b - 1) = l + 1 /\ ~ (b <= b - 1)
        BY <1>1, <2>4, <2>5, <2>6
      <4>2. b - 1 \notin Back
        BY <2>3, <4>1
      <4> HIDE DEF Wrong
      <4>3. QED
        BY <4>1, <4>2
    <3>4. QED
      BY <2>5, <3>1, <3>2, <3>3
  <2>7. CASE ~ (l < n /\ Tied(at, l, l + 1))
    <3>1. last[l] = l
      BY <1>4, <2>5, <2>7
    <3>2. j[l] = l
      <4> HIDE DEF j
      <4>1. QED
        BY <1>6, <2>5, <2>7
    <3>3. QED
      BY <2>5, <3>1, <3>2
  <2>8. QED
    BY <2>6, <2>7
<1>8. QED
  BY <1>7

(* A renaming of the indices keeps the number of values below another.     *)
LEMMA RenamingCounts ==
    ASSUME NEW D, IsFiniteSet(D), NEW p \in Bijection(D, D),
           NEW values, DOMAIN values = D, NEW at, at = [k \in D |-> values[p[k]]], NEW v
    PROVE  /\ Cardinality(Lower(at, v)) = Cardinality(Lower(values, v))
           /\ Cardinality(UpTo(at, v)) = Cardinality(UpTo(values, v))
<1>1. \A k, l \in D : p[k] \in D /\ (p[k] = p[l] => k = l)
  BY DEF Bijection, Injection, IsInjective
<1>2. \A u \in D : \E k \in D : p[k] = u
  BY DEF Bijection, Surjection
<1>3. DOMAIN at = D /\ \A k \in D : at[k] = values[p[k]]
  OBVIOUS
<1>4. ASSUME NEW S \in SUBSET D, NEW T \in SUBSET D, \A k \in D : k \in S <=> p[k] \in T
      PROVE  Cardinality(S) = Cardinality(T)
  <2> DEFINE q == [k \in S |-> p[k]]
  <2>1. q \in [S -> T]
    BY <1>4
  <2>2. q \in Injection(S, T)
    BY <1>1, <2>1 DEF Injection, IsInjective
  <2>3. q \in Surjection(S, T)
    BY <1>2, <1>4, <2>1 DEF Surjection
  <2>4. IsFiniteSet(T)
    BY FS_Subset
  <2> HIDE DEF q
  <2>5. QED
    BY <2>2, <2>3, <2>4, FS_Injection
<1>5. /\ Lower(at, v) \subseteq D /\ Lower(values, v) \subseteq D
      /\ \A k \in D : k \in Lower(at, v) <=> p[k] \in Lower(values, v)
  BY <1>1, <1>3 DEF Lower
<1>6. /\ UpTo(at, v) \subseteq D /\ UpTo(values, v) \subseteq D
      /\ \A k \in D : k \in UpTo(at, v) <=> p[k] \in UpTo(values, v)
  BY <1>1, <1>3 DEF UpTo
<1>7. QED
  BY <1>4, <1>5, <1>6

(* Spearman's ranks, for any sample: a rank is one more than the number of *)
(* smaller values, and half a rank more for every other value equal to it, *)
(* although the loop only compares neighbours of the sorted list.          *)
THEOREM RanksAreFractional ==
    ASSUME NEW values \in Seq(Int)
    PROVE  RanksSound(values)
<1> DEFINE D == DOMAIN values
           indexed == Indexed(values)
           at == [k \in D |-> values[indexed[k]]]
<1>1. D = 1 .. Len(values) /\ IsFiniteSet(D) /\ \A l \in D : values[l] \in Int
  BY IndexOrderStrict
<1>2. indexed \in Bijection(D, D)
  BY IndexedSorts
<1>3. /\ \A k \in D : indexed[k] \in D
      /\ \A m \in D : \E k \in D : indexed[k] = m
  BY <1>2 DEF Bijection, Injection, Surjection
<1>4. SortedList(at) /\ DOMAIN at = D
  <2>1. at \in [1 .. Len(values) -> Int]
    BY <1>1, <1>3
  <2>2. at \in Seq(Int)
    BY <2>1
  <2>3. \A k, l \in D : k <= l => at[k] <= at[l]
    BY IndexedSorts
  <2>4. QED
    BY <2>2, <2>3 DEF SortedList
<1>5. ASSUME NEW m \in D
      PROVE  FractionalRanks(values)[m] =
               2 * Cardinality({l \in D : values[l] < values[m]}) + Times(values, values[m]) + 1
  <2> DEFINE k == CHOOSE k \in D : indexed[k] = m
  <2>1. k \in D /\ indexed[k] = m
    BY <1>3
  <2>2. FractionalRanks(values)[m] = GroupStart(at)[k] + GroupEnd(at)[k]
    BY DEF FractionalRanks
  <2>3. at[k] = values[m]
    BY <2>1
  <2> HIDE DEF k, indexed
  <2>4. /\ Cardinality(Lower(at, values[m])) = Cardinality(Lower(values, values[m]))
        /\ Cardinality(UpTo(at, values[m])) = Cardinality(UpTo(values, values[m]))
    BY <1>1, <1>2, RenamingCounts, SMTT(60)
  <2> HIDE DEF at
  <2>5. /\ GroupStart(at)[k] = Cardinality(Lower(at, values[m])) + 1
        /\ GroupEnd(at)[k] = Cardinality(UpTo(at, values[m]))
    BY <1>4, <2>1, <2>3, GroupStartCounts, GroupEndCounts
  <2> DEFINE less == Lower(values, values[m])
             same == {l \in D : values[l] = values[m]}
  <2>6. UpTo(values, values[m]) = less \union same /\ less \intersect same = {}
    BY <1>1 DEF Lower, UpTo
  <2>7. IsFiniteSet(less) /\ IsFiniteSet(same)
    BY <1>1, FS_Subset DEF Lower
  <2>8. Cardinality(UpTo(values, values[m])) = Cardinality(less) + Cardinality(same)
        /\ Cardinality(less) \in Nat /\ Cardinality(same) \in Nat
    <3> HIDE DEF less, same
    <3>1. Cardinality(less \union same) = Cardinality(less) + Cardinality(same) - Cardinality({})
      BY <2>6, <2>7, FS_Union
    <3>2. Cardinality(less) \in Nat /\ Cardinality(same) \in Nat /\ Cardinality({}) = 0
      BY <2>7, FS_CardinalityType, FS_EmptySet
    <3>3. QED
      BY <2>6, <3>1, <3>2
  <2>9. Times(values, values[m]) = Cardinality(same)
    BY DEF Times
  <2>10. {l \in D : values[l] < values[m]} = less
    BY DEF Lower
  <2> HIDE DEF less, same
  <2>11. PICK a \in Nat, b \in Nat : a = Cardinality(less) /\ b = Cardinality(same)
    BY <2>8
  <2>12. GroupStart(at)[k] = a + 1 /\ GroupEnd(at)[k] = a + b
    BY <2>4, <2>5, <2>8, <2>11 DEF less
  <2>13. (a + 1) + (a + b) = 2 * a + b + 1
    OBVIOUS
  <2>14. QED
    BY <2>2, <2>9, <2>10, <2>11, <2>12, <2>13
<1>6. QED
  BY <1>5 DEF RanksSound

-----------------------------------------------------------------------------
(* Fractions.                                                              *)

(* Division without a rest.                                                *)
LEMMA DivisionIsExact ==
    ASSUME NEW d \in Nat \ {0}, NEW n \in Nat, n % d = 0
    PROVE  n \div d \in Nat /\ n = (n \div d) * d
<1>1. n \div d \in Int /\ n % d \in Int /\ n = d * (n \div d) + (n % d)
  BY Z3
<1>2. n \div d >= 0
  BY Z3
<1>3. QED
  BY <1>1, <1>2

(* A fraction with a positive denominator is reduced by a common divisor.  *)
LEMMA RatioReduces ==
    ASSUME NEW p \in Int, NEW q \in Nat \ {0}
    PROVE  \E a \in Int, b \in Nat \ {0}, g \in Nat \ {0} :
             Ratio(p, q) = <<a, b>> /\ p = a * g /\ q = b * g
<1> DEFINE Common == {d \in 1 .. q : Divides(d, q) /\ Divides(d, Abs(p))}
           Gaps == {q - d : d \in Common}
           g == CHOOSE d \in 1 .. q : /\ Divides(d, q) /\ Divides(d, Abs(p))
                                      /\ \A e \in d + 1 .. q :
                                           ~ (Divides(e, q) /\ Divides(e, Abs(p)))
<1>1. Abs(p) \in Nat
  BY DEF Abs
<1>2. 1 \in Common
  BY <1>1 DEF Divides
<1>3. PICK m \in Common : \A e \in Common : e <= m
  <2>1. Gaps \in SUBSET Nat /\ Gaps # {}
    BY <1>2
  <2>2. PICK x \in Gaps : \A y \in Gaps : x <= y
    BY <2>1, LeastIn
  <2>3. PICK m \in Common : x = q - m
    BY <2>2
  <2>4. ASSUME NEW e \in Common PROVE e <= m
    <3>1. q - m <= q - e
      BY <2>2, <2>3
    <3>2. m \in Int /\ e \in Int
      OBVIOUS
    <3>3. QED
      BY <3>1, <3>2
  <2>5. QED
    BY <2>4
<1>4. g \in 1 .. q /\ Divides(g, q) /\ Divides(g, Abs(p))
  <2>1. m \in 1 .. q /\ Divides(m, q) /\ Divides(m, Abs(p))
    OBVIOUS
  <2>2. ASSUME NEW e \in m + 1 .. q, Divides(e, q), Divides(e, Abs(p)) PROVE FALSE
    <3>1. e \in Common /\ ~ (e <= m)
      BY <2>1, <2>2
    <3>2. QED
      BY <1>3, <3>1
  <2>3. QED
    BY <2>1, <2>2
<1>5. Ratio(p, q) = <<IF p < 0 THEN -((-p) \div g) ELSE p \div g, q \div g>>
  BY DEF Ratio
<1> HIDE DEF g
<1>6. g \in Nat \ {0} /\ q % g = 0 /\ Abs(p) % g = 0
  BY <1>4 DEF Divides
<1>7. q \div g \in Nat /\ q = (q \div g) * g
  BY <1>6, DivisionIsExact
<1>8. Abs(p) \div g \in Nat /\ Abs(p) = (Abs(p) \div g) * g
  BY <1>1, <1>6, DivisionIsExact
<1>9. q \div g # 0
  BY <1>6, <1>7
<1> DEFINE a == IF p < 0 THEN -((-p) \div g) ELSE p \div g
<1>10. a \in Int /\ p = a * g
  <2>1. CASE p < 0
    <3>1. Abs(p) = -p
      BY <2>1 DEF Abs
    <3>2. PICK z \in Nat : z = (-p) \div g /\ -p = z * g
      BY <1>8, <3>1
    <3>3. a = -z
      BY <2>1, <3>2
    <3>4. QED
      BY <1>6, <3>2, <3>3
  <2>2. CASE ~ (p < 0)
    BY <1>8, <2>2 DEF Abs
  <2>3. QED
    BY <2>1, <2>2
<1>11. QED
  BY <1>5, <1>6, <1>7, <1>9, <1>10

(* A number over itself.                                                   *)
LEMMA RatioOfEqual ==
    ASSUME NEW q \in Nat \ {0}
    PROVE  Ratio(q, q) = <<1, 1>>
<1> DEFINE g == CHOOSE d \in 1 .. q : /\ Divides(d, q) /\ Divides(d, Abs(q))
                                      /\ \A e \in d + 1 .. q :
                                           ~ (Divides(e, q) /\ Divides(e, Abs(q)))
<1>1. Abs(q) = q /\ ~ (q < 0)
  BY DEF Abs
<1>2. q % q = 0 /\ q \div q = 1
  OBVIOUS
<1>3. \A d \in 1 .. q : /\ Divides(d, q) /\ Divides(d, Abs(q))
                        /\ \A e \in d + 1 .. q : ~ (Divides(e, q) /\ Divides(e, Abs(q)))
                       <=> d = q
  <2>1. Divides(q, q) /\ Divides(q, Abs(q)) /\ q + 1 .. q = {} /\ q \in 1 .. q
    BY <1>1, <1>2 DEF Divides
  <2>2. \A d \in 1 .. q : d # q => q \in d + 1 .. q
    OBVIOUS
  <2>3. QED
    BY <2>1, <2>2
<1>4. q \in 1 .. q
  OBVIOUS
<1>5. g = q
  BY <1>3, <1>4
<1>6. Ratio(q, q) = <<IF q < 0 THEN -((-q) \div g) ELSE q \div g, q \div g>>
  BY DEF Ratio
<1>7. QED
  BY <1>1, <1>2, <1>5, <1>6

-----------------------------------------------------------------------------
(* Sums of products.                                                       *)

Products(u, v) == [i \in DOMAIN u |-> u[i] * v[i]]

(* The products of two samples can be added, in either order.              *)
LEMMA ProductsSummable ==
    ASSUME NEW u, NEW v, Summable(u), Summable(v), DOMAIN v = DOMAIN u
    PROVE  /\ Summable(Products(u, v)) /\ DOMAIN Products(u, v) = DOMAIN u
           /\ \A i \in DOMAIN u : Products(u, v)[i] = u[i] * v[i]
           /\ Products(u, v) = Products(v, u)
           /\ SumFunction(Products(u, v)) \in Int
<1>1. \A i \in DOMAIN u : u[i] \in Int /\ v[i] \in Int
  BY DEF Summable
<1>2. Summable(Products(u, v)) /\ DOMAIN Products(u, v) = DOMAIN u
  BY <1>1 DEF Summable, Products
<1>3. \A i \in DOMAIN u : u[i] * v[i] = v[i] * u[i]
  BY <1>1
<1>4. QED
  BY <1>2, <1>3, SumIsInteger DEF Products

(* The product of two samples that are scaled and shifted.                 *)
Multiplies(h, a, u, p, b, v, q) ==
    /\ DOMAIN v = DOMAIN u /\ DOMAIN h = DOMAIN u
    /\ \A i \in DOMAIN u : h[i] = (a * u[i] + p) * (b * v[i] + q)

LEMMA ShiftedProducts ==
    ASSUME NEW u, NEW v, Summable(u), Summable(v),
           NEW a \in Int, NEW p \in Int, NEW b \in Int, NEW q \in Int,
           NEW h, Multiplies(h, a, u, p, b, v, q)
    PROVE  SumFunction(h) =
             ((a * b) * SumFunction(Products(u, v)) + (a * q) * SumFunction(u))
             + ((b * p) * SumFunction(v) + (p * q) * Cardinality(DOMAIN u))
<1>0. PICK ab \in Int, aq \in Int, bp \in Int, pq \in Int :
        ab = a * b /\ aq = a * q /\ bp = b * p /\ pq = p * q
  OBVIOUS
<1> DEFINE D == DOMAIN u
           w == Products(u, v)
           one == [i \in D |-> 1]
           f == [i \in D |-> ab * w[i] + aq * u[i]]
           g == [i \in D |-> bp * v[i] + pq * one[i]]
<1>1. DOMAIN v = D /\ DOMAIN h = D /\ \A i \in D : u[i] \in Int /\ v[i] \in Int
  BY DEF Summable, Multiplies
<1>2. Summable(w) /\ DOMAIN w = D /\ \A i \in D : w[i] = u[i] * v[i] /\ w[i] \in Int
  BY <1>1, ProductsSummable
<1>3. Summable(one) /\ DOMAIN one = D /\ \A i \in D : one[i] = 1
  BY DEF Summable
<1> HIDE DEF w, one
<1>4. /\ Summable(f) /\ DOMAIN f = D
      /\ Summable(g) /\ DOMAIN g = D
  BY <1>1, <1>2, <1>3 DEF Summable
<1>5. /\ \A i \in D : f[i] = ab * w[i] + aq * u[i]
      /\ \A i \in D : g[i] = bp * v[i] + pq * one[i]
  OBVIOUS
<1> HIDE DEF f, g
<1>6. SumFunction(f) = ab * SumFunction(w) + aq * SumFunction(u)
  <2>1. Combines(f, ab, w, aq, u)
    BY <1>2, <1>4, <1>5 DEF Combines
  <2>2. QED
    BY <1>2, <1>4, <2>1, SumIsLinear
<1>7. SumFunction(g) = bp * SumFunction(v) + pq * SumFunction(one)
  <2>1. Combines(g, bp, v, pq, one)
    BY <1>1, <1>3, <1>4, <1>5 DEF Combines
  <2>2. QED
    BY <1>3, <1>4, <2>1, SumIsLinear
<1>8. SumFunction(one) = Cardinality(D)
  <2>1. PICK c \in Int : c = 1
    OBVIOUS
  <2>2. SumFunction(one) = c * Cardinality(D)
    BY <1>3, <2>1, SumOfConstant
  <2>3. Cardinality(D) \in Nat
    BY FS_CardinalityType DEF Summable
  <2>4. QED
    BY <2>1, <2>2, <2>3
<1>9. \A i \in D : h[i] = f[i] + g[i]
  <2> TAKE i \in D
  <2>1. PICK x \in Int, y \in Int : x = u[i] /\ y = v[i]
    BY <1>1
  <2>2. f[i] = (a * b) * (x * y) + (a * q) * x
    BY <1>0, <1>2, <1>5, <2>1
  <2>3. g[i] = (b * p) * y + (p * q) * 1
    BY <1>0, <1>3, <1>5, <2>1
  <2>4. h[i] = (a * x + p) * (b * y + q)
    BY <2>1 DEF Multiplies
  <2>5. (a * x + p) * (b * y + q)
          = ((a * b) * (x * y) + (a * q) * x) + ((b * p) * y + (p * q) * 1)
    OBVIOUS
  <2>6. QED
    BY <2>2, <2>3, <2>4, <2>5
<1>10. Summable(h)
  <2>1. \A i \in D : f[i] \in Int /\ g[i] \in Int
    BY <1>4 DEF Summable
  <2>2. QED
    BY <1>1, <1>9, <2>1 DEF Summable
<1>11. SumFunction(h) = SumFunction(f) + SumFunction(g)
  BY <1>1, <1>4, <1>9, <1>10, SumOfSums
<1>12. QED
  BY <1>0, <1>6, <1>7, <1>8, <1>11 DEF w

(* Facts of arithmetic that the provers need in this form.                 *)
LEMMA SquareIsNatural ==
    ASSUME NEW x \in Int
    PROVE  x * x \in Nat /\ (x * x = 0 => x = 0)
<1>1. CASE x >= 0
  BY <1>1
<1>2. CASE x < 0
  BY <1>2
<1>3. QED
  BY <1>1, <1>2

LEMMA SignOfFactor ==
    ASSUME NEW y \in Int, NEW w \in Int, y > 0, y * w >= 0
    PROVE  w >= 0
<1>1. SUFFICES ASSUME w < 0 PROVE FALSE
  OBVIOUS
<1>2. y * w < 0
  BY <1>1
<1>3. QED
  BY <1>2

(* A sum of squares.                                                       *)
LEMMA SumOfSquares ==
    ASSUME NEW c, Summable(c)
    PROVE  /\ SumFunction(Products(c, c)) \in Nat
           /\ SumFunction(Products(c, c)) = 0 <=> \A i \in DOMAIN c : c[i] = 0
<1> DEFINE D == DOMAIN c
           zero == [i \in D |-> 0]
           w == Products(c, c)
<1>1. Summable(w) /\ DOMAIN w = D /\ \A i \in D : w[i] = c[i] * c[i]
  BY ProductsSummable
<1>2. \A i \in D : c[i] \in Int
  BY DEF Summable
<1>3. Summable(zero) /\ DOMAIN zero = D /\ \A i \in D : zero[i] = 0
  BY DEF Summable
<1> HIDE DEF w, zero
<1>4. PICK z \in Int : z = 0
  OBVIOUS
<1>5. Cardinality(D) \in Int
  BY FS_CardinalityType DEF Summable
<1>6. SumFunction(zero) = 0
  <2>1. SumFunction(zero) = z * Cardinality(D)
    BY <1>3, <1>4, SumOfConstant
  <2>2. QED
    BY <1>4, <1>5, <2>1
<1>7. \A i \in D : /\ w[i] \in Int /\ zero[i] <= w[i]
                   /\ w[i] = 0 => c[i] = 0
  BY <1>1, <1>2, <1>3, SquareIsNatural
<1>8. /\ SumFunction(zero) <= SumFunction(w)
      /\ SumFunction(zero) = SumFunction(w) => \A i \in D : zero[i] = w[i]
  BY <1>1, <1>3, <1>7, SumIsMonotone
<1>9. SumFunction(w) \in Int
  BY <1>1, SumIsInteger
<1>10. ASSUME \A i \in D : c[i] = 0 PROVE SumFunction(w) = 0
  <2>1. \A i \in D : w[i] = z
    BY <1>1, <1>4, <1>10
  <2>2. SumFunction(w) = z * Cardinality(D)
    BY <1>1, <1>4, <2>1, SumOfConstant
  <2>3. QED
    BY <1>4, <1>5, <2>2
<1>11. ASSUME SumFunction(w) = 0 PROVE \A i \in D : c[i] = 0
  BY <1>3, <1>6, <1>7, <1>8, <1>11
<1>12. QED
  BY <1>6, <1>8, <1>9, <1>10, <1>11 DEF w

(* Cauchy and Schwarz: the square of a sum of products is at most the      *)
(* product of the sums of squares.  The sum of the squares of Y*c - Z*d is *)
(* not negative.                                                           *)
LEMMA CauchySchwarz ==
    ASSUME NEW c, NEW d, Summable(c), Summable(d), DOMAIN d = DOMAIN c,
           SumFunction(Products(d, d)) > 0
    PROVE  SumFunction(Products(c, d)) * SumFunction(Products(c, d))
             <= SumFunction(Products(c, c)) * SumFunction(Products(d, d))
<1> DEFINE D == DOMAIN c
<1>1. PICK X \in Int, Y \in Int, Z \in Int :
        /\ X = SumFunction(Products(c, c))
        /\ Y = SumFunction(Products(d, d)) /\ Y > 0
        /\ Z = SumFunction(Products(c, d))
  BY ProductsSummable
<1>2. PICK r \in Int, s \in Int, t \in Int, one \in Int :
        r = Y * Y /\ s = -(2 * (Y * Z)) /\ t = Z * Z /\ one = 1
  BY <1>1
<1> DEFINE f == [i \in D |-> r * Products(c, c)[i] + s * Products(c, d)[i]]
           e == [i \in D |-> Y * c[i] - Z * d[i]]
<1>3. \A i \in D : c[i] \in Int /\ d[i] \in Int
  BY DEF Summable
<1>4. /\ Summable(Products(c, c)) /\ DOMAIN Products(c, c) = D
      /\ Summable(Products(c, d)) /\ DOMAIN Products(c, d) = D
      /\ Summable(Products(d, d)) /\ DOMAIN Products(d, d) = D
      /\ \A i \in D : /\ Products(c, c)[i] = c[i] * c[i]
                      /\ Products(c, d)[i] = c[i] * d[i]
                      /\ Products(d, d)[i] = d[i] * d[i]
  BY ProductsSummable
<1>5. \A i \in D : Products(c, c)[i] \in Int /\ Products(c, d)[i] \in Int
  BY <1>3, <1>4
<1>6. Summable(f) /\ DOMAIN f = D /\ \A i \in D : f[i] = r * (c[i] * c[i]) + s * (c[i] * d[i])
  BY <1>3, <1>4, <1>5 DEF Summable
<1>7. Summable(e) /\ DOMAIN e = D /\ \A i \in D : e[i] = Y * c[i] - Z * d[i]
  BY <1>3 DEF Summable
<1>8. Combines(f, r, Products(c, c), s, Products(c, d))
  BY <1>4, <1>6 DEF Combines
<1>9. SumFunction(f) = r * X + s * Z
  BY <1>1, <1>4, <1>6, <1>8, SumIsLinear
<1> HIDE DEF e, f
<1>10. /\ Summable(Products(e, e)) /\ DOMAIN Products(e, e) = D
       /\ \A i \in D : Products(e, e)[i] = e[i] * e[i]
  BY <1>7, ProductsSummable
<1>11. Combines(Products(e, e), one, f, t, Products(d, d))
  <2>1. ASSUME NEW i \in D
        PROVE  Products(e, e)[i] = one * f[i] + t * Products(d, d)[i]
    <3>1. PICK x \in Int, y \in Int : x = c[i] /\ y = d[i]
      BY <1>3
    <3>2. Products(e, e)[i] = (Y * x - Z * y) * (Y * x - Z * y)
      BY <1>7, <1>10, <3>1
    <3>3. one * f[i] + t * Products(d, d)[i] =
            1 * ((Y * Y) * (x * x) + (-(2 * (Y * Z))) * (x * y)) + (Z * Z) * (y * y)
      BY <1>2, <1>4, <1>6, <3>1
    <3>4. (Y * x - Z * y) * (Y * x - Z * y)
            = 1 * ((Y * Y) * (x * x) + (-(2 * (Y * Z))) * (x * y)) + (Z * Z) * (y * y)
      OBVIOUS
    <3>5. QED
      BY <3>2, <3>3, <3>4
  <2>2. QED
    BY <1>4, <1>6, <1>10, <2>1 DEF Combines
<1>12. SumFunction(Products(e, e)) = one * SumFunction(f) + t * Y
  BY <1>1, <1>4, <1>6, <1>10, <1>11, SumIsLinear
<1>13. SumFunction(Products(e, e)) \in Nat
  BY <1>7, SumOfSquares
<1>14. SumFunction(Products(e, e)) = 1 * ((Y * Y) * X + (-(2 * (Y * Z))) * Z) + (Z * Z) * Y
  BY <1>2, <1>9, <1>12
<1>15. 1 * ((Y * Y) * X + (-(2 * (Y * Z))) * Z) + (Z * Z) * Y = Y * (X * Y - Z * Z)
  OBVIOUS
<1>16. X * Y - Z * Z >= 0
  <2>1. X * Y - Z * Z \in Int /\ Y * (X * Y - Z * Z) >= 0
    BY <1>13, <1>14, <1>15
  <2>2. QED
    BY <1>1, <2>1, SignOfFactor
<1>17. Z * Z <= X * Y
  BY <1>16
<1>18. QED
  BY <1>1, <1>17

-----------------------------------------------------------------------------
(* Correlations.                                                           *)

(* Cardinality times the sums that PearsonR makes of two samples.          *)
Covariance(u, v) ==
    Cardinality(DOMAIN u) * SumFunction(Products(u, v)) - SumFunction(u) * SumFunction(v)
Centered(u) == [i \in DOMAIN u |-> Cardinality(DOMAIN u) * u[i] + (-SumFunction(u))]

(* The covariance as a sum of products: of what the samples differ from    *)
(* their means, times the number of items.                                 *)
LEMMA CenteredProducts ==
    ASSUME NEW u, NEW v, Summable(u), Summable(v), DOMAIN v = DOMAIN u
    PROVE  /\ Summable(Centered(u)) /\ DOMAIN Centered(u) = DOMAIN u
           /\ Covariance(u, v) \in Int
           /\ SumFunction(Products(Centered(u), Centered(v)))
                = Cardinality(DOMAIN u) * Covariance(u, v)
<1> DEFINE D == DOMAIN u
<1>1. PICK n \in Int, U \in Int, V \in Int, P \in Int, m \in Int, w \in Int :
        /\ n = Cardinality(D) /\ U = SumFunction(u) /\ V = SumFunction(v)
        /\ P = SumFunction(Products(u, v)) /\ m = -U /\ w = -V
  <2>1. Cardinality(D) \in Int
    BY FS_CardinalityType DEF Summable
  <2>2. SumFunction(u) \in Int /\ SumFunction(v) \in Int /\ SumFunction(Products(u, v)) \in Int
    BY SumIsInteger, ProductsSummable
  <2>3. QED
    BY <2>1, <2>2
<1>2. \A i \in D : u[i] \in Int /\ v[i] \in Int
  BY DEF Summable
<1>3. /\ DOMAIN Centered(u) = D /\ DOMAIN Centered(v) = D
      /\ \A i \in D : Centered(u)[i] = n * u[i] + m /\ Centered(v)[i] = n * v[i] + w
  BY <1>1 DEF Centered
<1>4. Summable(Centered(u)) /\ Summable(Centered(v))
  BY <1>2, <1>3 DEF Summable
<1> DEFINE h == Products(Centered(u), Centered(v))
<1>5. DOMAIN h = D /\ \A i \in D : h[i] = (n * u[i] + m) * (n * v[i] + w)
  BY <1>3, <1>4, ProductsSummable
<1> HIDE DEF h
<1>a. Multiplies(h, n, u, m, n, v, w)
  BY <1>5 DEF Multiplies
<1>6. SumFunction(h) = ((n * n) * P + (n * w) * U) + ((n * m) * V + (m * w) * n)
  BY <1>1, <1>a, ShiftedProducts
<1>7. Covariance(u, v) = n * P - U * V
  BY <1>1 DEF Covariance
<1>8. SumFunction(h) = n * (n * P - U * V)
  BY <1>1, <1>6
<1>9. QED
  BY <1>1, <1>3, <1>4, <1>7, <1>8 DEF h

Constant(x) == \A i, j \in DOMAIN x : x[i] = x[j]

(* A positive factor of both sides.                                        *)
LEMMA CancelFactor ==
    ASSUME NEW n \in Nat \ {0}, NEW x \in Int, NEW y \in Int, n * x = n * y
    PROVE  x = y
<1>1. n * (x - y) = 0
  OBVIOUS
<1>2. x - y >= 0
  BY <1>1, SignOfFactor
<1>3. n * (y - x) = 0 /\ y - x \in Int
  OBVIOUS
<1>4. y - x >= 0
  BY <1>3, SignOfFactor
<1>5. QED
  BY <1>2, <1>4

(* The variance is zero just for a constant sample, and a covariance is at *)
(* most the geometric mean of the variances.                               *)
LEMMA CovarianceIsSymmetric ==
    ASSUME NEW u, NEW v, Summable(u), Summable(v), DOMAIN v = DOMAIN u
    PROVE  Covariance(u, v) = Covariance(v, u)
<1>1. Products(u, v) = Products(v, u)
  BY ProductsSummable
<1>2. SumFunction(u) \in Int /\ SumFunction(v) \in Int
  BY SumIsInteger
<1>3. SumFunction(u) * SumFunction(v) = SumFunction(v) * SumFunction(u)
  BY <1>2
<1>4. QED
  BY <1>1, <1>3 DEF Covariance

LEMMA VarianceIsSound ==
    ASSUME NEW u, Summable(u), DOMAIN u # {}
    PROVE  /\ Covariance(u, u) \in Nat
           /\ Covariance(u, u) = 0 <=> Constant(u)
<1> DEFINE D == DOMAIN u
<1>1. PICK n \in Nat \ {0}, U \in Int, A \in Int :
        /\ n = Cardinality(D) /\ U = SumFunction(u) /\ A = Covariance(u, u)
  <2>1. Cardinality(D) \in Nat \ {0}
    BY FS_CardinalityType, FS_EmptySet DEF Summable
  <2>2. QED
    BY <2>1, SumIsInteger, CenteredProducts
<1> DEFINE c == Centered(u)
           X == SumFunction(Products(c, c))
<1>2. Summable(c) /\ DOMAIN c = D /\ X = n * A
  BY <1>1, CenteredProducts
<1>3. \A i \in D : u[i] \in Int /\ c[i] = n * u[i] + (-U)
  BY <1>1 DEF Centered, Summable
<1> HIDE DEF c
<1>4. X \in Nat /\ (X = 0 <=> \A i \in D : c[i] = 0)
  BY <1>2, SumOfSquares
<1> HIDE DEF X
<1>5. A >= 0
  BY <1>2, <1>4, SignOfFactor
<1>6. A = 0 <=> X = 0
  <2>1. PICK z \in Int : z = 0 /\ n * z = 0
    OBVIOUS
  <2>2. n * A = n * z => A = z
    BY CancelFactor
  <2>3. QED
    BY <1>2, <2>1, <2>2
<1>7. ASSUME Constant(u), NEW i \in D PROVE c[i] = 0
  <2>1. PICK k \in Int : k = u[i]
    BY <1>3
  <2>2. \A j \in D : u[j] = k
    BY <1>7, <2>1 DEF Constant
  <2>3. U = k * n
    BY <1>1, <2>2, SumOfConstant
  <2>4. c[i] = n * k + (-(k * n))
    BY <1>3, <2>1, <2>3
  <2>5. QED
    BY <2>4
<1>8. ASSUME \A i \in D : c[i] = 0 PROVE Constant(u)
  <2>1. SUFFICES ASSUME NEW i \in D, NEW j \in D PROVE u[i] = u[j]
    BY DEF Constant
  <2>2. PICK x \in Int, y \in Int : x = u[i] /\ y = u[j]
    BY <1>3
  <2>3. n * x + (-U) = 0 /\ n * y + (-U) = 0
    BY <1>3, <1>8, <2>2
  <2>4. n * x = n * y
    BY <2>3
  <2>5. QED
    BY <2>2, <2>4, CancelFactor
<1>9. QED
  BY <1>1, <1>4, <1>5, <1>6, <1>7, <1>8

LEMMA CovarianceIsBounded ==
    ASSUME NEW u, NEW v, Summable(u), Summable(v), DOMAIN v = DOMAIN u, DOMAIN u # {},
           Covariance(v, v) > 0
    PROVE  Covariance(u, v) * Covariance(u, v) <= Covariance(u, u) * Covariance(v, v)
<1> DEFINE D == DOMAIN u
<1>1. PICK n \in Nat \ {0}, A \in Int, B \in Int, C \in Int :
        /\ n = Cardinality(D) /\ A = Covariance(u, u) /\ B = Covariance(v, v)
        /\ C = Covariance(u, v) /\ B > 0
  <2>1. Cardinality(D) \in Nat \ {0}
    BY FS_CardinalityType, FS_EmptySet DEF Summable
  <2>2. QED
    BY <2>1, CenteredProducts
<1> DEFINE c == Centered(u)
           d == Centered(v)
<1>2. /\ Summable(c) /\ DOMAIN c = D /\ Summable(d) /\ DOMAIN d = D
      /\ SumFunction(Products(c, c)) = n * A
      /\ SumFunction(Products(d, d)) = n * B
      /\ SumFunction(Products(c, d)) = n * C
  BY <1>1, CenteredProducts
<1> HIDE DEF c, d
<1>3. n * B > 0
  BY <1>1
<1>4. (n * C) * (n * C) <= (n * A) * (n * B)
  BY <1>2, <1>3, CauchySchwarz
<1>5. A * B - C * C >= 0
  <2>1. PICK m \in Int : m = n * n /\ m > 0
    BY SquareIsNatural
  <2>2. m * (A * B - C * C) = (n * A) * (n * B) - (n * C) * (n * C)
    BY <2>1
  <2>3. m * (A * B - C * C) >= 0 /\ A * B - C * C \in Int
    BY <1>4, <2>2
  <2>4. QED
    BY <2>1, <2>3, SignOfFactor
<1>6. QED
  BY <1>1, <1>5

(* The formula of PearsonR in these terms.                                 *)
LEMMA PearsonFormula ==
    ASSUME NEW x \in Seq(Int), NEW y \in Seq(Int), Len(x) = Len(y)
    PROVE  LET C == Covariance(x, y)
               square == Covariance(x, x) * Covariance(y, y)
           IN  PearsonR(x, y) =
                 IF Len(x) < 2 \/ square = 0 THEN NULL
                 ELSE <<IF C < 0 THEN -1 ELSE 1>> \o Ratio(C * C, square)
<1> DEFINE n == Len(x)
<1>1. n \in Nat /\ DOMAIN x = 1 .. n /\ DOMAIN y = 1 .. n /\ Cardinality(1 .. n) = n
  BY OneTo
<1>2. /\ Covariance(x, y) = n * SumFunction([i \in 1 .. n |-> x[i] * y[i]])
                            - SumFunction(x) * SumFunction(y)
      /\ Covariance(x, x) = n * SumFunction([i \in 1 .. n |-> x[i] * x[i]])
                            - SumFunction(x) * SumFunction(x)
      /\ Covariance(y, y) = n * SumFunction([i \in 1 .. n |-> y[i] * y[i]])
                            - SumFunction(y) * SumFunction(y)
  BY <1>1 DEF Covariance, Products
<1>3. QED
  BY <1>2 DEF PearsonR

(* A sample can be added up.                                               *)
LEMMA SeqSummable ==
    ASSUME NEW x \in Seq(Int)
    PROVE  Summable(x) /\ DOMAIN x = 1 .. Len(x) /\ Len(x) \in Nat
BY OneTo DEF Summable

(* A sign in front of a fraction.                                          *)
LEMMA SignAndRatio ==
    ASSUME NEW s \in Int, NEW p \in Int, NEW q \in Int
    PROVE  /\ <<s>> \o <<p, q>> = <<s, p, q>>
           /\ <<s, p, q>> # NULL
<1>1. <<s>> \in Seq(Int) /\ <<p, q>> \in Seq(Int) /\ Len(<<s>>) = 1 /\ Len(<<p, q>>) = 2
  OBVIOUS
<1>2. /\ <<s>> \o <<p, q>> \in Seq(Int) /\ Len(<<s>> \o <<p, q>>) = 3
      /\ (<<s>> \o <<p, q>>)[1] = s
      /\ (<<s>> \o <<p, q>>)[2] = p
      /\ (<<s>> \o <<p, q>>)[3] = q
  BY <1>1, SMT
<1>3. <<s>> \o <<p, q>> = <<s, p, q>>
  <2> DEFINE t == <<s>> \o <<p, q>>
             r == <<s, p, q>>
  <2>1. t \in Seq(Int) /\ Len(t) = 3 /\ t[1] = s /\ t[2] = p /\ t[3] = q
    BY <1>2
  <2>2. r \in [1 .. 3 -> Int] /\ r[1] = s /\ r[2] = p /\ r[3] = q
    OBVIOUS
  <2> HIDE DEF t, r
  <2>3. t \in [1 .. 3 -> Int]
    BY <2>1
  <2>4. \A i \in 1 .. 3 : i = 1 \/ i = 2 \/ i = 3
    OBVIOUS
  <2>5. \A i \in 1 .. 3 : t[i] = r[i]
    BY <2>1, <2>2, <2>4
  <2>6. t = r
    BY <2>2, <2>3, <2>5
  <2>7. QED
    BY <2>6 DEF t, r
<1>4. <<s, p, q>> # NULL
  BY DEF NULL
<1>5. QED
  BY <1>3, <1>4

(* What CorrelationSound says of PearsonR, with Constant for one value.    *)
LEMMA PearsonIsSound ==
    ASSUME NEW x \in Seq(Int), NEW y \in Seq(Int), Len(x) = Len(y)
    PROVE  /\ PearsonR(x, y) = NULL <=> Len(x) < 2 \/ Constant(x) \/ Constant(y)
           /\ PearsonR(x, y) # NULL => PearsonR(x, y)[2] <= PearsonR(x, y)[3]
           /\ PearsonR(x, y) # NULL /\ x = y => PearsonR(x, y) = <<1, 1, 1>>
           /\ PearsonR(x, y) = PearsonR(y, x)
<1>1. Summable(x) /\ Summable(y) /\ DOMAIN x = 1 .. Len(x) /\ DOMAIN y = 1 .. Len(x)
      /\ Len(x) \in Nat
  BY SeqSummable
<1>2. PICK A \in Int, B \in Int, C \in Int :
        A = Covariance(x, x) /\ B = Covariance(y, y) /\ C = Covariance(x, y)
  BY <1>1, CenteredProducts
<1>3. C = Covariance(y, x)
  BY <1>1, <1>2, CovarianceIsSymmetric
<1>4. PearsonR(x, y) = IF Len(x) < 2 \/ A * B = 0 THEN NULL
                       ELSE <<IF C < 0 THEN -1 ELSE 1>> \o Ratio(C * C, A * B)
  BY <1>2, PearsonFormula
<1>5. PearsonR(y, x) = IF Len(x) < 2 \/ B * A = 0 THEN NULL
                       ELSE <<IF C < 0 THEN -1 ELSE 1>> \o Ratio(C * C, B * A)
  BY <1>2, <1>3, PearsonFormula
<1>6. A * B = B * A
  OBVIOUS
<1>7. PearsonR(x, y) = PearsonR(y, x)
  BY <1>4, <1>5, <1>6
<1>8. CASE Len(x) < 2
  BY <1>4, <1>7, <1>8
<1>9. CASE ~ (Len(x) < 2)
  <2>1. DOMAIN x # {} /\ DOMAIN y # {}
    <3>1. 1 \in 1 .. Len(x)
      BY <1>1, <1>9
    <3>2. QED
      BY <1>1, <3>1
  <2>2. /\ A \in Nat /\ (A = 0 <=> Constant(x))
        /\ B \in Nat /\ (B = 0 <=> Constant(y))
    BY <1>1, <1>2, <2>1, VarianceIsSound
  <2>3. A * B = 0 <=> A = 0 \/ B = 0
    BY <2>2
  <2>4. CASE A * B = 0
    BY <1>4, <1>7, <2>2, <2>3, <2>4
  <2>5. CASE A * B # 0
    <3>1. A > 0 /\ B > 0 /\ A * B \in Nat \ {0}
      BY <2>2, <2>3, <2>5
    <3>2. C * C <= A * B
      BY <1>1, <1>2, <2>1, <3>1, CovarianceIsBounded
    <3>3. PICK S \in Int, Q \in Nat \ {0} : S = C * C /\ Q = A * B /\ S <= Q
      BY <3>1, <3>2
    <3>a. PICK p \in Int, q \in Nat \ {0}, g \in Nat \ {0} :
            Ratio(S, Q) = <<p, q>> /\ S = p * g /\ Q = q * g
      BY RatioReduces
    <3>b. PICK sign \in Int : sign = IF C < 0 THEN -1 ELSE 1
      OBVIOUS
    <3>4. PearsonR(x, y) = <<sign, p, q>> /\ <<sign, p, q>> # NULL
      <4>1. PearsonR(x, y) = <<sign>> \o <<p, q>>
        BY <1>4, <1>9, <2>5, <3>3, <3>a, <3>b
      <4>2. QED
        BY <4>1, SignAndRatio
    <3>5. p <= q
      <4>1. g * (q - p) = Q - S
        BY <3>a
      <4>2. g * (q - p) >= 0 /\ q - p \in Int /\ g > 0
        BY <3>3, <4>1
      <4>3. q - p >= 0
        BY <4>2, SignOfFactor
      <4>4. QED
        BY <4>3
    <3>6. PearsonR(x, y) # NULL
      BY <3>4
    <3>7. ASSUME x = y PROVE PearsonR(x, y) = <<1, 1, 1>>
      <4>1. A = B /\ C = A
        BY <1>2, <3>7
      <4>2. Ratio(S, Q) = <<1, 1>>
        BY <3>3, <4>1, RatioOfEqual
      <4>3. p = 1 /\ q = 1 /\ sign = 1
        BY <3>1, <3>a, <3>b, <4>1, <4>2
      <4>4. QED
        BY <3>4, <4>3
    <3>8. QED
      BY <1>7, <1>9, <2>2, <3>1, <3>4, <3>5, <3>6, <3>7
  <2>6. QED
    BY <2>4, <2>5
<1>10. QED
  BY <1>8, <1>9

(* A sample has one value just when it is constant.                        *)
LEMMA ConstantRange ==
    ASSUME NEW x \in Seq(Int), Len(x) >= 1
    PROVE  Cardinality(Range(x)) = 1 <=> Constant(x)
<1>1. DOMAIN x = 1 .. Len(x) /\ Len(x) \in Nat /\ 1 \in DOMAIN x
  OBVIOUS
<1>2. \A i \in DOMAIN x : x[i] \in Range(x)
  BY DEF Range
<1>3. IsFiniteSet(Range(x))
  <2>1. x \in Surjection(DOMAIN x, Range(x))
    BY DEF Surjection, Range
  <2>2. IsFiniteSet(DOMAIN x)
    BY <1>1, OneTo
  <2>3. QED
    BY <2>1, <2>2, FS_Surjection
<1>4. ASSUME Cardinality(Range(x)) = 1 PROVE Constant(x)
  <2>1. PICK r : Range(x) = {r}
    BY <1>3, <1>4, FS_Singleton
  <2>2. QED
    BY <1>2, <2>1 DEF Constant
<1>5. ASSUME Constant(x) PROVE Cardinality(Range(x)) = 1
  <2>1. Range(x) = {x[1]}
    BY <1>1, <1>5 DEF Constant, Range
  <2>2. QED
    BY <2>1, FS_Singleton
<1>6. QED
  BY <1>4, <1>5

(* Ranks are integers, and equal just for equal values.                    *)
LEMMA RanksSeparate ==
    ASSUME NEW x \in Seq(Int)
    PROVE  /\ FractionalRanks(x) \in Seq(Int) /\ Len(FractionalRanks(x)) = Len(x)
           /\ Constant(FractionalRanks(x)) <=> Constant(x)
<1> DEFINE r == FractionalRanks(x)
           D == DOMAIN x
           below(v) == {l \in D : x[l] < v}
           same(v) == {l \in D : x[l] = v}
<1>1. D = 1 .. Len(x) /\ Len(x) \in Nat /\ IsFiniteSet(D) /\ \A i \in D : x[i] \in Int
  BY OneTo
<1>2. \A m \in D : r[m] = 2 * Cardinality(below(x[m])) + Cardinality(same(x[m])) + 1
  BY RanksAreFractional DEF RanksSound, Times
<1>3. DOMAIN r = D
  BY DEF FractionalRanks
<1>4. \A v \in Int : /\ IsFiniteSet(below(v)) /\ Cardinality(below(v)) \in Nat
                     /\ IsFiniteSet(same(v)) /\ Cardinality(same(v)) \in Nat
  <2> TAKE v \in Int
  <2>1. below(v) \in SUBSET D /\ same(v) \in SUBSET D
    OBVIOUS
  <2> HIDE DEF below, same
  <2>2. QED
    BY <1>1, <2>1, FS_Subset, FS_CardinalityType
<1>5. \A m \in D : r[m] \in Int
  <2> TAKE m \in D
  <2>1. PICK v \in Int : v = x[m]
    BY <1>1
  <2>2. r[m] = 2 * Cardinality(below(v)) + Cardinality(same(v)) + 1
    BY <1>2, <2>1
  <2>3. Cardinality(below(v)) \in Nat /\ Cardinality(same(v)) \in Nat
    BY <1>4
  <2> HIDE DEF r, below, same
  <2>4. QED
    BY <2>2, <2>3
<1>6. r \in Seq(Int) /\ Len(r) = Len(x)
  <2>1. r \in [1 .. Len(x) -> Int]
    <3>1. r = [m \in D |-> r[m]]
      BY DEF FractionalRanks
    <3> HIDE DEF r
    <3>2. QED
      BY <1>1, <1>3, <1>5, <3>1
  <2> HIDE DEF r
  <2>2. QED
    BY <1>1, <2>1
<1>7. ASSUME NEW i \in D, NEW j \in D, x[i] < x[j] PROVE r[i] # r[j]
  <2>1. below(x[i]) \union same(x[i]) \in SUBSET below(x[j])
        /\ below(x[i]) \intersect same(x[i]) = {}
    BY <1>1, <1>7
  <2>2. /\ IsFiniteSet(below(x[i])) /\ IsFiniteSet(same(x[i])) /\ IsFiniteSet(below(x[j]))
        /\ IsFiniteSet(same(x[j]))
        /\ Cardinality(below(x[i])) \in Nat /\ Cardinality(same(x[i])) \in Nat
        /\ Cardinality(below(x[j])) \in Nat /\ Cardinality(same(x[j])) \in Nat
    BY <1>1, <1>4
  <2>3. r[i] = 2 * Cardinality(below(x[i])) + Cardinality(same(x[i])) + 1
        /\ r[j] = 2 * Cardinality(below(x[j])) + Cardinality(same(x[j])) + 1
    BY <1>2
  <2>4. same(x[j]) # {}
    OBVIOUS
  <2> HIDE DEF below, same, r
  <2>5. Cardinality(below(x[i]) \union same(x[i]))
          = Cardinality(below(x[i])) + Cardinality(same(x[i])) - Cardinality({})
    BY <2>1, <2>2, FS_Union
  <2>6. Cardinality({}) = 0 /\ Cardinality(same(x[j])) # 0
    <3>1. Cardinality({}) = 0
      BY FS_EmptySet
    <3>2. Cardinality(same(x[j])) = 0 <=> same(x[j]) = {}
      BY <2>2, FS_EmptySet
    <3>3. QED
      BY <2>4, <3>1, <3>2
  <2>7. Cardinality(below(x[i]) \union same(x[i])) <= Cardinality(below(x[j]))
    BY <2>1, <2>2, FS_Subset
  <2>8. QED
    BY <2>2, <2>3, <2>5, <2>6, <2>7, SMTT(60)
<1>8. ASSUME Constant(r) PROVE Constant(x)
  <2>1. SUFFICES ASSUME NEW i \in D, NEW j \in D PROVE x[i] = x[j]
    BY DEF Constant
  <2>2. r[i] = r[j]
    BY <1>3, <1>8 DEF Constant
  <2> HIDE DEF r
  <2>3. ~ (x[i] < x[j]) /\ ~ (x[j] < x[i])
    BY <1>7, <2>2
  <2>4. QED
    BY <1>1, <2>3
<1>9. ASSUME Constant(x) PROVE Constant(r)
  <2>1. SUFFICES ASSUME NEW i \in D, NEW j \in D PROVE r[i] = r[j]
    BY <1>3 DEF Constant
  <2>2. x[i] = x[j]
    BY <1>9 DEF Constant
  <2> HIDE DEF r, below, same
  <2>3. QED
    BY <1>2, <2>2
<1>10. QED
  BY <1>6, <1>8, <1>9

(* PearsonR and SpearmanR are what CorrelationSound says, for any two      *)
(* samples of the same length: within -1 and 1, None just when one side is *)
(* constant or there are too few, and the same for both orders of the      *)
(* raters.                                                                 *)
THEOREM CorrelationsAreSound ==
    ASSUME NEW x \in Seq(Int), NEW y \in Seq(Int), Len(x) = Len(y)
    PROVE  CorrelationSound(x, y, PearsonR) /\ CorrelationSound(x, y, SpearmanR)
<1>1. ~ (Len(x) < 2) => (Cardinality(Range(x)) = 1 <=> Constant(x))
  BY ConstantRange
<1>2. ~ (Len(x) < 2) => (Cardinality(Range(y)) = 1 <=> Constant(y))
  BY ConstantRange
<1>3. CorrelationSound(x, y, PearsonR)
  BY <1>1, <1>2, PearsonIsSound DEF CorrelationSound
<1>4. CorrelationSound(x, y, SpearmanR)
  <2>1. CASE Len(x) < 2
    BY <2>1 DEF CorrelationSound, SpearmanR
  <2>2. CASE ~ (Len(x) < 2)
    <3>1. PICK u \in Seq(Int), v \in Seq(Int) :
            /\ u = FractionalRanks(x) /\ v = FractionalRanks(y)
            /\ Len(u) = Len(x) /\ Len(v) = Len(u)
            /\ Constant(u) <=> Constant(x)
            /\ Constant(v) <=> Constant(y)
      BY RanksSeparate
    <3>2. SpearmanR(x, y) = PearsonR(u, v) /\ SpearmanR(y, x) = PearsonR(v, u)
      BY <2>2, <3>1 DEF SpearmanR
    <3>3. /\ PearsonR(u, v) = NULL <=> Len(u) < 2 \/ Constant(u) \/ Constant(v)
          /\ PearsonR(u, v) # NULL => PearsonR(u, v)[2] <= PearsonR(u, v)[3]
          /\ PearsonR(u, v) # NULL /\ u = v => PearsonR(u, v) = <<1, 1, 1>>
          /\ PearsonR(u, v) = PearsonR(v, u)
      BY <3>1, PearsonIsSound
    <3>4. QED
      BY <1>1, <1>2, <2>2, <3>1, <3>2, <3>3 DEF CorrelationSound
  <2>3. QED
    BY <2>1, <2>2
<1>5. QED
  BY <1>3, <1>4

-----------------------------------------------------------------------------
(* Kappa.                                                                  *)

(* How often a sequence of categories has each of C.                       *)
Counts(s, C) == [c \in C |-> Times(s, c)]

(* The pairs of items that two raters put in one category are those of     *)
(* every category together.                                                *)
LEMMA AlikeAdd ==
    ASSUME NEW D, IsFiniteSet(D), NEW C, IsFiniteSet(C), NEW a, NEW b,
           DOMAIN a = D, DOMAIN b = D, \A i \in D : a[i] \in C /\ b[i] \in C
    PROVE  SumFunction(Products(Counts(a, C), Counts(b, C)))
             = Cardinality({ij \in D \X D : a[ij[1]] = b[ij[2]]})
<1> DEFINE alike == {ij \in D \X D : a[ij[1]] = b[ij[2]]}
           key == [ij \in alike |-> a[ij[1]]]
<1>1. IsFiniteSet(alike)
  <2>1. IsFiniteSet(D \X D) /\ alike \in SUBSET (D \X D)
    BY FS_Product
  <2>2. QED
    BY <2>1, FS_Subset
<1>2. \A ij \in alike : key[ij] \in C
  OBVIOUS
<1>3. ASSUME NEW c \in C PROVE Times(key, c) = Times(a, c) * Times(b, c)
  <2> DEFINE A == {i \in D : a[i] = c}
             B == {i \in D : b[i] = c}
  <2>1. IsFiniteSet(A) /\ IsFiniteSet(B)
    <3>1. A \in SUBSET D /\ B \in SUBSET D
      OBVIOUS
    <3> HIDE DEF A, B
    <3>2. QED
      BY <3>1, FS_Subset
  <2>2. {ij \in DOMAIN key : key[ij] = c} = A \X B
    OBVIOUS
  <2>3. Cardinality(A \X B) = Cardinality(A) * Cardinality(B)
    BY <2>1, FS_Product
  <2>4. QED
    BY <2>2, <2>3 DEF Times
<1>4. Products(Counts(a, C), Counts(b, C)) = [c \in C |-> Times(key, c)]
  BY <1>3 DEF Products, Counts
<1>5. DOMAIN key = alike
  OBVIOUS
<1> HIDE DEF key, alike
<1>6. SumFunction([c \in C |-> Times(key, c)]) = Cardinality(alike)
  BY <1>1, <1>2, <1>5, OccurrencesAdd
<1>7. QED
  BY <1>4, <1>6 DEF alike

(* The sums of counts.                                                     *)
LEMMA CountsAdd ==
    ASSUME NEW D, IsFiniteSet(D), NEW C, IsFiniteSet(C), NEW a,
           DOMAIN a = D, \A i \in D : a[i] \in C
    PROVE  /\ Summable(Counts(a, C)) /\ DOMAIN Counts(a, C) = C
           /\ \A c \in C : /\ Counts(a, C)[c] = Times(a, c)
                           /\ Counts(a, C)[c] \in Nat
           /\ SumFunction(Counts(a, C)) = Cardinality(D)
BY OccurrencesAdd DEF Counts

(* The function that is 1 for one argument and 0 for the others.           *)
LEMMA SumOfOne ==
    ASSUME NEW C, IsFiniteSet(C), NEW c \in C
    PROVE  SumFunction([x \in C |-> IF x = c THEN 1 ELSE 0]) = 1
<1> DEFINE s == [i \in {1} |-> c]
<1>1. IsFiniteSet({1}) /\ Cardinality({1}) = 1
  BY FS_Singleton
<1>2. ASSUME NEW x \in C PROVE (IF x = c THEN 1 ELSE 0) = Times(s, x)
  <2>1. CASE x = c
    <3>1. {i \in DOMAIN s : s[i] = x} = {1}
      BY <2>1
    <3>2. QED
      BY <1>1, <2>1, <3>1 DEF Times
  <2>2. CASE x # c
    <3>1. {i \in DOMAIN s : s[i] = x} = {}
      BY <2>2
    <3>2. Cardinality({}) = 0
      BY FS_EmptySet
    <3>3. QED
      BY <2>2, <3>1, <3>2 DEF Times
  <2>3. QED
    BY <2>1, <2>2
<1>3. DOMAIN s = {1} /\ \A i \in {1} : s[i] \in C
  OBVIOUS
<1> HIDE DEF s
<1>4. [x \in C |-> IF x = c THEN 1 ELSE 0] = [x \in C |-> Times(s, x)]
  BY <1>2
<1>5. SumFunction([x \in C |-> Times(s, x)]) = Cardinality({1})
  BY <1>1, <1>3, OccurrencesAdd
<1>6. QED
  BY <1>1, <1>4, <1>5

(* Four times a product is at most the square of the sum.                  *)
LEMMA SquareOfSum ==
    ASSUME NEW x \in Nat, NEW y \in Nat
    PROVE  4 * (x * y) <= (x + y) * (x + y)
<1>1. (x + y) * (x + y) = 4 * (x * y) + (x - y) * (x - y)
  OBVIOUS
<1>2. x - y \in Int /\ (x - y) * (x - y) >= 0
  BY SquareIsNatural
<1>3. PICK p \in Int, q \in Int, r \in Int :
        p = (x + y) * (x + y) /\ q = 4 * (x * y) /\ r = (x - y) * (x - y)
  OBVIOUS
<1>4. QED
  BY <1>1, <1>2, <1>3

(* A factor that is not negative keeps an order.                           *)
LEMMA ProductIsMonotone ==
    ASSUME NEW x \in Int, NEW y \in Int, NEW z \in Nat, x <= y
    PROVE  x * z <= y * z
<1>1. (y - x) * z >= 0
  OBVIOUS
<1>2. y * z = x * z + (y - x) * z
  OBVIOUS
<1>3. QED
  BY <1>1, <1>2

(* Chance agrees at most as often as it can with so few scores agreeing:   *)
(* twice the pairs alike are at most all pairs and the items that agree    *)
(* times the items.                                                        *)
LEMMA ChanceIsBounded ==
    ASSUME NEW C, IsFiniteSet(C), NEW A, NEW B, Summable(A), Summable(B),
           DOMAIN A = C, DOMAIN B = C, \A c \in C : A[c] >= 0 /\ B[c] >= 0,
           NEW n \in Nat, SumFunction(A) = n, SumFunction(B) = n,
           NEW g \in Nat, \A c \in C : A[c] + B[c] - n <= g
    PROVE  2 * SumFunction(Products(A, B)) <= n * n + n * g
<1>1. PICK e \in Int : e = SumFunction(Products(A, B))
  BY ProductsSummable
<1>2. \A c \in C : A[c] \in Nat /\ B[c] \in Nat
  BY DEF Summable
<1> DEFINE w == Products(A, B)
<1>3. Summable(w) /\ DOMAIN w = C /\ \A c \in C : w[c] = A[c] * B[c]
  BY ProductsSummable
<1>4. n * g >= 0
  OBVIOUS
<1> HIDE DEF w
<1>5. CASE \A c \in C : A[c] + B[c] <= n
  <2> DEFINE h == [c \in C |-> n * A[c] + n * B[c]]
             f == [c \in C |-> 4 * w[c] + 0 * w[c]]
  <2>1. Summable(h) /\ DOMAIN h = C /\ Summable(f) /\ DOMAIN f = C
    BY <1>2, <1>3 DEF Summable
  <2>2. Combines(h, n, A, n, B)
    BY DEF Combines
  <2>3. SumFunction(h) = n * n + n * n
    <3> HIDE DEF h
    <3>1. QED
      BY <2>1, <2>2, SumIsLinear
  <2>4. PICK four \in Int, zero \in Int : four = 4 /\ zero = 0
    OBVIOUS
  <2>5. Combines(f, four, w, zero, w)
    BY <1>3, <2>4 DEF Combines
  <2>6. \A c \in C : f[c] <= h[c]
    <3> TAKE c \in C
    <3>1. PICK x \in Nat, y \in Nat : x = A[c] /\ y = B[c] /\ x + y <= n
      BY <1>2, <1>5
    <3>2. f[c] = 4 * (x * y) + 0 * (x * y) /\ h[c] = n * x + n * y
      BY <1>3, <3>1
    <3>3. 4 * (x * y) <= (x + y) * (x + y)
      BY SquareOfSum
    <3>4. (x + y) * (x + y) <= n * (x + y)
      BY <3>1, ProductIsMonotone
    <3>5. n * (x + y) = n * x + n * y /\ 0 * (x * y) = 0
      OBVIOUS
    <3>6. PICK p \in Int, q \in Int, r \in Int :
            p = 4 * (x * y) /\ q = (x + y) * (x + y) /\ r = n * (x + y)
      OBVIOUS
    <3>7. f[c] = p /\ h[c] = r
      BY <3>2, <3>5, <3>6
    <3>8. QED
      BY <3>3, <3>4, <3>6, <3>7
  <2> HIDE DEF f, h
  <2>7. SumFunction(f) = four * e + zero * e
    BY <1>1, <1>3, <2>1, <2>5, SumIsLinear DEF w
  <2>8. SumFunction(f) <= SumFunction(h)
    BY <2>1, <2>6, SumIsMonotone
  <2>9. PICK m \in Int, k \in Int : m = n * n /\ k = n * g
    OBVIOUS
  <2>10. 4 * e <= m + m
    BY <2>3, <2>4, <2>7, <2>8, <2>9
  <2>11. 2 * e <= m + k
    BY <1>4, <2>9, <2>10
  <2>12. QED
    BY <1>1, <2>9, <2>11
<1>6. CASE ~ \A c \in C : A[c] + B[c] <= n
  <2>1. PICK c \in C : ~ (A[c] + B[c] <= n)
    BY <1>6
  <2>2. PICK x \in Nat, y \in Nat : x = A[c] /\ y = B[c] /\ x + y > n
    BY <1>2, <2>1
  <2>3. x <= n /\ y <= n /\ \A d \in C : d # c => x + A[d] <= n
    BY <2>2, SumOfSome
  <2>4. x + y - n <= g
    BY <2>2
  <2>5. PICK k \in Int, m \in Int : k = n - x /\ k >= 0 /\ m = (x - k) * y
    BY <2>3
  <2> DEFINE one == [d \in C |-> IF d = c THEN 1 ELSE 0]
             h == [d \in C |-> k * B[d] + m * one[d]]
  <2>6. Summable(one) /\ DOMAIN one = C /\ Summable(h) /\ DOMAIN h = C
    BY <1>2 DEF Summable
  <2>7. one = [d \in C |-> IF d = c THEN 1 ELSE 0]
    OBVIOUS
  <2>8. Combines(h, k, B, m, one)
    BY DEF Combines
  <2>9. \A d \in C : w[d] <= h[d]
    <3> TAKE d \in C
    <3>1. PICK u \in Nat, v \in Nat : u = A[d] /\ v = B[d] /\ w[d] = u * v
      BY <1>2, <1>3
    <3>2. CASE d = c
      <4>1. h[d] = k * y + m * 1 /\ w[d] = x * y
        BY <2>2, <3>1, <3>2
      <4>2. k * y + ((x - k) * y) * 1 = x * y
        OBVIOUS
      <4>3. QED
        BY <2>5, <4>1, <4>2
    <3>3. CASE d # c
      <4>1. h[d] = k * v + m * 0 /\ u <= k
        BY <2>3, <2>5, <3>1, <3>3
      <4>2. u * v <= k * v
        BY <4>1, ProductIsMonotone
      <4>3. QED
        BY <3>1, <4>1, <4>2
    <3>4. QED
      BY <3>2, <3>3
  <2> HIDE DEF one, h
  <2>10. SumFunction(one) = 1
    BY <2>7, SumOfOne
  <2>11. SumFunction(h) = k * n + m * 1
    BY <2>6, <2>8, <2>10, SumIsLinear
  <2>12. e <= k * n + m * 1
    BY <1>1, <1>3, <2>6, <2>9, <2>11, SumIsMonotone DEF w
  <2>13. e <= (n - x) * n + (x - (n - x)) * y
    BY <2>5, <2>12
  <2>14. 2 * ((n - x) * n + (x - (n - x)) * y)
          = (2 * (n * n) - 2 * (n * (x + y))) + 4 * (x * y)
    OBVIOUS
  <2>15. 4 * (x * y) <= (x + y) * (x + y)
    BY SquareOfSum
  <2>16. PICK s \in Int : s = x + y /\ n <= s /\ s <= 2 * n /\ s - n <= g
    BY <2>2, <2>3, <2>4
  <2>17. (s - n) * (2 * n - s) >= 0
    BY <2>16
  <2>18. (s - n) * (2 * n - s) = (3 * (n * s) - 2 * (n * n)) - s * s
    OBVIOUS
  <2>19. (s - n) * n <= g * n
    BY <2>16, ProductIsMonotone
  <2>20. (s - n) * n = n * s - n * n /\ g * n = n * g
    OBVIOUS
  <2>21. PICK p \in Int, q \in Int, r \in Int, t \in Int, z \in Int :
           p = n * n /\ q = n * s /\ r = s * s /\ t = n * g /\ z = x * y
    BY <2>16
  <2>22. 2 * e <= (2 * p - 2 * q) + 4 * z
    <3>1. PICK j \in Int : j = (n - x) * n + (x - (n - x)) * y
      OBVIOUS
    <3>2. e <= j /\ 2 * j = (2 * p - 2 * q) + 4 * z
      BY <2>13, <2>14, <2>16, <2>21, <3>1
    <3>3. QED
      BY <3>2
  <2>23. 4 * z <= r /\ r <= 3 * q - 2 * p /\ q - p <= t
    <3>1. 4 * z <= r
      BY <2>15, <2>16, <2>21
    <3>2. 0 <= (3 * q - 2 * p) - r
      BY <2>17, <2>18, <2>21
    <3>3. q - p <= t
      BY <2>19, <2>20, <2>21
    <3>4. QED
      BY <3>1, <3>2, <3>3
  <2>24. 2 * e <= p + t
    BY <2>22, <2>23
  <2>25. QED
    BY <1>1, <2>21, <2>24
<1>7. QED
  BY <1>5, <1>6

(* What CohenKappa computes: from how many items agree, and how many pairs *)
(* of items would.                                                         *)
Rounded(x) == [i \in DOMAIN x |-> Round(x[i])]
Agreeing(x, y) == {i \in 1 .. Len(x) : Round(x[i]) = Round(y[i])}
Alike(x, y) == {ij \in (1 .. Len(x)) \X (1 .. Len(x)) : Round(x[ij[1]]) = Round(y[ij[2]])}

(* A finite function has finitely many values.                             *)
LEMMA FiniteRange ==
    ASSUME NEW f, IsFiniteSet(DOMAIN f), NEW D, f = [i \in D |-> f[i]]
    PROVE  IsFiniteSet(Range(f)) /\ \A i \in DOMAIN f : f[i] \in Range(f)
<1>1. f \in Surjection(DOMAIN f, Range(f))
  BY DEF Surjection, Range
<1>2. QED
  BY <1>1, FS_Surjection DEF Range

LEMMA KappaFormula ==
    ASSUME NEW x \in Seq(Int), NEW y \in Seq(Int), Len(x) = Len(y)
    PROVE  LET n == Len(x)
               g == Cardinality(Agreeing(x, y))
               e == Cardinality(Alike(x, y))
           IN  /\ n \in Nat /\ g \in Nat /\ e \in Nat
               /\ g <= n /\ (g = n <=> Agreeing(x, y) = 1 .. n)
               /\ e <= n * n /\ 2 * e <= n * n + n * g
               /\ CohenKappa(x, y) = IF n < 2 \/ e = n * n THEN NULL
                                     ELSE Ratio(g * n - e, n * n - e)
<1> DEFINE n == Len(x)
           D == 1 .. n
           a == Rounded(x)
           b == Rounded(y)
           C == Range(a) \union Range(b)
           g == Cardinality(Agreeing(x, y))
           e == Cardinality(Alike(x, y))
           A == Counts(a, C)
           B == Counts(b, C)
<1>1. n \in Nat /\ IsFiniteSet(D) /\ Cardinality(D) = n /\ DOMAIN x = D /\ DOMAIN y = D
  BY OneTo
<1>2. /\ DOMAIN a = D /\ DOMAIN b = D
      /\ \A i \in D : a[i] = Round(x[i]) /\ b[i] = Round(y[i])
  BY <1>1 DEF Rounded
<1>3. IsFiniteSet(C) /\ \A i \in D : a[i] \in C /\ b[i] \in C
  <2>1. /\ a = [i \in D |-> a[i]] /\ b = [i \in D |-> b[i]]
    BY <1>1 DEF Rounded
  <2>2. /\ IsFiniteSet(Range(a)) /\ IsFiniteSet(Range(b))
        /\ \A i \in D : a[i] \in Range(a) /\ b[i] \in Range(b)
    <3> HIDE DEF a, b
    <3>1. QED
      BY <1>1, <1>2, <2>1, FiniteRange
  <2> HIDE DEF a, b
  <2>3. IsFiniteSet(C)
    BY <2>2, FS_Union
  <2>4. QED
    BY <2>2, <2>3
<1>4. /\ Agreeing(x, y) = {i \in D : a[i] = b[i]}
      /\ Alike(x, y) = {ij \in D \X D : a[ij[1]] = b[ij[2]]}
  BY <1>2 DEF Agreeing, Alike
<1>5. /\ a = Each(Round, x) /\ b = Each(Round, y)
  BY DEF Rounded, Each
<1>6. CohenKappa(x, y) =
        IF n < 2 \/ Cardinality(C) < 2 \/ SumFunction(Products(A, B)) >= n * n THEN NULL
        ELSE Ratio(g * n - SumFunction(Products(A, B)), n * n - SumFunction(Products(A, B)))
  <2>1. Products(A, B) = [c \in C |-> Times(a, c) * Times(b, c)]
    BY DEF Products, Counts
  <2> HIDE DEF a, b
  <2>2. CohenKappa(x, y) =
          IF \/ Len(x) < 2
             \/ Cardinality(Range(a) \union Range(b)) < 2
             \/ SumFunction([c \in Range(a) \union Range(b) |-> Times(a, c) * Times(b, c)])
                  >= Len(x) * Len(x)
          THEN NULL
          ELSE Ratio(Cardinality({i \in 1 .. Len(x) : a[i] = b[i]}) * Len(x)
                       - SumFunction([c \in Range(a) \union Range(b) |-> Times(a, c) * Times(b, c)]),
                     Len(x) * Len(x)
                       - SumFunction([c \in Range(a) \union Range(b) |-> Times(a, c) * Times(b, c)]))
    BY <1>5 DEF CohenKappa
  <2>3. QED
    BY <1>4, <2>1, <2>2
<1> HIDE DEF a, b, C
<1>7. SumFunction(Products(A, B)) = e
  <2> HIDE DEF D
  <2>1. SumFunction(Products(Counts(a, C), Counts(b, C)))
          = Cardinality({ij \in D \X D : a[ij[1]] = b[ij[2]]})
    BY <1>1, <1>2, <1>3, AlikeAdd
  <2>2. QED
    BY <1>4, <2>1
<1>8. /\ Summable(A) /\ Summable(B) /\ DOMAIN A = C /\ DOMAIN B = C
      /\ \A c \in C : /\ A[c] = Times(a, c) /\ B[c] = Times(b, c)
                      /\ A[c] \in Nat /\ B[c] \in Nat
      /\ SumFunction(A) = n /\ SumFunction(B) = n
  BY <1>1, <1>2, <1>3, CountsAdd
<1>9. /\ IsFiniteSet(Agreeing(x, y)) /\ g \in Nat /\ g <= n
      /\ g = n <=> Agreeing(x, y) = D
  <2>1. Agreeing(x, y) \in SUBSET D
    BY DEF Agreeing
  <2>2. QED
    BY <1>1, <2>1, FS_Subset, FS_CardinalityType
<1>10. e \in Nat /\ e <= n * n /\ (Alike(x, y) = D \X D => e = n * n)
  <2>1. Alike(x, y) \in SUBSET (D \X D)
    BY DEF Alike
  <2>2. IsFiniteSet(D \X D) /\ Cardinality(D \X D) = n * n
    BY <1>1, FS_Product, ZenonT(60)
  <2>3. QED
    BY <2>1, <2>2, FS_Subset, FS_CardinalityType
<1>11. ASSUME NEW c \in C PROVE A[c] + B[c] - n <= g
  <2> DEFINE Ac == {i \in D : a[i] = c}
             Bc == {i \in D : b[i] = c}
  <2>1. Ac \in SUBSET D /\ Bc \in SUBSET D /\ Ac \union Bc \in SUBSET D
        /\ Ac \intersect Bc \in SUBSET Agreeing(x, y)
    BY <1>4
  <2>2. A[c] = Cardinality(Ac) /\ B[c] = Cardinality(Bc)
    BY <1>2, <1>8 DEF Times
  <2> HIDE DEF Ac, Bc, A, B, D
  <2>3. IsFiniteSet(Ac) /\ IsFiniteSet(Bc) /\ Cardinality(Ac \union Bc) <= n
    BY <1>1, <2>1, FS_Subset
  <2>4. Cardinality(Ac \intersect Bc) <= g /\ Cardinality(Ac \intersect Bc) \in Nat
    BY <1>9, <2>1, FS_Subset, FS_CardinalityType
  <2>5. Cardinality(Ac \union Bc)
          = Cardinality(Ac) + Cardinality(Bc) - Cardinality(Ac \intersect Bc)
    BY <2>3, FS_Union
  <2>6. A[c] \in Nat /\ B[c] \in Nat
    BY <1>8
  <2>7. QED
    BY <1>1, <1>9, <2>2, <2>3, <2>4, <2>5, <2>6
<1>12. 2 * e <= n * n + n * g
  <2>1. \A c \in C : A[c] >= 0 /\ B[c] >= 0
    BY <1>8
  <2>2. g \in Nat
    BY <1>9
  <2> HIDE DEF A, B, g, n, e
  <2>3. QED
    BY <1>1, <1>3, <1>7, <1>8, <1>11, <2>1, <2>2, ChanceIsBounded
<1>13. ASSUME ~ (n < 2), Cardinality(C) < 2 PROVE e = n * n
  <2>1. 1 \in D
    BY <1>1, <1>13
  <2>2. C = {a[1]}
    <3>1. Cardinality(C) \in Nat /\ C # {} /\ (Cardinality(C) = 0 <=> C = {})
      BY <1>3, <2>1, FS_CardinalityType, FS_EmptySet
    <3>2. Cardinality(C) = 1
      BY <1>13, <3>1
    <3>3. PICK c : C = {c}
      BY <1>3, <3>2, FS_Singleton
    <3>4. QED
      BY <1>3, <2>1, <3>3
  <2>3. \A i \in D, j \in D : a[i] = b[j]
    BY <1>3, <2>2
  <2>4. Alike(x, y) = D \X D
    BY <1>4, <2>3
  <2>5. QED
    BY <1>10, <2>4
<1>14. SumFunction(Products(A, B)) >= n * n <=> e = n * n
  <2>1. PICK q \in Int : q = n * n
    BY <1>1
  <2>2. e >= q <=> e = q
    <3> HIDE DEF e
    <3>1. QED
      BY <1>10, <2>1
  <2>3. QED
    BY <1>7, <2>1, <2>2
<1> HIDE DEF A, B, g, e, n, D
<1>15. CohenKappa(x, y) = IF n < 2 \/ e = n * n THEN NULL
                          ELSE Ratio(g * n - e, n * n - e)
  BY <1>6, <1>7, <1>13, <1>14
<1>16. QED
  BY <1>1, <1>9, <1>10, <1>12, <1>15 DEF n, D, g, e

(* Neither count depends on which rater is which.                          *)
LEMMA KappaIsSymmetric ==
    ASSUME NEW x \in Seq(Int), NEW y \in Seq(Int), Len(x) = Len(y)
    PROVE  /\ Agreeing(x, y) = Agreeing(y, x)
           /\ Cardinality(Alike(x, y)) = Cardinality(Alike(y, x))
<1> DEFINE S == Alike(x, y)
           T == Alike(y, x)
           turn == [ij \in S |-> <<ij[2], ij[1]>>]
<1>1. Agreeing(x, y) = Agreeing(y, x)
  BY DEF Agreeing
<1>2. IsFiniteSet(S)
  <2>1. Len(x) \in Nat /\ IsFiniteSet(1 .. Len(x))
    BY OneTo
  <2>2. IsFiniteSet((1 .. Len(x)) \X (1 .. Len(x)))
    BY <2>1, FS_Product
  <2>3. S \in SUBSET ((1 .. Len(x)) \X (1 .. Len(x)))
    BY DEF Alike
  <2>4. QED
    BY <2>2, <2>3, FS_Subset
<1>3. turn \in Surjection(S, T) /\ turn \in Injection(S, T)
  <2>1. \A ij \in S : <<ij[2], ij[1]>> \in T /\ ij = <<ij[1], ij[2]>>
    BY DEF Alike
  <2>2. \A ij \in T : <<ij[2], ij[1]>> \in S /\ ij = <<ij[1], ij[2]>>
    BY DEF Alike
  <2> HIDE DEF S, T
  <2>3. turn \in [S -> T]
    BY <2>1
  <2>4. \A ij \in T : turn[<<ij[2], ij[1]>>] = ij
    BY <2>2
  <2>5. turn \in Surjection(S, T)
    BY <2>2, <2>3, <2>4 DEF Surjection
  <2>6. \A p, q \in S : turn[p] = turn[q] => p = q
    BY <2>1
  <2>7. QED
    BY <2>3, <2>5, <2>6 DEF Injection, IsInjective
<1> HIDE DEF S, T, turn
<1>4. Cardinality(T) = Cardinality(S)
  BY <1>2, <1>3, FS_Surjection
<1>5. QED
  BY <1>1, <1>4 DEF S, T

(* CohenKappa is what KappaSound says, for any two samples of the same     *)
(* length: within -1 and 1, 1 just when the raters agree on every item,    *)
(* None just when there are too few or chance always agrees, and the same  *)
(* for both orders of the raters.                                          *)
THEOREM KappaIsAlwaysSound ==
    ASSUME NEW x \in Seq(Int), NEW y \in Seq(Int), Len(x) = Len(y)
    PROVE  KappaSound(x, y)
<1>1. PICK n \in Nat, g \in Nat, e \in Nat :
        /\ n = Len(x) /\ g = Cardinality(Agreeing(x, y)) /\ e = Cardinality(Alike(x, y))
        /\ g <= n /\ (g = n <=> Agreeing(x, y) = 1 .. n)
        /\ e <= n * n /\ 2 * e <= n * n + n * g
        /\ CohenKappa(x, y) = IF n < 2 \/ e = n * n THEN NULL
                              ELSE Ratio(g * n - e, n * n - e)
  BY KappaFormula, ZenonT(60)
<1>2. CohenKappa(y, x) = CohenKappa(x, y)
  <2>1. g = Cardinality(Agreeing(y, x)) /\ e = Cardinality(Alike(y, x)) /\ n = Len(y)
    BY <1>1, KappaIsSymmetric
  <2>2. CohenKappa(y, x) = IF n < 2 \/ e = n * n THEN NULL
                           ELSE Ratio(g * n - e, n * n - e)
    BY <2>1, KappaFormula
  <2>3. QED
    BY <1>1, <2>2
<1>3. SUFFICES
        /\ CohenKappa(x, y) = NULL <=> n < 2 \/ e = n * n
        /\ CohenKappa(x, y) # NULL =>
            /\ -CohenKappa(x, y)[2] <= CohenKappa(x, y)[1]
            /\ CohenKappa(x, y)[1] <= CohenKappa(x, y)[2]
            /\ CohenKappa(x, y)[1] = CohenKappa(x, y)[2] <=> Agreeing(x, y) = 1 .. n
            /\ CohenKappa(x, y)[1] * (n * n - e) = CohenKappa(x, y)[2] * (n * g - e)
  BY <1>1, <1>2 DEF KappaSound, Agreeing, Alike
<1>4. CASE n < 2 \/ e = n * n
  BY <1>1, <1>4
<1>5. CASE ~ (n < 2 \/ e = n * n)
  <2>1. PICK P \in Int, Q \in Nat \ {0}, m \in Int, k \in Int :
          /\ P = g * n - e /\ Q = n * n - e /\ m = n * n /\ k = n * g
    <3>1. PICK P \in Int, m \in Int, k \in Int :
            P = g * n - e /\ m = n * n /\ k = n * g
      OBVIOUS
    <3>2. e <= m /\ e # m
      BY <1>1, <1>5, <3>1
    <3>3. PICK Q \in Nat \ {0} : Q = m - e
      BY <3>2
    <3>4. Q = n * n - e
      BY <3>1, <3>3
    <3>5. QED
      BY <3>1, <3>4
  <2>2. PICK p \in Int, q \in Nat \ {0}, d \in Nat \ {0} :
          Ratio(P, Q) = <<p, q>> /\ P = p * d /\ Q = q * d
    BY RatioReduces, ZenonT(60)
  <2>3. CohenKappa(x, y) = <<p, q>> /\ <<p, q>> # NULL
    BY <1>1, <1>5, <2>1, <2>2 DEF NULL
  <2>4. P = k - e /\ Q = m - e /\ 2 * e <= m + k
    <3>1. g * n = n * g
      OBVIOUS
    <3>2. QED
      BY <1>1, <2>1, <3>1
  <2>5. k <= m /\ (k = m <=> g = n)
    <3>1. g * n <= n * n /\ g * n = n * g
      BY <1>1, ProductIsMonotone, SMTT(60)
    <3>2. n \in Nat \ {0} /\ (n * g = n * n => g = n)
      BY <1>5, CancelFactor
    <3>3. QED
      BY <2>1, <3>1, <3>2
  <2>6. -q <= p
    <3>1. d * (p + q) = P + Q
      BY <2>2
    <3>2. d * (p + q) >= 0 /\ p + q \in Int
      BY <2>4, <3>1, SMTT(60)
    <3>3. p + q >= 0
      BY <3>2, SignOfFactor
    <3>4. QED
      BY <3>3
  <2>7. p <= q
    <3>1. d * (q - p) = Q - P
      BY <2>2
    <3>2. d * (q - p) >= 0 /\ q - p \in Int
      BY <2>4, <2>5, <3>1
    <3>3. q - p >= 0
      BY <3>2, SignOfFactor
    <3>4. QED
      BY <3>3
  <2>8. p = q <=> g = n
    <3>1. p = q <=> P = Q
      <4>1. P = d * p /\ Q = d * q
        BY <2>2
      <4>2. QED
        BY <4>1, CancelFactor
    <3>2. QED
      BY <2>4, <2>5, <3>1
  <2>9. p * (n * n - e) = q * (n * g - e)
    <3>1. p * Q = q * P
      <4>1. p * (q * d) = q * (p * d)
        OBVIOUS
      <4>2. QED
        BY <2>2, <4>1
    <3>2. n * n - e = Q /\ n * g - e = P
      BY <2>1, <2>4
    <3>3. QED
      BY <3>1, <3>2
  <2>10. <<p, q>>[1] = p /\ <<p, q>>[2] = q
    OBVIOUS
  <2>11. QED
    BY <1>1, <1>5, <2>3, <2>6, <2>7, <2>8, <2>9, <2>10
<1>6. QED
  BY <1>4, <1>5

-----------------------------------------------------------------------------
(* Fleiss' kappa.                                                          *)

(* Rounding makes integers of integers.                                    *)
LEMMA RoundIsInteger ==
    ASSUME NEW q \in Int
    PROVE  Round(q) \in Int
<1>1. q \div 4 \in Int
  BY Z3
<1>2. QED
  BY <1>1 DEF Round

(* The categories of a row.                                                *)
LEMMA RoundedRow ==
    ASSUME NEW x \in Seq(Int)
    PROVE  /\ Rounded(x) \in Seq(Int) /\ Len(Rounded(x)) = Len(x)
           /\ Len(x) \in Nat /\ DOMAIN x = 1 .. Len(x)
           /\ DOMAIN Rounded(x) = 1 .. Len(x) /\ IsFiniteSet(1 .. Len(x))
           /\ Each(Round, x) = Rounded(x)
           /\ IsFiniteSet(Range(Rounded(x)))
           /\ \A i \in 1 .. Len(x) : Rounded(x)[i] \in Range(Rounded(x))
<1>1. Len(x) \in Nat /\ DOMAIN x = 1 .. Len(x) /\ IsFiniteSet(1 .. Len(x))
  BY OneTo
<1>2. \A i \in 1 .. Len(x) : Round(x[i]) \in Int
  BY <1>1, RoundIsInteger
<1>3. Rounded(x) \in [1 .. Len(x) -> Int] /\ Rounded(x) = [i \in DOMAIN x |-> Rounded(x)[i]]
  BY <1>1, <1>2 DEF Rounded
<1>4. Rounded(x) \in Seq(Int) /\ Len(Rounded(x)) = Len(x) /\ DOMAIN Rounded(x) = 1 .. Len(x)
  BY <1>1, <1>3
<1>5. Each(Round, x) = Rounded(x)
  BY DEF Each, Rounded
<1>6. IsFiniteSet(Range(Rounded(x))) /\ \A i \in 1 .. Len(x) : Rounded(x)[i] \in Range(Rounded(x))
  BY <1>1, <1>3, <1>4, FiniteRange
<1>7. QED
  BY <1>1, <1>4, <1>5, <1>6

(* Pairs of raters of one item that agree: at most all of them, and all    *)
(* just when the item has one category.                                    *)
AgreeingPairs(s, C) == SumFunction([c \in C |-> Times(s, c) * (Times(s, c) - 1)])

LEMMA PairsAreBounded ==
    ASSUME NEW n \in Nat \ {0}, NEW C, IsFiniteSet(C), NEW s,
           DOMAIN s = 1 .. n, \A i \in 1 .. n : s[i] \in C
    PROVE  /\ AgreeingPairs(s, C) \in Int
           /\ AgreeingPairs(s, C) <= (n - 1) * n
           /\ AgreeingPairs(s, C) = (n - 1) * n <=> Constant(s)
<1> DEFINE D == 1 .. n
           K == Counts(s, C)
           f == [c \in C |-> Times(s, c) * (Times(s, c) - 1)]
           g == [c \in C |-> (n - 1) * K[c] + 0 * K[c]]
           has(c) == {i \in D : s[i] = c}
<1>1. IsFiniteSet(D) /\ Cardinality(D) = n
  BY OneTo
<1>2. /\ Summable(K) /\ DOMAIN K = C /\ SumFunction(K) = n
      /\ \A c \in C : K[c] = Times(s, c) /\ Times(s, c) \in Nat
  BY <1>1, CountsAdd
<1>3. \A c \in C : /\ IsFiniteSet(has(c)) /\ Times(s, c) = Cardinality(has(c))
                   /\ Times(s, c) <= n
                   /\ Times(s, c) = n => has(c) = D
                   /\ Times(s, c) = 0 => has(c) = {}
  <2> TAKE c \in C
  <2>1. has(c) \in SUBSET D /\ Times(s, c) = Cardinality(has(c))
    BY DEF Times
  <2> HIDE DEF has, D
  <2>2. QED
    BY <1>1, <2>1, FS_Subset, FS_EmptySet
<1> HIDE DEF K
<1>4. PICK m \in Nat, zero \in Int : m = n - 1 /\ zero = 0
  OBVIOUS
<1>5. Summable(f) /\ DOMAIN f = C /\ Summable(g) /\ DOMAIN g = C
  <2>1. \A c \in C : Times(s, c) * (Times(s, c) - 1) \in Int
    BY <1>2
  <2>2. \A c \in C : (n - 1) * K[c] + 0 * K[c] \in Int
    BY <1>2
  <2>3. QED
    BY <2>1, <2>2 DEF Summable
<1>6. SumFunction(g) = m * n + zero * n
  <2>1. Combines(g, m, K, zero, K)
    BY <1>2, <1>4 DEF Combines
  <2> HIDE DEF g
  <2>2. QED
    BY <1>2, <1>5, <2>1, SumIsLinear
<1>7. \A c \in C : f[c] <= g[c] /\ (f[c] = g[c] <=> Times(s, c) = 0 \/ Times(s, c) = n)
  <2> TAKE c \in C
  <2>1. PICK t \in Nat : t = Times(s, c) /\ t = K[c] /\ t <= n
    BY <1>2, <1>3
  <2>2. f[c] = t * (t - 1) /\ g[c] = (n - 1) * t + 0 * t
    BY <2>1
  <2>3. (n - 1) * t + 0 * t - t * (t - 1) = (n - t) * t
    OBVIOUS
  <2>4. (n - t) * t >= 0 /\ ((n - t) * t = 0 <=> t = 0 \/ t = n)
    BY <2>1
  <2>5. PICK u \in Int, v \in Int, w \in Int :
          u = t * (t - 1) /\ v = (n - 1) * t + 0 * t /\ w = (n - t) * t
    OBVIOUS
  <2>6. v - u = w /\ w >= 0 /\ (w = 0 <=> t = 0 \/ t = n)
    BY <2>3, <2>4, <2>5
  <2>7. u <= v /\ (u = v <=> t = 0 \/ t = n)
    BY <2>6
  <2>8. QED
    BY <2>1, <2>2, <2>5, <2>7
<1>8. AgreeingPairs(s, C) = SumFunction(f)
  BY DEF AgreeingPairs
<1>9. f = [c \in C |-> f[c]] /\ g = [c \in C |-> g[c]]
  OBVIOUS
<1> HIDE DEF f, g
<1>10. SumFunction(f) \in Int /\ SumFunction(f) <= SumFunction(g)
       /\ (SumFunction(f) = SumFunction(g) => \A c \in C : f[c] = g[c])
  BY <1>5, <1>7, SumIsMonotone, SumIsInteger
<1>11. SumFunction(g) = (n - 1) * n
  <2>1. PICK p \in Int : p = (n - 1) * n
    OBVIOUS
  <2>2. m * n + zero * n = p
    BY <1>4, <2>1
  <2>3. QED
    BY <1>6, <2>1, <2>2
<1>12. ASSUME SumFunction(f) = SumFunction(g) PROVE Constant(s)
  <2>1. SUFFICES ASSUME NEW i \in D, NEW j \in D PROVE s[i] = s[j]
    BY DEF Constant
  <2>2. s[i] \in C /\ i \in has(s[i])
    OBVIOUS
  <2>3. Times(s, s[i]) = n
    BY <1>3, <1>7, <1>10, <1>12, <2>2
  <2>4. has(s[i]) = D
    BY <1>3, <2>2, <2>3
  <2>5. QED
    BY <2>4
<1>13. ASSUME Constant(s) PROVE SumFunction(f) = SumFunction(g)
  <2>1. ASSUME NEW c \in C PROVE Times(s, c) = 0 \/ Times(s, c) = n
    <3>1. CASE \E i \in D : s[i] = c
      <4>1. has(c) = D
        BY <1>13, <3>1 DEF Constant
      <4>2. QED
        BY <1>1, <1>3, <4>1
    <3>2. CASE ~ \E i \in D : s[i] = c
      <4>1. has(c) = {}
        BY <3>2
      <4>2. QED
        BY <1>3, <4>1, FS_EmptySet
    <3>3. QED
      BY <3>1, <3>2
  <2>2. f = g
    BY <1>7, <1>9, <2>1
  <2>3. QED
    BY <2>2
<1>14. QED
  BY <1>8, <1>10, <1>11, <1>12, <1>13

(* A matrix has the scores of the same number of raters for every item.    *)
Matrix(m) ==
    /\ m \in Seq(Seq(Int)) /\ m # <<>>
    /\ \A i \in DOMAIN m : Len(m[i]) = Len(m[1])

CategoriesOf(m) == UNION {Range(Rounded(m[i])) : i \in 1 .. Len(m)}
TotalsOf(m, C) == [c \in C |-> SumFunction([i \in 1 .. Len(m) |-> Times(Rounded(m[i]), c)])]
ObservedIn(m, C) == SumFunction([i \in 1 .. Len(m) |-> AgreeingPairs(Rounded(m[i]), C)])
ExpectedOf(m, C) == SumFunction(Products(TotalsOf(m, C), TotalsOf(m, C)))

(* The rows of a matrix.                                                   *)
LEMMA MatrixRows ==
    ASSUME NEW m, Matrix(m)
    PROVE  /\ Len(m) \in Nat \ {0} /\ DOMAIN m = 1 .. Len(m) /\ 1 \in 1 .. Len(m)
           /\ IsFiniteSet(1 .. Len(m)) /\ Cardinality(1 .. Len(m)) = Len(m)
           /\ Len(m[1]) \in Nat
           /\ \A i \in 1 .. Len(m) : m[i] \in Seq(Int) /\ Len(m[i]) = Len(m[1])
<1>1. m \in Seq(Seq(Int)) /\ m # <<>>
  BY DEF Matrix
<1>2. Len(m) \in Nat \ {0} /\ DOMAIN m = 1 .. Len(m) /\ 1 \in 1 .. Len(m)
  BY <1>1
<1>3. \A i \in 1 .. Len(m) : m[i] \in Seq(Int)
  BY <1>1
<1>4. Len(m[1]) \in Nat
  BY <1>2, <1>3
<1>5. QED
  BY <1>2, <1>3, <1>4, OneTo DEF Matrix

(* The categories of a matrix, each of which some rater has given.         *)
LEMMA CategoriesAreFinite ==
    ASSUME NEW m, Matrix(m)
    PROVE  /\ IsFiniteSet(CategoriesOf(m))
           /\ \A i \in 1 .. Len(m) : \A j \in 1 .. Len(m[1]) :
                Rounded(m[i])[j] \in CategoriesOf(m)
           /\ \A c \in CategoriesOf(m) : \E i \in 1 .. Len(m) : \E j \in 1 .. Len(m[1]) :
                Rounded(m[i])[j] = c
<1> DEFINE D == 1 .. Len(m)
           row == [i \in D |-> Range(Rounded(m[i]))]
           Rows == {Range(Rounded(m[i])) : i \in D}
<1>1. /\ IsFiniteSet(D) /\ \A i \in D : m[i] \in Seq(Int) /\ Len(m[i]) = Len(m[1])
  BY MatrixRows
<1>2. \A i \in D : /\ IsFiniteSet(Range(Rounded(m[i])))
                   /\ DOMAIN Rounded(m[i]) = 1 .. Len(m[1])
                   /\ \A j \in 1 .. Len(m[1]) : Rounded(m[i])[j] \in Range(Rounded(m[i]))
  BY <1>1, RoundedRow
<1>3. row \in Surjection(D, Rows)
  BY DEF Surjection
<1>4. IsFiniteSet(Rows) /\ \A T \in Rows : IsFiniteSet(T)
  <2>1. \A T \in Rows : IsFiniteSet(T)
    BY <1>2
  <2> HIDE DEF row, Rows
  <2>2. QED
    BY <1>1, <1>3, <2>1, FS_Surjection
<1>5. IsFiniteSet(UNION Rows)
  <2> HIDE DEF Rows
  <2>1. QED
    BY <1>4, FS_UNION
<1>6. CategoriesOf(m) = UNION Rows
  BY DEF CategoriesOf
<1>7. \A i \in D : \A j \in 1 .. Len(m[1]) : Rounded(m[i])[j] \in UNION Rows
  BY <1>2
<1>8. \A c \in UNION Rows : \E i \in D : \E j \in 1 .. Len(m[1]) : Rounded(m[i])[j] = c
  BY <1>2, ZenonT(60) DEF Range
<1>9. QED
  BY <1>5, <1>6, <1>7, <1>8

(* The formula of FleissKappa in these terms.                              *)
LEMMA FleissFormula ==
    ASSUME NEW m, Matrix(m)
    PROVE  LET items == Len(m)
               n == Len(m[1])
               C == CategoriesOf(m)
               E == ExpectedOf(m, C)
           IN  FleissKappa(m) =
                 IF items < 2 \/ n < 2 \/ Cardinality(C) < 2 \/ E >= items * n * items * n
                 THEN NULL
                 ELSE Ratio(ObservedIn(m, C) * items * n - E * (n - 1),
                            (n - 1) * (items * n * items * n - E))
<1> DEFINE rounded == [i \in 1 .. Len(m) |-> Each(Round, m[i])]
           C == CategoriesOf(m)
<1>1. \A i \in 1 .. Len(m) : rounded[i] = Rounded(m[i])
  BY DEF Each, Rounded
<1>2. UNION {Range(rounded[i]) : i \in 1 .. Len(m)} = C
  BY <1>1 DEF CategoriesOf
<1>3. ExpectedOf(m, C) =
        SumFunction([c \in C |-> SumFunction([i \in 1 .. Len(m) |-> Times(rounded[i], c)])
                                 * SumFunction([i \in 1 .. Len(m) |-> Times(rounded[i], c)])])
  <2>1. \A c \in C : [i \in 1 .. Len(m) |-> Times(rounded[i], c)]
                       = [i \in 1 .. Len(m) |-> Times(Rounded(m[i]), c)]
    BY <1>1
  <2>2. QED
    BY <2>1 DEF ExpectedOf, Products, TotalsOf
<1>4. ObservedIn(m, C) =
        SumFunction([i \in 1 .. Len(m) |->
                        SumFunction([c \in C |-> Times(rounded[i], c) * (Times(rounded[i], c) - 1)])])
  BY <1>1 DEF ObservedIn, AgreeingPairs
<1> HIDE DEF C
<1>5. QED
  BY <1>2, <1>3, <1>4 DEF FleissKappa, C

(* The totals of the categories: one for every score, at least one each.   *)
LEMMA TotalsAdd ==
    ASSUME NEW m, Matrix(m)
    PROVE  LET C == CategoriesOf(m)
               T == TotalsOf(m, C)
           IN  /\ Summable(T) /\ DOMAIN T = C
               /\ \A c \in C : T[c] >= 1
               /\ SumFunction(T) = Len(m[1]) * Len(m)
<1> DEFINE D == 1 .. Len(m)
           n == Len(m[1])
           C == CategoriesOf(m)
           T == TotalsOf(m, C)
           table == [i \in D |-> [c \in C |-> Times(Rounded(m[i]), c)]]
<1>1. /\ IsFiniteSet(D) /\ Cardinality(D) = Len(m) /\ Len(m) \in Nat /\ n \in Nat
      /\ \A i \in D : m[i] \in Seq(Int) /\ Len(m[i]) = n
  BY MatrixRows
<1>2. /\ IsFiniteSet(C)
      /\ \A i \in D : \A j \in 1 .. n : Rounded(m[i])[j] \in C
      /\ \A c \in C : \E i \in D : \E j \in 1 .. n : Rounded(m[i])[j] = c
  BY CategoriesAreFinite
<1>3. \A i \in D : DOMAIN Rounded(m[i]) = 1 .. n /\ IsFiniteSet(1 .. n) /\ Cardinality(1 .. n) = n
  BY <1>1, RoundedRow, OneTo
<1> HIDE DEF C, D, n
<1>4. \A i \in D : /\ \A c \in C : Times(Rounded(m[i]), c) \in Nat
                   /\ SumFunction([c \in C |-> Times(Rounded(m[i]), c)]) = n
  <2> TAKE i \in D
  <2>1. PICK s : s = Rounded(m[i])
    OBVIOUS
  <2>2. DOMAIN s = 1 .. n /\ IsFiniteSet(DOMAIN s) /\ Cardinality(DOMAIN s) = n
        /\ \A j \in DOMAIN s : s[j] \in C
    BY <1>2, <1>3, <2>1
  <2>3. QED
    BY <1>2, <2>1, <2>2, OccurrencesAdd
<1>5. table \in [D -> [C -> Int]]
  <2>1. \A i \in D : [c \in C |-> Times(Rounded(m[i]), c)] \in [C -> Int]
    <3> TAKE i \in D
    <3>1. \A c \in C : Times(Rounded(m[i]), c) \in Nat
      BY <1>4, Zenon
    <3>2. QED
      BY <3>1
  <2>2. QED
    BY <2>1
<1>6. \A i \in D, c \in C : table[i][c] = Times(Rounded(m[i]), c)
  OBVIOUS
<1>7. T = [c \in C |-> SumFunction([i \in D |-> table[i][c]])]
  BY DEF TotalsOf, D
<1>8. \A i \in D : [c \in C |-> table[i][c]] = [c \in C |-> Times(Rounded(m[i]), c)]
  OBVIOUS
<1> HIDE DEF table, T
<1>9. SumFunction(T) = n * Cardinality(D)
  <2>1. SumFunction(T) = SumFunction([i \in D |-> SumFunction([c \in C |-> table[i][c]])])
    <3>1. RowsFirst(D, C, table) = ColumnsFirst(D, C, table)
      BY <1>1, <1>2, <1>5, SumSwaps
    <3>2. QED
      BY <1>7, <3>1 DEF RowsFirst, ColumnsFirst
  <2>2. PICK f : f = [i \in D |-> SumFunction([c \in C |-> table[i][c]])]
    OBVIOUS
  <2>3. DOMAIN f = D /\ n \in Int /\ \A i \in DOMAIN f : f[i] = n
    BY <1>1, <1>4, <1>8, <2>2
  <2>4. Summable(f)
    BY <1>1, <2>3 DEF Summable
  <2>5. SumFunction(f) = n * Cardinality(DOMAIN f)
    BY <2>3, <2>4, SumOfConstant
  <2>6. QED
    BY <2>1, <2>2, <2>3, <2>5
<1>10. \A c \in C : T[c] \in Int /\ T[c] >= 1
  <2> TAKE c \in C
  <2>1. PICK f : f = [i \in D |-> table[i][c]]
    OBVIOUS
  <2>2. DOMAIN f = D /\ \A i \in D : f[i] = Times(Rounded(m[i]), c) /\ f[i] \in Nat
    BY <1>4, <1>6, <2>1
  <2>3. Summable(f) /\ \A i \in DOMAIN f : f[i] >= 0
    BY <1>1, <2>2 DEF Summable
  <2>4. PICK i \in D, j \in 1 .. n : Rounded(m[i])[j] = c
    BY <1>2
  <2>5. f[i] # 0
    <3> DEFINE S == {k \in DOMAIN Rounded(m[i]) : Rounded(m[i])[k] = c}
    <3>1. S \in SUBSET (1 .. n) /\ j \in S
      BY <1>3, <2>4
    <3>2. IsFiniteSet(1 .. n) /\ Times(Rounded(m[i]), c) = Cardinality(S)
      BY <1>3 DEF Times
    <3> HIDE DEF S
    <3>3. IsFiniteSet(S) /\ S # {}
      BY <3>1, <3>2, FS_Subset
    <3>4. Cardinality(S) # 0
      BY <3>3, FS_EmptySet
    <3>5. QED
      BY <2>2, <3>2, <3>4
  <2>6. f[i] <= SumFunction(f) /\ SumFunction(f) \in Int
    BY <2>2, <2>3, SumOfSome, SumIsInteger
  <2>7. T[c] = SumFunction(f)
    BY <1>7, <2>1
  <2>8. QED
    BY <2>2, <2>5, <2>6, <2>7
<1>11. DOMAIN T = C /\ Summable(T)
  BY <1>2, <1>7, <1>10 DEF Summable
<1>12. QED
  BY <1>1, <1>9, <1>10, <1>11 DEF T, C, n

(* With two categories or more chance does not always agree: the last test *)
(* of fleiss_kappa (p_bar_e >= 1.0) never holds.                           *)
LEMMA ChanceIsNotAll ==
    ASSUME NEW m, Matrix(m), Cardinality(CategoriesOf(m)) >= 2
    PROVE  LET E == ExpectedOf(m, CategoriesOf(m))
               M == Len(m[1]) * Len(m)
           IN  E \in Int /\ M \in Nat \ {0} /\ E < M * M
<1> DEFINE C == CategoriesOf(m)
           T == TotalsOf(m, C)
           w == Products(T, T)
<1>1. IsFiniteSet(C)
  BY CategoriesAreFinite
<1>2. Summable(T) /\ DOMAIN T = C /\ \A c \in C : T[c] \in Int /\ T[c] >= 1
  BY TotalsAdd DEF Summable
<1>3. Summable(w) /\ DOMAIN w = C /\ \A c \in C : w[c] = T[c] * T[c]
  BY <1>2, ProductsSummable
<1>4. PICK M \in Int : M = Len(m[1]) * Len(m) /\ SumFunction(T) = M
  BY MatrixRows, TotalsAdd
<1>5. ExpectedOf(m, C) = SumFunction(w)
  BY DEF ExpectedOf
<1> HIDE DEF T, w
<1>6. C # {} /\ \A c \in C : \E d \in C : d # c
  <2>1. C # {}
    BY FS_EmptySet
  <2>2. \A c \in C : C # {c}
    BY FS_Singleton
  <2> HIDE DEF C
  <2>3. QED
    BY <2>1, <2>2
<1>7. \A c \in C : T[c] <= M - 1
  <2> TAKE c \in C
  <2>1. PICK d \in C : d # c
    BY <1>6
  <2>2. \A x \in C : T[x] >= 0
    BY <1>2
  <2>3. T[c] + T[d] <= M
    BY <1>2, <1>4, <2>1, <2>2, SumOfSome
  <2>4. QED
    BY <1>2, <1>4, <2>3
<1>8. M >= 2
  <2>1. PICK c \in C : TRUE
    BY <1>6
  <2>2. T[c] \in Int /\ T[c] >= 1 /\ T[c] <= M - 1
    BY <1>2, <1>7
  <2>3. QED
    BY <1>4, <2>2
<1>9. PICK k \in Nat, zero \in Int : k = M - 1 /\ zero = 0
  BY <1>8
<1> DEFINE h == [c \in C |-> k * T[c] + zero * T[c]]
<1>10. Summable(h) /\ DOMAIN h = C
  BY <1>1, <1>2 DEF Summable
<1>11. Combines(h, k, T, zero, T)
  BY <1>2 DEF Combines
<1>12. \A c \in C : w[c] <= h[c]
  <2> TAKE c \in C
  <2>1. PICK t \in Nat : t = T[c] /\ t <= k
    BY <1>2, <1>7, <1>9
  <2>2. w[c] = t * t /\ h[c] = k * t + zero * t
    BY <1>3, <2>1
  <2>3. t * t <= k * t /\ zero * t = 0
    BY <1>9, <2>1, ProductIsMonotone
  <2>4. QED
    BY <2>2, <2>3
<1> HIDE DEF h
<1>13. SumFunction(h) = k * M + zero * M
  BY <1>2, <1>4, <1>10, <1>11, SumIsLinear
<1>14. SumFunction(w) \in Int /\ SumFunction(w) <= SumFunction(h)
  BY <1>3, <1>10, <1>12, SumIsMonotone, SumIsInteger
<1>15. PICK e \in Int, p \in Int : e = SumFunction(w) /\ p = M * M
  BY <1>14
<1>16. k * M + zero * M = p - M
  BY <1>9, <1>15
<1>17. e < p
  BY <1>8, <1>13, <1>14, <1>15, <1>16
<1>18. QED
  BY <1>4, <1>5, <1>8, <1>15, <1>17

Unanimous(m) == \A i \in DOMAIN m : Cardinality(Range(Each(Round, m[i]))) = 1

(* All pairs of raters agree just when every row is unanimous.             *)
LEMMA ObservedIsBounded ==
    ASSUME NEW m, Matrix(m), Len(m[1]) >= 1
    PROVE  LET O == ObservedIn(m, CategoriesOf(m))
               most == ((Len(m[1]) - 1) * Len(m[1])) * Len(m)
           IN  O \in Int /\ O <= most /\ (O = most <=> Unanimous(m))
<1> DEFINE D == 1 .. Len(m)
           n == Len(m[1])
           C == CategoriesOf(m)
           f == [i \in D |-> AgreeingPairs(Rounded(m[i]), C)]
<1>1. /\ IsFiniteSet(D) /\ Cardinality(D) = Len(m) /\ DOMAIN m = D
      /\ n \in Nat \ {0} /\ \A i \in D : m[i] \in Seq(Int) /\ Len(m[i]) = n
  BY MatrixRows
<1>2. IsFiniteSet(C) /\ \A i \in D : \A j \in 1 .. n : Rounded(m[i])[j] \in C
  BY CategoriesAreFinite
<1>3. \A i \in D : /\ Rounded(m[i]) \in Seq(Int) /\ Len(Rounded(m[i])) = n
                   /\ DOMAIN Rounded(m[i]) = 1 .. n
                   /\ Each(Round, m[i]) = Rounded(m[i])
  BY <1>1, RoundedRow
<1> HIDE DEF C, D, n
<1>4. PICK k \in Int : k = (n - 1) * n
  BY <1>1
<1> DEFINE g == [i \in D |-> k]
<1>5. \A i \in D : /\ f[i] \in Int /\ f[i] <= g[i]
                   /\ f[i] = g[i] <=> Constant(Rounded(m[i]))
  <2> TAKE i \in D
  <2>1. PICK s : s = Rounded(m[i])
    OBVIOUS
  <2>2. DOMAIN s = 1 .. n /\ \A j \in 1 .. n : s[j] \in C
    BY <1>2, <1>3, <2>1
  <2>3. /\ AgreeingPairs(s, C) \in Int
        /\ AgreeingPairs(s, C) <= (n - 1) * n
        /\ AgreeingPairs(s, C) = (n - 1) * n <=> Constant(s)
    BY <1>1, <1>2, <2>2, PairsAreBounded
  <2>4. QED
    BY <1>4, <2>1, <2>3
<1>6. /\ Summable(f) /\ Summable(g) /\ DOMAIN f = D /\ DOMAIN g = D
      /\ \A i \in D : g[i] = k
  BY <1>1, <1>5 DEF Summable
<1>7. f = [i \in D |-> f[i]] /\ g = [i \in D |-> g[i]]
  OBVIOUS
<1>8. ObservedIn(m, C) = SumFunction(f)
  BY DEF ObservedIn, D
<1> HIDE DEF f, g
<1>9. SumFunction(g) = k * Len(m)
  BY <1>1, <1>6, SumOfConstant
<1>10. /\ SumFunction(f) \in Int /\ SumFunction(f) <= SumFunction(g)
       /\ SumFunction(f) = SumFunction(g) => \A i \in D : f[i] = g[i]
  BY <1>5, <1>6, SumIsMonotone, SumIsInteger
<1>11. (\A i \in D : f[i] = g[i]) => SumFunction(f) = SumFunction(g)
  BY <1>7
<1>12. Unanimous(m) <=> \A i \in D : Constant(Rounded(m[i]))
  <2>1. \A i \in D : Cardinality(Range(Rounded(m[i]))) = 1 <=> Constant(Rounded(m[i]))
    <3> TAKE i \in D
    <3>1. Rounded(m[i]) \in Seq(Int) /\ Len(Rounded(m[i])) >= 1
      BY <1>1, <1>3
    <3>2. QED
      BY <3>1, ConstantRange
  <2>2. QED
    BY <1>1, <1>3, <2>1 DEF Unanimous
<1>13. SumFunction(f) = SumFunction(g) <=> Unanimous(m)
  BY <1>5, <1>10, <1>11, <1>12
<1>14. QED
  BY <1>4, <1>8, <1>9, <1>10, <1>13 DEF n, C

(* What is 1 and what is more, of FleissKappa's fraction.                  *)
LEMMA FleissIsBounded ==
    ASSUME NEW m, Matrix(m)
    PROVE  LET k == FleissKappa(m)
           IN  /\ k = NULL <=> \/ Len(m) < 2 \/ Len(m[1]) < 2
                               \/ Cardinality(CategoriesOf(m)) = 1
               /\ k # NULL => k[1] <= k[2] /\ (k[1] = k[2] <=> Unanimous(m))
<1> DEFINE C == CategoriesOf(m)
<1>1. PICK N \in Nat, n \in Nat : N = Len(m) /\ n = Len(m[1])
  BY MatrixRows
<1>2. PICK E, O : E = ExpectedOf(m, C) /\ O = ObservedIn(m, C)
  OBVIOUS
<1>3. FleissKappa(m) =
        IF N < 2 \/ n < 2 \/ Cardinality(C) < 2 \/ E >= N * n * N * n THEN NULL
        ELSE Ratio(O * N * n - E * (n - 1), (n - 1) * (N * n * N * n - E))
  BY <1>1, <1>2, FleissFormula
<1>4. ASSUME ~ (N < 2 \/ n < 2) PROVE Cardinality(C) \in Nat \ {0}
  <2>1. Rounded(m[1])[1] \in C
    <3>1. 1 \in 1 .. Len(m) /\ 1 \in 1 .. Len(m[1])
      BY <1>1, <1>4
    <3>2. QED
      BY <3>1, CategoriesAreFinite
  <2>2. IsFiniteSet(C)
    BY CategoriesAreFinite
  <2> HIDE DEF C
  <2>3. QED
    BY <2>1, <2>2, FS_CardinalityType, FS_EmptySet
<1>5. CASE N < 2 \/ n < 2 \/ Cardinality(C) < 2
  BY <1>1, <1>3, <1>4, <1>5
<1>6. CASE ~ (N < 2 \/ n < 2 \/ Cardinality(C) < 2)
  <2>1. Cardinality(C) >= 2
    BY <1>4, <1>6
  <2>2. PICK M \in Nat \ {0} : M = n * N /\ E \in Int /\ E < M * M
    BY <1>1, <1>2, <2>1, ChanceIsNotAll
  <2>3. PICK j \in Nat \ {0} : j = n - 1
    BY <1>6
  <2>4. O \in Int /\ O <= (j * n) * N /\ (O = (j * n) * N <=> Unanimous(m))
    <3>1. Len(m[1]) >= 1
      BY <1>1, <1>6
    <3>2. QED
      BY <1>1, <1>2, <2>3, <3>1, ObservedIsBounded
  <2>5. (j * n) * N = j * M
    BY <2>2
  <2>6. O <= j * M /\ (O = j * M <=> Unanimous(m))
    BY <2>4, <2>5
  <2>7. PICK P \in Int, Q \in Int :
          P = O * N * n - E * (n - 1) /\ Q = (n - 1) * (N * n * N * n - E)
    BY <2>2, <2>4
  <2>8. P = O * M - E * j /\ Q = (j * M) * M - E * j
    <3>1. O * N * n = O * (n * N) /\ j * (N * n * N * n - E) = (j * (n * N)) * (n * N) - E * j
      BY <2>2, <2>4
    <3>2. QED
      BY <2>2, <2>3, <2>7, <3>1
  <2>9. Q \in Nat \ {0}
    <3>1. PICK s \in Int : s = M * M
      OBVIOUS
    <3>2. j * (s - E) > 0
      BY <2>2, <3>1
    <3>3. j * (s - E) = j * s - E * j /\ j * s = (j * M) * M
      BY <2>2, <3>1
    <3>4. QED
      BY <2>7, <2>8, <3>1, <3>2, <3>3
  <2>10. P <= Q /\ (P = Q <=> Unanimous(m))
    <3>1. PICK p \in Int, q \in Int, e \in Int, t \in Int :
            p = O * M /\ q = t * M /\ e = E * j /\ t = j * M
      BY <2>2, <2>4
    <3>2. p <= q
      BY <2>4, <2>6, <3>1, ProductIsMonotone
    <3>3. p = q <=> O = t
      <4>1. p = M * O /\ q = M * t
        BY <2>4, <3>1
      <4>2. QED
        BY <2>4, <4>1, CancelFactor
    <3>4. P = p - e /\ Q = q - e
      BY <2>8, <3>1
    <3>5. P <= Q /\ (P = Q <=> p = q)
      BY <3>2, <3>4
    <3>6. QED
      BY <2>6, <3>1, <3>3, <3>5
  <2>11. PICK p \in Int, q \in Nat \ {0}, d \in Nat \ {0} :
           Ratio(P, Q) = <<p, q>> /\ P = p * d /\ Q = q * d
    BY <2>9, RatioReduces, ZenonT(60)
  <2>12. FleissKappa(m) = <<p, q>> /\ <<p, q>> # NULL
    <3>1. ~ (E >= N * n * N * n)
      <4>1. PICK s \in Int : s = M * M
        OBVIOUS
      <4>2. N * n * N * n = s
        BY <2>2, <4>1
      <4>3. QED
        BY <2>2, <4>1, <4>2
    <3>2. FleissKappa(m) = <<p, q>>
      BY <1>3, <1>6, <2>7, <2>11, <3>1
    <3>3. QED
      BY <3>2 DEF NULL
  <2>13. p <= q
    <3>1. d * (q - p) = Q - P
      BY <2>11
    <3>2. d * (q - p) >= 0 /\ q - p \in Int
      BY <2>10, <3>1
    <3>3. q - p >= 0
      BY <3>2, SignOfFactor
    <3>4. QED
      BY <3>3
  <2>14. p = q <=> P = Q
    <3>1. P = d * p /\ Q = d * q
      BY <2>11
    <3>2. QED
      BY <3>1, CancelFactor
  <2>15. <<p, q>>[1] = p /\ <<p, q>>[2] = q
    OBVIOUS
  <2>16. ~ (Cardinality(C) = 1)
    BY <2>1
  <2>17. QED
    BY <1>1, <1>6, <2>10, <2>12, <2>13, <2>14, <2>15, <2>16
<1>7. QED
  BY <1>5, <1>6

(* An order of the elements of a finite set.                               *)
LEMMA InjectionIsOnto ==
    ASSUME NEW D, IsFiniteSet(D), NEW p \in [D -> D], IsInjective(p)
    PROVE  p \in Bijection(D, D)
<1>1. p \in Injection(D, D)
  BY DEF Injection
<1>2. p \in Surjection(D, D)
  BY <1>1, FS_Injection
<1>3. QED
  BY <1>1, <1>2 DEF Bijection

(* The rows in another order.                                              *)
LEMMA RowsReorder ==
    ASSUME NEW m, Matrix(m), NEW p \in Bijection(DOMAIN m, DOMAIN m),
           NEW other, other = [i \in DOMAIN m |-> m[p[i]]]
    PROVE  FleissKappa(other) = FleissKappa(m)
<1> DEFINE D == 1 .. Len(m)
           n == Len(m[1])
           C == CategoriesOf(m)
<1>1. /\ Len(m) \in Nat \ {0} /\ DOMAIN m = D /\ 1 \in D /\ IsFiniteSet(D) /\ n \in Nat
      /\ \A i \in D : m[i] \in Seq(Int) /\ Len(m[i]) = n
  BY MatrixRows
<1>2. /\ p \in Bijection(D, D)
      /\ \A i \in D : p[i] \in D
      /\ \A j \in D : \E i \in D : p[i] = j
  BY <1>1 DEF Bijection, Injection, Surjection
<1>3. other = [i \in D |-> m[p[i]]]
  BY <1>1
<1>4. /\ \A i \in D : other[i] = m[p[i]] /\ other[i] \in Seq(Int) /\ Len(other[i]) = n
      /\ DOMAIN other = D
  <2> HIDE DEF D, n
  <2>1. DOMAIN other = D /\ \A i \in D : other[i] = m[p[i]]
    BY <1>3
  <2>2. QED
    BY <1>1, <1>2, <2>1
<1>5. other \in Seq(Seq(Int)) /\ Len(other) = Len(m) /\ other # <<>>
  <2>1. other \in [D -> Seq(Int)]
    <3> HIDE DEF D
    <3>1. QED
      BY <1>3, <1>4
  <2>2. QED
    BY <1>1, <2>1
<1>6. Matrix(other) /\ Len(other[1]) = n
  BY <1>1, <1>4, <1>5 DEF Matrix
<1>7. CategoriesOf(other) = C
  <2>1. {Range(Rounded(other[i])) : i \in D} = {Range(Rounded(m[i])) : i \in D}
    <3> HIDE DEF D
    <3>1. QED
      BY <1>2, <1>4
  <2>2. QED
    BY <1>5, <2>1 DEF CategoriesOf
<1> HIDE DEF C, D, n
<1>8. ASSUME NEW c \in C
      PROVE  SumFunction([i \in D |-> Times(Rounded(other[i]), c)])
               = SumFunction([i \in D |-> Times(Rounded(m[i]), c)])
  <2>1. PICK f : f = [i \in D |-> Times(Rounded(m[i]), c)]
    OBVIOUS
  <2>2. Summable(f) /\ DOMAIN f = D
    <3>1. \A i \in D : Times(Rounded(m[i]), c) \in Int
      <4> TAKE i \in D
      <4>1. IsFiniteSet(DOMAIN Rounded(m[i]))
        BY <1>1, RoundedRow
      <4>2. {j \in DOMAIN Rounded(m[i]) : Rounded(m[i])[j] = c} \in SUBSET DOMAIN Rounded(m[i])
        OBVIOUS
      <4>3. Times(Rounded(m[i]), c) \in Nat
        BY <4>1, <4>2, FS_Subset, FS_CardinalityType DEF Times
      <4>4. QED
        BY <4>3
    <3>2. QED
      BY <1>1, <2>1, <3>1 DEF Summable
  <2>3. [i \in D |-> Times(Rounded(other[i]), c)] = Renamed(f, p)
    BY <1>2, <1>4, <2>1 DEF Renamed, Bijection, Injection
  <2>4. SumFunction(Renamed(f, p)) = SumFunction(f)
    BY <1>1, <1>2, <2>2, SumOfRenamed
  <2>5. QED
    BY <2>1, <2>3, <2>4
<1>9. TotalsOf(other, C) = TotalsOf(m, C)
  BY <1>5, <1>8 DEF TotalsOf, D
<1>10. ObservedIn(other, C) = ObservedIn(m, C)
  <2>1. PICK f : f = [i \in D |-> AgreeingPairs(Rounded(m[i]), C)]
    OBVIOUS
  <2>2. Summable(f) /\ DOMAIN f = D
    <3>1. \A i \in D : AgreeingPairs(Rounded(m[i]), C) \in Int
      <4> TAKE i \in D
      <4>1. PICK s : s = Rounded(m[i])
        OBVIOUS
      <4>2. DOMAIN s = 1 .. n
        BY <1>1, <4>1, RoundedRow
      <4>3. IsFiniteSet(C) /\ \A j \in 1 .. n : s[j] \in C
        BY <4>1, CategoriesAreFinite DEF C, D, n
      <4>4. \A c \in C : Times(s, c) \in Nat
        BY <1>1, <4>2, <4>3, OccurrencesAdd, OneTo
      <4>5. Summable([c \in C |-> Times(s, c) * (Times(s, c) - 1)])
        <5>1. \A c \in C : Times(s, c) * (Times(s, c) - 1) \in Int
          BY <4>4
        <5>2. QED
          BY <4>3, <5>1 DEF Summable
      <4>6. QED
        BY <4>1, <4>5, SumIsInteger DEF AgreeingPairs
    <3>2. QED
      BY <1>1, <2>1, <3>1 DEF Summable
  <2>3. [i \in D |-> AgreeingPairs(Rounded(other[i]), C)] = Renamed(f, p)
    BY <1>2, <1>4, <2>1 DEF Renamed, Bijection, Injection
  <2>4. SumFunction(Renamed(f, p)) = SumFunction(f)
    BY <1>1, <1>2, <2>2, SumOfRenamed
  <2>5. QED
    BY <1>5, <2>1, <2>3, <2>4 DEF ObservedIn, D
<1>11. ExpectedOf(other, C) = ExpectedOf(m, C)
  BY <1>9 DEF ExpectedOf
<1>12. QED
  BY <1>5, <1>6, <1>7, <1>10, <1>11, FleissFormula DEF n, C

(* Another row with the same scores in it.                                 *)
LEMMA RowChanges ==
    ASSUME NEW m, Matrix(m), NEW p \in Bijection(DOMAIN m[1], DOMAIN m[1]),
           NEW row, row = [j \in DOMAIN m[1] |-> m[1][p[j]]]
    PROVE  FleissKappa([m EXCEPT ![1] = row]) = FleissKappa(m)
<1> DEFINE D == 1 .. Len(m)
           n == Len(m[1])
           C == CategoriesOf(m)
           other == [m EXCEPT ![1] = row]
           I == 1 .. n
<1>1. /\ Len(m) \in Nat \ {0} /\ DOMAIN m = D /\ 1 \in D /\ IsFiniteSet(D) /\ n \in Nat
      /\ \A i \in D : m[i] \in Seq(Int) /\ Len(m[i]) = n
  BY MatrixRows
<1>2. DOMAIN m[1] = I /\ IsFiniteSet(I) /\ \A j \in I : m[1][j] \in Int
  BY <1>1, OneTo
<1>3. /\ p \in Bijection(I, I)
      /\ \A j \in I : p[j] \in I
      /\ \A j, k \in I : p[j] = p[k] => j = k
      /\ \A k \in I : \E j \in I : p[j] = k
  BY <1>2 DEF Bijection, Injection, Surjection, IsInjective
<1>4. row = [j \in I |-> m[1][p[j]]]
  BY <1>2
<1>5. row \in Seq(Int) /\ Len(row) = n
  <2>1. row \in [I -> Int]
    <3> HIDE DEF I
    <3>1. QED
      BY <1>2, <1>3, <1>4
  <2>2. PICK k \in Nat : k = n
    BY <1>1
  <2>3. row \in [1 .. k -> Int]
    BY <2>1, <2>2
  <2>4. row \in Seq(Int) /\ Len(row) = k
    BY <2>3
  <2>5. QED
    BY <2>2, <2>4
<1>6. /\ other \in Seq(Seq(Int)) /\ Len(other) = Len(m) /\ other # <<>> /\ DOMAIN other = D
      /\ other[1] = row /\ \A i \in D : i # 1 => other[i] = m[i]
  BY <1>1, <1>5 DEF Matrix
<1> HIDE DEF other
<1>7. Matrix(other) /\ Len(other[1]) = n
  BY <1>1, <1>5, <1>6 DEF Matrix
<1> DEFINE s == Rounded(m[1])
           t == Rounded(row)
<1>8. /\ DOMAIN s = I /\ DOMAIN t = I
      /\ \A j \in I : t[j] = s[p[j]]
  <2> HIDE DEF I
  <2>1. QED
    BY <1>2, <1>3, <1>4 DEF Rounded
<1> HIDE DEF C, D, n, s, t, I
<1>9. Range(t) = Range(s)
  BY <1>3, <1>8 DEF Range
<1>10. ASSUME NEW c PROVE Times(t, c) = Times(s, c)
  <2> DEFINE T == {j \in I : t[j] = c}
             S == {j \in I : s[j] = c}
             q == [j \in T |-> p[j]]
  <2>1. IsFiniteSet(T)
    <3>1. T \in SUBSET I
      OBVIOUS
    <3>2. QED
      BY <1>2, <3>1, FS_Subset
  <2>2. q \in Surjection(T, S) /\ q \in Injection(T, S)
    BY <1>3, <1>8 DEF Surjection, Injection, IsInjective
  <2>3. Times(t, c) = Cardinality(T) /\ Times(s, c) = Cardinality(S)
    BY <1>8 DEF Times
  <2> HIDE DEF T, S, q
  <2>4. Cardinality(S) = Cardinality(T)
    BY <2>1, <2>2, FS_Surjection
  <2>5. QED
    BY <2>3, <2>4
<1>11. \A i \in D : /\ Range(Rounded(other[i])) = Range(Rounded(m[i]))
                    /\ \A c : Times(Rounded(other[i]), c) = Times(Rounded(m[i]), c)
  <2> TAKE i \in D
  <2>1. CASE i = 1
    BY <1>6, <1>9, <1>10, <2>1 DEF s, t
  <2>2. CASE i # 1
    BY <1>6, <2>2
  <2>3. QED
    BY <2>1, <2>2
<1>12. CategoriesOf(other) = C
  BY <1>6, <1>11 DEF CategoriesOf, C, D
<1>13. TotalsOf(other, C) = TotalsOf(m, C)
  <2>1. \A c \in C : [i \in D |-> Times(Rounded(other[i]), c)]
                       = [i \in D |-> Times(Rounded(m[i]), c)]
    BY <1>11
  <2>2. QED
    BY <1>6, <2>1, ZenonT(60) DEF TotalsOf, D
<1>14. ObservedIn(other, C) = ObservedIn(m, C)
  <2>1. \A i \in D : AgreeingPairs(Rounded(other[i]), C) = AgreeingPairs(Rounded(m[i]), C)
    BY <1>11 DEF AgreeingPairs
  <2>2. QED
    BY <1>6, <2>1 DEF ObservedIn, D
<1>15. ExpectedOf(other, C) = ExpectedOf(m, C)
  BY <1>13 DEF ExpectedOf
<1>16. FleissKappa(other) = FleissKappa(m)
  BY <1>6, <1>7, <1>12, <1>14, <1>15, FleissFormula DEF n, C
<1>17. QED
  BY <1>16 DEF other

(* FleissKappa is what FleissSound says, for any matrix: at most 1, and 1  *)
(* just when every item is unanimous, None just when there are too few or  *)
(* all scores are one category, and the same for the items, and the raters *)
(* of an item, in any order.                                               *)
THEOREM FleissIsAlwaysSound ==
    ASSUME NEW m, Matrix(m)
    PROVE  FleissSound(m)
<1>1. /\ DOMAIN m = 1 .. Len(m) /\ IsFiniteSet(DOMAIN m)
      /\ \A i \in DOMAIN m : m[i] \in Seq(Int)
      /\ DOMAIN m[1] = 1 .. Len(m[1]) /\ IsFiniteSet(DOMAIN m[1])
  <2>1. /\ DOMAIN m = 1 .. Len(m) /\ IsFiniteSet(1 .. Len(m)) /\ 1 \in 1 .. Len(m)
        /\ \A i \in 1 .. Len(m) : m[i] \in Seq(Int)
    BY MatrixRows
  <2>2. DOMAIN m[1] = 1 .. Len(m[1]) /\ IsFiniteSet(1 .. Len(m[1]))
    BY <2>1, RoundedRow
  <2>3. QED
    BY <2>1, <2>2
<1>2. UNION {Range(Each(Round, m[i])) : i \in DOMAIN m} = CategoriesOf(m)
  <2>1. \A i \in DOMAIN m : Each(Round, m[i]) = Rounded(m[i])
    BY <1>1, RoundedRow
  <2>2. QED
    BY <1>1, <2>1 DEF CategoriesOf
<1>3. ASSUME NEW other \in Reorderings(m) PROVE FleissKappa(other) = FleissKappa(m)
  <2>1. PICK p \in [DOMAIN m -> DOMAIN m] :
          IsInjective(p) /\ other = [i \in DOMAIN m |-> m[p[i]]]
    BY DEF Reorderings
  <2>2. p \in Bijection(DOMAIN m, DOMAIN m)
    BY <1>1, <2>1, InjectionIsOnto
  <2>3. QED
    BY <2>1, <2>2, RowsReorder
<1>4. ASSUME NEW row \in Reorderings(m[1])
      PROVE  FleissKappa([m EXCEPT ![1] = row]) = FleissKappa(m)
  <2>1. PICK p \in [DOMAIN m[1] -> DOMAIN m[1]] :
          IsInjective(p) /\ row = [i \in DOMAIN m[1] |-> m[1][p[i]]]
    BY DEF Reorderings
  <2>2. p \in Bijection(DOMAIN m[1], DOMAIN m[1])
    BY <1>1, <2>1, InjectionIsOnto
  <2>3. QED
    BY <2>1, <2>2, RowChanges
<1>5. /\ FleissKappa(m) = NULL <=> \/ Len(m) < 2 \/ Len(m[1]) < 2
                                   \/ Cardinality(CategoriesOf(m)) = 1
      /\ FleissKappa(m) # NULL => /\ FleissKappa(m)[1] <= FleissKappa(m)[2]
                                  /\ FleissKappa(m)[1] = FleissKappa(m)[2] <=> Unanimous(m)
  BY FleissIsBounded
<1>6. QED
  BY <1>2, <1>3, <1>4, <1>5 DEF FleissSound, Unanimous

(* The agreement statistics of any samples and matrices are sound: the     *)
(* ranks, both correlations, kappa and Fleiss' kappa (AgreementIsSound).   *)
THEOREM AgreementIsAlwaysSound == Calculating => []AgreementIsSound
<1>1. ASSUME input \in TwoRaters
      PROVE  /\ RanksSound(input.x)
             /\ KappaSound(input.x, input.y)
             /\ CorrelationSound(input.x, input.y, PearsonR)
             /\ CorrelationSound(input.x, input.y, SpearmanR)
  <2>1. input.x \in Seq(Int) /\ input.y \in Seq(Int) /\ Len(input.x) = Len(input.y)
    BY <1>1, CalculationsAssumption DEF TwoRaters
  <2>2. RanksSound(input.x)
    BY <2>1, RanksAreFractional
  <2>3. KappaSound(input.x, input.y)
    BY <2>1, KappaIsAlwaysSound
  <2>4. /\ CorrelationSound(input.x, input.y, PearsonR)
        /\ CorrelationSound(input.x, input.y, SpearmanR)
    BY <2>1, CorrelationsAreSound
  <2>5. QED
    BY <2>2, <2>3, <2>4
<1>2. ASSUME input \in SeveralRaters PROVE FleissSound(input.ratings)
  <2>1. Matrix(input.ratings)
    BY <1>2, CalculationsAssumption DEF Matrix, SeveralRaters
  <2>2. QED
    BY <2>1, FleissIsAlwaysSound
<1>3. AgreementIsSound
  BY <1>1, <1>2 DEF AgreementIsSound
<1>4. QED
  BY <1>3, PTL

=============================================================================
