--------------------------- MODULE AgreementStats ---------------------------
(***************************************************************************)
(* The agreement statistics of metrics/agreement.py and the snapshot that  *)
(* _recompute_agreement (routes/labels.py) makes of them.                  *)
(*                                                                         *)
(* Scores are counted in quarters, so that all sums are exact where the    *)
(* code has floats.  A statistic is a reduced fraction <<p, q>>; a         *)
(* correlation is its sign and its square; NULL is Python's None.          *)
(***************************************************************************)
EXTENDS Integers, Sequences, FiniteSets, SequencesExt, FiniteSetsExt, Functions

NULL == <<>>

Divides(d, n) == n % d = 0
Abs(n) == IF n < 0 THEN -n ELSE n
Ratio(p, q) ==
    LET g == CHOOSE d \in 1 .. q :
                /\ Divides(d, q) /\ Divides(d, Abs(p))
                /\ \A e \in d + 1 .. q : ~ (Divides(e, q) /\ Divides(e, Abs(p)))
    IN  <<IF p < 0 THEN -((-p) \div g) ELSE p \div g, q \div g>>

Each(Op(_), s) == [i \in DOMAIN s |-> Op(s[i])]
Times(s, x) == Cardinality({i \in DOMAIN s : s[i] = x})

(* round() of a score: to the nearest integer, halves to the even one.     *)
Round(q) ==
    LET low == q \div 4
    IN  IF q % 4 < 2 \/ (q % 4 = 2 /\ low % 2 = 0) THEN low ELSE low + 1

-----------------------------------------------------------------------------
(* Agreement of two raters beyond chance.                                  *)
CohenKappa(rater_a, rater_b) ==
    LET n == Len(rater_a)
        a == Each(Round, rater_a)
        b == Each(Round, rater_b)
        categories == Range(a) \union Range(b)
        agree == Cardinality({i \in 1 .. n : a[i] = b[i]})
        expected == SumFunction([c \in categories |-> Times(a, c) * Times(b, c)])
    IN  IF n < 2 \/ Cardinality(categories) < 2 \/ expected >= n * n THEN NULL
        ELSE Ratio(agree * n - expected, n * n - expected)

(* Agreement of several raters on several items; a rating is a row.        *)
FleissKappa(ratings) ==
    LET items == Len(ratings)
        n == Len(ratings[1])
        rounded == [i \in 1 .. items |-> Each(Round, ratings[i])]
        categories == UNION {Range(rounded[i]) : i \in 1 .. items}
        count(i, c) == Times(rounded[i], c)
        total(c) == SumFunction([i \in 1 .. items |-> count(i, c)])
        expected == SumFunction([c \in categories |-> total(c) * total(c)])
        agreeing(i) == SumFunction([c \in categories |-> count(i, c) * (count(i, c) - 1)])
        observed == SumFunction([i \in 1 .. items |-> agreeing(i)])
    IN  IF items < 2 THEN NULL
        ELSE IF n < 2 \/ Cardinality(categories) < 2 THEN NULL
        ELSE IF expected >= items * n * items * n THEN NULL
        ELSE Ratio(observed * items * n - expected * (n - 1),
                   (n - 1) * (items * n * items * n - expected))

PearsonR(xs, ys) ==
    LET n == Len(xs)
        product(u, v) == n * SumFunction([i \in 1 .. n |-> u[i] * v[i]])
                         - SumFunction(u) * SumFunction(v)
        num == product(xs, ys)
        square == product(xs, xs) * product(ys, ys)
    IN  IF n < 2 THEN NULL
        ELSE IF square = 0 THEN NULL
        ELSE <<IF num < 0 THEN -1 ELSE 1>> \o Ratio(num * num, square)

\* A group of equal values ends with the last of the sorted list.
BugNeverTied(at, k, n) == n = k
Tied(at, k, n) == at[n] = at[k]

(* sorted(range(n), key=...): the k-th index, equal values in their order. *)
Indexed(values) ==
    LET before(u, v) == values[u] < values[v] \/ (values[u] = values[v] /\ u < v)
    IN  [k \in DOMAIN values |->
            CHOOSE u \in DOMAIN values :
                Cardinality({v \in DOMAIN values : before(v, u)}) = k - 1]

(* The loop of _fractional_ranks: every place of the sorted list is in a   *)
(* group i .. j of equal values.                                           *)
GroupStart(at) ==
    LET i[k \in DOMAIN at] == IF k > 1 /\ Tied(at, k, k - 1) THEN i[k - 1] ELSE k IN i
GroupEnd(at) ==
    LET j[k \in DOMAIN at] == IF k < Len(at) /\ Tied(at, k, k + 1) THEN j[k + 1] ELSE k IN j

(* Twice the rank of every value, which is (i + j) / 2 in its group.       *)
FractionalRanks(values) ==
    LET indexed == Indexed(values)
        at == [k \in DOMAIN values |-> values[indexed[k]]]
    IN  [m \in DOMAIN values |->
            LET k == CHOOSE k \in DOMAIN values : indexed[k] = m
            IN  GroupStart(at)[k] + GroupEnd(at)[k]]

SpearmanR(xs, ys) ==
    IF Len(xs) < 2 THEN NULL ELSE PearsonR(FractionalRanks(xs), FractionalRanks(ys))

-----------------------------------------------------------------------------
(* The columns of agreement_metrics for label rows [record, user, score],  *)
(* in the order the SELECT returns them, and the judge's latest scores.    *)

Pairs(rows, judge) == SelectSeq(rows, LAMBDA r : r.record \in DOMAIN judge)

ByRecord(rows, record) ==
    Each(LAMBDA r : r.score, SelectSeq(rows, LAMBDA r : r.record = record))

(* Records with two human scores or more, cut to the same number of them.  *)
Trimmed(rows) ==
    LET several == {r.record : r \in {r \in Range(rows) : Len(ByRecord(rows, r.record)) >= 2}}
        n_raters == Min({Len(ByRecord(rows, record)) : record \in several})
    IN  Each(LAMBDA record : SubSeq(ByRecord(rows, record), 1, n_raters), SetToSeq(several))

Snapshot(rows, judge) ==
    LET pairs == Pairs(rows, judge)
        xs == Each(LAMBDA r : judge[r.record], pairs)
        ys == Each(LAMBDA r : r.score, pairs)
    IN  [n_labels     |-> Len(rows),
         cohen_kappa  |-> CohenKappa(xs, ys),
         pearson_r    |-> PearsonR(xs, ys),
         spearman_r   |-> SpearmanR(xs, ys),
         fleiss_kappa |-> IF Len(Trimmed(rows)) >= 2 THEN FleissKappa(Trimmed(rows)) ELSE NULL]

-----------------------------------------------------------------------------
(* What the statistics mean, defined without their formulas.               *)

Reorderings(s) ==
    {[i \in DOMAIN s |-> s[p[i]]] : p \in {p \in [DOMAIN s -> DOMAIN s] : IsInjective(p)}}

(* Kappa compares how often two scores of ONE item agree with how often    *)
(* any two do: 1 just when all items agree, at least -1, the same for both *)
(* orders of the raters, and undefined just when all scores are the same   *)
(* category or there are too few.                                          *)
KappaSound(x, y) ==
    LET n == Len(x)
        k == CohenKappa(x, y)
        same == {i \in 1 .. n : Round(x[i]) = Round(y[i])}
        alike == {ij \in (1 .. n) \X (1 .. n) : Round(x[ij[1]]) = Round(y[ij[2]])}
    IN  /\ k = NULL <=> n < 2 \/ Cardinality(alike) = n * n
        /\ k = CohenKappa(y, x)
        /\ k # NULL =>
            /\ -k[2] <= k[1] /\ k[1] <= k[2]
            /\ k[1] = k[2] <=> same = 1 .. n
            /\ k[1] * (n * n - Cardinality(alike))
                 = k[2] * (n * Cardinality(same) - Cardinality(alike))

(* A rank is one more than the number of smaller values, and half a rank   *)
(* more for every other value equal to it; correlations lie within 1, are  *)
(* undefined just when one side is constant, and do not depend on which    *)
(* side is which.                                                          *)
RanksSound(x) ==
    \A m \in DOMAIN x :
        FractionalRanks(x)[m] = 2 * Cardinality({l \in DOMAIN x : x[l] < x[m]})
                                + Times(x, x[m]) + 1
CorrelationSound(x, y, Corr(_, _)) ==
    LET r == Corr(x, y)
    IN  /\ r = NULL <=> \/ Len(x) < 2
                        \/ Cardinality(Range(x)) = 1 \/ Cardinality(Range(y)) = 1
        /\ r # NULL => r[2] <= r[3] /\ (x = y => r = <<1, 1, 1>>)
        /\ r = Corr(y, x)

(* Several raters: 1 just when every row is unanimous, and the same for    *)
(* rows, and raters within them, in any order: with equal numbers of       *)
(* raters nothing depends on how the rows come out of the table.           *)
FleissSound(ratings) ==
    LET k == FleissKappa(ratings)
        unanimous == \A i \in DOMAIN ratings :
                        Cardinality(Range(Each(Round, ratings[i]))) = 1
    IN  /\ k # NULL => k[1] <= k[2] /\ (k[1] = k[2] <=> unanimous)
        /\ k = NULL <=> \/ Len(ratings) < 2 \/ Len(ratings[1]) < 2
                        \/ Cardinality(UNION {Range(Each(Round, ratings[i])) :
                                                  i \in DOMAIN ratings}) = 1
        /\ \A other \in Reorderings(ratings) : FleissKappa(other) = k
        /\ \A row \in Reorderings(ratings[1]) : FleissKappa([ratings EXCEPT ![1] = row]) = k

=============================================================================
