---------------------------- MODULE QueueRanking ----------------------------
(***************************************************************************)
(* How POST /v1/queue/refresh ranks its candidates (routes/queue.py): each *)
(* strategy gives the records it knows a priority, a record keeps its best *)
(* one, and the best queue_size records are queued.                        *)
(*                                                                         *)
(* Scores are counted in quarters and weights in tenths; a priority is     *)
(* counted in 1/40000.  tanh is taken from a table in thousandths.         *)
(***************************************************************************)
EXTENDS Integers, Sequences, FiniteSets, SequencesExt, FiniteSetsExt, Functions

Stats == INSTANCE AgreementStats

\* 1000 * tanh(n / 6) for n = 0, 1, ...
TanhTable == <<0, 165, 322, 462, 583, 682, 762, 823, 870, 905, 931, 950, 964>>
Tanh(n) == IF n + 1 <= Len(TanhTable) THEN TanhTable[n + 1] ELSE 1000

(* Four times the distance: twice that from 1/2 on the scale 0 to 1 and    *)
(* beyond all scales, twice that from the nearest integer from 1 to 5.     *)
DistanceFromDecisionBoundary(score) ==
    IF 4 < score /\ score <= 20
    THEN Min({4, 2 * Stats!Abs(score - 4 * Stats!Round(score))})
    ELSE 2 * Stats!Abs(score - 2)

(* Twice the median.  The k-th smallest value has fewer than k below it    *)
(* and k or more not above it.                                             *)
Smallest(values, k) ==
    CHOOSE v \in Range(values) :
        /\ Cardinality({i \in DOMAIN values : values[i] < v}) < k
        /\ k <= Cardinality({i \in DOMAIN values : values[i] <= v})
Median(values) ==
    LET n == Cardinality(DOMAIN values)
    IN  Smallest(values, (n + 1) \div 2) + Smallest(values, n \div 2 + 1)

\* Both in quarters: a spread of less than one character counts as one.
AtLeastOne(mad) == Max({4, mad})

LowConfidence(judge, weight) ==
    [rec \in DOMAIN judge |-> weight * 1000 * (4 - DistanceFromDecisionBoundary(judge[rec]))]

(* z is the distance from the median length in median distances.           *)
DriftOutlier(lengths, weight) ==
    LET median == Median(lengths)
        deviation == [rec \in DOMAIN lengths |-> Stats!Abs(2 * lengths[rec] - median)]
        mad == AtLeastOne(Median(deviation))
    IN  [rec \in DOMAIN lengths |-> 4 * weight * Tanh((4 * deviation[rec]) \div mad)]

(* A record keeps the strategy with the highest priority.                  *)
BugLastStrategy(acc, strategy, priority) ==
    [rec \in DOMAIN acc \union DOMAIN priority |->
        IF rec \in DOMAIN priority THEN [strategy |-> strategy, priority |-> priority[rec]]
        ELSE acc[rec]]
Accumulate(acc, strategy, priority) ==
    [rec \in DOMAIN acc \union DOMAIN priority |->
        IF /\ rec \in DOMAIN priority
           /\ rec \in DOMAIN acc => priority[rec] > acc[rec].priority
        THEN [strategy |-> strategy, priority |-> priority[rec]]
        ELSE acc[rec]]

(* by_record_priority: a strategy without a positive weight is not used.   *)
ByRecordPriority(judge, lengths, weights) ==
    LET low == IF weights.low_confidence > 0
               THEN Accumulate(<<>>, "low_confidence",
                               LowConfidence(judge, weights.low_confidence))
               ELSE <<>>
    IN  IF weights.drift_outlier > 0 /\ DOMAIN lengths # {}
        THEN Accumulate(low, "drift_outlier", DriftOutlier(lengths, weights.drift_outlier))
        ELSE low

(* The first n by priority; equal ones in the order they were added.       *)
Ranked(entries, order, n) ==
    LET place(rec) == CHOOSE i \in DOMAIN order : order[i] = rec
        before(a, b) == \/ entries[a].priority > entries[b].priority
                        \/ entries[a].priority = entries[b].priority /\ place(a) < place(b)
    IN  {rec \in DOMAIN entries :
            Cardinality({other \in DOMAIN entries : before(other, rec)}) < n}

\* The orders in which the taken records can be added to the queue.
BestFirst(entries, taken) ==
    {s \in SetToSeqs(taken) :
        \A i, j \in DOMAIN s : i <= j => entries[s[i]].priority >= entries[s[j]].priority}

-----------------------------------------------------------------------------
(* Whatever the order of equal priorities, the queue is filled as far as   *)
(* it goes, an entry has the best priority that a strategy gives its       *)
(* record, and no record left out has a better one than a record taken.    *)
RanksBest(judge, lengths, weights, n) ==
    LET entries == ByRecordPriority(judge, lengths, weights)
        low == IF weights.low_confidence > 0
               THEN LowConfidence(judge, weights.low_confidence) ELSE <<>>
        drift == IF weights.drift_outlier > 0 /\ DOMAIN lengths # {}
                 THEN DriftOutlier(lengths, weights.drift_outlier) ELSE <<>>
        offers(rec) == {f[rec] : f \in {f \in {low, drift} : rec \in DOMAIN f}}
    IN  /\ DOMAIN entries = DOMAIN low \union DOMAIN drift
        /\ \A rec \in DOMAIN entries : entries[rec].priority = Max(offers(rec))
        /\ \A order \in SetToSeqs(DOMAIN entries) :
            LET taken == Ranked(entries, order, n)
            IN  /\ Cardinality(taken) = Min({n, Cardinality(DOMAIN entries)})
                /\ \A a \in taken, b \in DOMAIN entries \ taken :
                       entries[a].priority >= entries[b].priority

(* A strategy gives a record between none and all of its weight: for any   *)
(* score on the scales 0 to 1 and 1 to 5, and for any length.  Of two      *)
(* lengths the farther from the median never gets less.  Which scores are  *)
(* near a threshold is not said: there the code of                         *)
(* _distance_from_decision_boundary differs from its docstring (README).   *)
StrategiesShare(judge, lengths) ==
    /\ \A rec \in DOMAIN judge :
        judge[rec] \in 0 .. 20 => LowConfidence(judge, 1)[rec] \in 0 .. 4000
    /\ \A rec \in DOMAIN lengths : DriftOutlier(lengths, 1)[rec] \in 0 .. 4000
    /\ \A a, b \in DOMAIN lengths :
        Stats!Abs(2 * lengths[a] - Median(lengths)) <= Stats!Abs(2 * lengths[b] - Median(lengths)) =>
            DriftOutlier(lengths, 1)[a] <= DriftOutlier(lengths, 1)[b]

=============================================================================
