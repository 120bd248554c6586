---------------------------- MODULE Calculations ----------------------------
(***************************************************************************)
(* The calculations behind the labelling requests, one after another, on   *)
(* the inputs that the constants name: samples of two raters, matrices of  *)
(* several raters, and candidates of a refresh.                            *)
(***************************************************************************)
EXTENDS QueueRanking, AgreementStats

CONSTANTS
    Samples,        \* sequences of scores in quarters, each the scores of one rater
    Matrices,       \* ratings of the same number of raters for every item
    Judgements,     \* the judge's scores of the records it has judged
    LengthTables,   \* the lengths of the inputs of the candidates
    WeightTables,   \* the weights of the strategies, in tenths
    QueueSizes

IntegerTable(f) == IsFiniteSet(DOMAIN f) /\ \A rec \in DOMAIN f : f[rec] \in Int

ASSUME CalculationsAssumption ==
    /\ \A x \in Samples : x \in Seq(Int)
    /\ \A m \in Matrices :
        /\ m \in Seq(Seq(Int)) /\ m # <<>>
        /\ \A i \in DOMAIN m : Len(m[i]) = Len(m[1])
    /\ \A f \in Judgements \union LengthTables : IntegerTable(f)
    /\ \A w \in WeightTables : w.low_confidence \in Int /\ w.drift_outlier \in Int
    /\ \A n \in QueueSizes : n \in Nat

VARIABLE input      \* what is calculated with

TwoRaters == {in \in [x : Samples, y : Samples] : Len(in.x) = Len(in.y)}
SeveralRaters == [ratings : Matrices]
RefreshInputs == [judge : Judgements, lengths : LengthTables, weights : WeightTables,
                  size : QueueSizes]
Inputs == TwoRaters \union SeveralRaters \union RefreshInputs

Calculating == input \in Inputs /\ [][input' \in Inputs]_input

(* The statistics of a snapshot mean what their names say: kappa, Fleiss'  *)
(* kappa over rows in any order, the correlations and their ranks with     *)
(* ties (metrics/agreement.py).                                            *)
AgreementIsSound ==
    /\ input \in TwoRaters =>
        /\ RanksSound(input.x)
        /\ KappaSound(input.x, input.y)
        /\ CorrelationSound(input.x, input.y, PearsonR)
        /\ CorrelationSound(input.x, input.y, SpearmanR)
    /\ input \in SeveralRaters => FleissSound(input.ratings)

(* A refresh queues the best of its candidates, whatever they were scored, *)
(* however long they are and however equal ones come out of the tables,    *)
(* and its strategies are blended by their weights: none counts for more,  *)
(* or against a record (refresh_queue of routes/queue.py).                 *)
RankingIsSound ==
    input \in RefreshInputs =>
        /\ StrategiesShare(input.judge, input.lengths)
        /\ RanksBest(input.judge, input.lengths, input.weights, input.size)
=============================================================================
