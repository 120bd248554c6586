-------------------------- MODULE MCLabellingAlone --------------------------
(* One client; and the calculations behind its requests on small inputs,   *)
(* each of them worked out before the first request.                       *)
EXTENDS MCLabelling, Calculations

\* Scores in quarters: 0, 1, and 1/2 and 1 1/2, which round() rounds to even.
MCSamples == UNION {[1 .. n -> {0, 2, 4, 6}] : n \in 0 .. 3}
MCMatrices == UNION {[1 .. k -> [1 .. n -> {0, 4, 6}]] : k \in 1 .. 3, n \in 1 .. 2}
              \union [1 .. 2 -> [1 .. 3 -> {0, 4}]]

Judged == {"r1", "r2", "r3"}
MCJudgements == UNION {[judged -> {1, 2, 6}] : judged \in SUBSET Judged}
MCLengthTables == [Judged -> {0, 3, 12}]
MCWeightTables == {DefaultWeights, [DefaultWeights EXCEPT !.low_confidence = 0],
                   [DefaultWeights EXCEPT !.drift_outlier = 0]}
MCQueueSizes == 1 .. 2

Empty == [x |-> <<>>, y |-> <<>>]
MCInit == Init /\ input \in Inputs
MCNext == Next /\ input' = Empty
MCSpec == MCInit /\ [][MCNext]_<<vars, input>>
=============================================================================
