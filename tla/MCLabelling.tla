---------------------------- MODULE MCLabelling ----------------------------
(* Small instances of the labelling endpoints for TLC.                     *)
EXTENDS Labelling

MCJudgeScores == [rec \in Records |-> IF rec = "r1" THEN 3 ELSE 0]
MCLengths == [rec \in Records |-> IF rec = "r1" THEN 40 ELSE 10]
DefaultWeights == [low_confidence |-> 6, drift_outlier |-> 4]

\* By default r1 comes first, when its judge score is known; by length alone
\* the records are equal and come in either order.
ByLength == [DefaultWeights EXCEPT !.low_confidence = 0]
OneRecord == {[weights |-> DefaultWeights, size |-> 1]}
TwoRecords == {[weights |-> w, size |-> 2] : w \in {DefaultWeights, ByLength}}

OneQueued == {{"r1"}}
AllOrNone == {{}, Records}
=============================================================================
