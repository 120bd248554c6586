--------------------------- MODULE MCJudgeRecord ---------------------------
(* Small instances of the judging of a record for TLC.                     *)
EXTENDS JudgeRecord

MCFamily == [m \in Models |-> CASE m = "claude" -> "anthropic" [] m = "gpt" -> "openai"
                               [] m = "own" -> "unknown"]
MCPrice == [m \in Models |-> CASE m = "claude" -> 3 [] m = "gpt" -> 2 [] m = "own" -> 0]

Singles == [pairwise : {FALSE}, complete : BOOLEAN, pair : {FALSE}, lo : {-1, 1, 3},
              hi : {1, 3, 5}, penalty : {-1, 0, 2}, primary : {"claude", "own"},
              fallback : {"gpt", None}, generator : {"anthropic", "openai"}]
Pairs  == [pairwise : {TRUE}, complete : BOOLEAN, pair : BOOLEAN, lo : {0}, hi : {1},
              penalty : {-1, 0, 2}, primary : {"claude", "own"},
              fallback : {"claude", "gpt", None},
              generator : {"anthropic", "openai", "unknown"}]
MCJobs == {j \in Singles \union Pairs : j.hi > j.lo => Unit % (j.hi - j.lo) = 0}
Prose  == {j \in Pairs : j.complete /\ j.pair /\ j.penalty = 0 /\ j.fallback = None}

(* No number; numbers below, on and above the scales; two score lines; a   *)
(* tail of two numbers, as in "4 out of 5".                                *)
MCRatings == [lines : {<<>>, <<0>>, <<3>>, <<2, 4>>, <<9>>}, tail : {<<>>, <<4, 5>>},
              means : {"rating"}]

(* Verdict lines, one of them revised; tails of the verdict alone and of   *)
(* prose, where an article "a" comes before what the judge means.          *)
Line(words, verdict) == [lines |-> words, tail |-> <<"A", "B">>, means |-> verdict]
Ending(words, verdict) == [lines |-> <<>>, tail |-> words, means |-> verdict]
MCOpinions ==
    {Line(<<v>>, v) : v \in Verdicts}
    \union {Line(<<"B", "A">>, "A"), Line(<<"maybe">>, "tie"), Silent}
    \union {Ending(<<v>>, v) : v \in Verdicts}
    \union {Ending(<<>>, "tie"), Ending(<<"A", "tie">>, "tie"), Ending(<<"A", "B">>, "B")}
=============================================================================
