---------------------------- MODULE JudgeRecord ----------------------------
(***************************************************************************)
(* How one record is judged: EvalConsumer._process from the moment it has  *)
(* loaded the record to the row it hands to ClickHouse, with the scoring   *)
(* strategies, the judge router, the parser, the length control and the    *)
(* bias guard it calls.  EvalRun sees no more of it than whether the row   *)
(* is clean, flagged or an error.                                          *)
(*                                                                         *)
(* A pairwise metric asks twice, with the outputs in swapped slots, and    *)
(* each of the two questions may be answered by the primary model or by    *)
(* the fallback.  A text is what its parser tells apart: the tokens of its *)
(* score or verdict lines, the tokens of the tail that is read without     *)
(* such a line, and what the judge meant.  A score is a number of Units.   *)
(***************************************************************************)
EXTENDS Integers, Sequences, SequencesExt, FiniteSetsExt

CONSTANTS
    Jobs,      \* metrics and records, see JobType
    Models,    \* the judge models
    Family,    \* Family[m]: the family of a model, or "unknown"
    Price,     \* Price[m]: what an answer of a model costs, 0 if unknown
    Ratings,   \* replies to a pointwise prompt: their tokens are numbers
    Opinions,  \* replies to a pairwise prompt: "A", "B", "tie" and other words
    Unit,      \* the score 1.0
    None       \* no fallback, no consistency, no row

Verdicts == {"A", "B", "tie"}
Families == {Family[m] : m \in Models} \union {"unknown"}
JobType  == [pairwise  : BOOLEAN,
             complete  : BOOLEAN,     \* the record has every variable of the template
             pair      : BOOLEAN,     \* ... and output_a and output_b
             lo        : Int,         \* the scale; the IR orders it no further
             hi        : Int,
             penalty   : Int,         \* penalty_per_100_tokens * tokens / 100
             primary   : Models,
             fallback  : Models \union {None},
             generator : Families]

(* What ClickHouse takes.  Scores and costs are numbers of units.          *)
Errors == {"", "parse_error", "judge_error"}
Rows   == [error : Errors, score : Int, label : Verdicts \union {None},
           consistency : {0, 1, None}, model : Models \union {None}, cost : Nat,
           fallback : BOOLEAN, warning : BOOLEAN]

\* An empty text is an error.
Silent == [lines |-> <<>>, tail |-> <<>>, means |-> "nothing"]

ASSUME JudgeAssumption ==
    /\ Jobs \subseteq JobType
    /\ None \notin Models
    /\ Price \in [Models -> Nat]
    /\ Unit \in Nat \ {0}
    /\ Unit % 2 = 0
    /\ \A j \in Jobs : j.hi > j.lo => Unit % (j.hi - j.lo) = 0
    /\ \A r \in Ratings : r.lines \in Seq(Nat) /\ r.tail \in Seq(Nat)
    /\ \A o \in Opinions : /\ o.lines \in Seq(STRING) /\ o.tail \in Seq(STRING)
                           /\ o.means \in Verdicts \/ o = Silent
    /\ None \notin Rows

VARIABLES
    job,      \* the metric and the record
    stage,    \* what the handler does next
    calls,    \* the answers of the judge, one per pass: who gave it, and the reply
    row       \* the row for ClickHouse

vars == <<job, stage, calls, row>>

\* The definitions named Bug... are not part of the specification: each is the
\* definition after it with a plausible slip, which a property must catch.

Passes(j) == IF j.pairwise THEN 2 ELSE 1

Init ==
    /\ job \in Jobs
    /\ stage = "rendering"
    /\ calls = <<>>
    /\ row = None

-----------------------------------------------------------------------------
(* Parsing                                                                 *)

(* The last score or verdict line counts; without one, the tail is read,   *)
(* from its beginning.                                                     *)
BugFirstLine(reply) == IF reply.lines # <<>> THEN <<Head(reply.lines)>> ELSE reply.tail
Told(reply) == IF reply.lines # <<>> THEN <<Last(reply.lines)>> ELSE reply.tail

HasRating(reply) == Told(reply) # <<>>
Rating(reply) == Head(Told(reply))

\* A text without a known word is a tie.
Opinion(reply) ==
    LET known == {i \in DOMAIN Told(reply) : Told(reply)[i] \in Verdicts}
    IN  IF known = {} THEN "tie" ELSE Told(reply)[Min(known)]

Swapped(verdict) == CASE verdict = "A" -> "B" [] verdict = "B" -> "A" [] verdict = "tie" -> "tie"

\* The second verdict names slots: an A there is the original B.
BugTieDefers(v1, v2) ==
    IF v2 = "tie" \/ v1 = Swapped(v2) THEN v1 ELSE "tie"
Combined(v1, v2) == IF v1 = Swapped(v2) THEN v1 ELSE "tie"
Consistency(v1, v2)        == IF Combined(v1, v2) = "tie" THEN 0 ELSE 1

-----------------------------------------------------------------------------
(* Scores                                                                  *)

Clamped(n, lo, hi) == Max({lo, Min({hi, n})})

\* A scale of one value has no scores but 0, and neither has a reversed one,
\* whose clamp returns its lower end.
BugOutsideIsZero(raw, lo, hi) ==
    IF raw \notin lo .. hi \/ hi = lo THEN 0 ELSE ((raw - lo) * Unit) \div (hi - lo)
Normalized(raw, lo, hi) ==
    IF hi <= lo THEN 0 ELSE ((Clamped(raw, lo, hi) - lo) * Unit) \div (hi - lo)

ScoreOf(verdict) == CASE verdict = "A" -> Unit [] verdict = "B" -> 0
                      [] verdict = "tie" -> Unit \div 2

BugPenaltyOnly(score, penalty) == Max({0, score - penalty})
Penalized(score, penalty) == Clamped(score - penalty, 0, Unit)

-----------------------------------------------------------------------------
(* Judging                                                                 *)

\* What is left of a handler whose try block raised: no cost, no judge.
ErrorRow == [error |-> "judge_error", score |-> 0, label |-> None, consistency |-> None,
             model |-> None, cost |-> 0, fallback |-> FALSE, warning |-> FALSE]

Raise ==
    /\ row' = ErrorRow
    /\ stage' = "done"
    /\ UNCHANGED calls

\* Both prompts are rendered before the first call.
Renderable == job.complete /\ (job.pairwise => job.pair)

Render ==
    /\ stage = "rendering"
    /\ IF Renderable THEN stage' = "asking" /\ UNCHANGED <<calls, row>> ELSE Raise
    /\ UNCHANGED job

Replies == IF job.pairwise THEN Opinions ELSE Ratings

Answered(model, byFallback) ==
    /\ \E reply \in Replies :
          calls' = Append(calls, [model |-> model, fallback |-> byFallback, reply |-> reply])
    /\ stage' = IF Len(calls) + 1 < Passes(job) THEN "asking" ELSE "scoring"
    /\ UNCHANGED row

(* The primary model answers, or fails: litellm retries once, and gives up *)
(* after the timeout.                                                      *)
Ask ==
    /\ stage = "asking"
    /\ \/ Answered(job.primary, FALSE)
       \/ job.fallback = None /\ Raise
       \/ /\ job.fallback # None
          /\ stage' = "falling back"
          /\ UNCHANGED <<calls, row>>
    /\ UNCHANGED job

AskFallback ==
    /\ stage = "falling back"
    /\ Answered(job.fallback, TRUE) \/ Raise
    /\ UNCHANGED job

Warning ==
    LET family == Family[calls[1].model]
    IN  family # "unknown" /\ family = job.generator

Cost == IF job.pairwise THEN Price[calls[1].model] + Price[calls[2].model]
        ELSE Price[calls[1].model]

BugFirstFallback == calls[1].fallback
FallbackUsed == \E i \in DOMAIN calls : calls[i].fallback

(* A reply that cannot be parsed flags the row and still scores it: 0, or  *)
(* for a pair a tie.                                                       *)
PointwiseOutcome ==
    LET reply == calls[1].reply
    IN  [error |-> IF HasRating(reply) THEN "" ELSE "parse_error",
         score |-> IF HasRating(reply) THEN Normalized(Rating(reply), job.lo, job.hi) ELSE 0,
         label |-> None,
         consistency |-> None]

PairwiseOutcome ==
    LET v1 == Opinion(calls[1].reply)
        v2 == Opinion(calls[2].reply)
    IN  IF Silent \in {calls[1].reply, calls[2].reply}
        THEN [error |-> "parse_error", score |-> Unit \div 2, label |-> "tie", consistency |-> 0]
        ELSE [error |-> "", score |-> ScoreOf(Combined(v1, v2)),
              label |-> Combined(v1, v2), consistency |-> Consistency(v1, v2)]

JudgedRow ==
    LET outcome == IF job.pairwise THEN PairwiseOutcome ELSE PointwiseOutcome
    IN  [error |-> outcome.error,
         score |-> Penalized(outcome.score, job.penalty),
         label |-> outcome.label,
         consistency |-> outcome.consistency,
         model |-> calls[1].model,
         cost |-> Cost,
         fallback |-> FallbackUsed,
         warning |-> Warning]

Score ==
    /\ stage = "scoring"
    /\ row' = JudgedRow
    /\ stage' = "done"
    /\ UNCHANGED <<job, calls>>

Next == Render \/ Ask \/ AskFallback \/ Score

Spec == Init /\ [][Next]_vars

-----------------------------------------------------------------------------
(* Properties                                                              *)

TypeOK ==
    /\ job \in Jobs
    /\ stage \in {"rendering", "asking", "falling back", "scoring", "done"}
    /\ Len(calls) <= Passes(job)
    /\ \A i \in DOMAIN calls : calls[i].model \in Models /\ calls[i].reply \in Replies
    /\ (row # None) <=> (stage = "done")
    /\ row # None => row \in Rows /\ row.score \in 0 .. Unit  \* whatever scale and penalty

\* A verdict line says what the judge means, or the tail says nothing else.
Clear(reply) ==
    IF reply.lines # <<>> THEN Last(reply.lines) = reply.means
    ELSE Range(reply.tail) \intersect Verdicts = {reply.means}

Meant(i) == calls[i].reply.means

(* A pair of clear replies decides for an output exactly when both passes  *)
(* prefer it, in whichever slot it stood; anything else, a judge that      *)
(* prefers one slot included, is a tie of consistency 0.                   *)
DecisiveIsAgreed ==
    row # None /\ job.pairwise /\ row.error = "" /\ (\A i \in 1 .. 2 : Clear(calls[i].reply)) =>
        /\ row.label = IF Meant(1) = Swapped(Meant(2)) THEN Meant(1) ELSE "tie"
        /\ row.consistency = IF row.label = "tie" THEN 0 ELSE 1

(* The order of the outputs in the record does not matter: a record with   *)
(* the two exchanged asks the same two questions in the other order, and   *)
(* the same answers give the opposite score.                               *)
ExchangeMirrors ==
    row # None /\ job.pairwise /\ row.error = "" /\ job.penalty = 0 =>
        ScoreOf(Combined(Opinion(calls[2].reply), Opinion(calls[1].reply))) = Unit - row.score

(* A better rating of the same answer never scores less, on a scale of any *)
(* bounds, for ratings outside of it and under a length penalty too.       *)
BetterScoresNoLess ==
    row # None /\ ~job.pairwise /\ row.error = "" =>
        \A reply \in Ratings :
            HasRating(reply) /\ Rating(reply) >= Rating(calls[1].reply) =>
                Penalized(Normalized(Rating(reply), job.lo, job.hi), job.penalty) >= row.score

(* A row accounts for every answer it rests on: their cost, and whether a  *)
(* fallback gave one.  The warning names a family that did judge.          *)
RowAccountsForCalls ==
    row # None /\ row.error # "judge_error" =>
        /\ row.cost = FoldSeq(LAMBDA call, sum : Price[call.model] + sum, 0, calls)
        /\ row.fallback <=> \E i \in 1 .. Passes(job) : calls[i].fallback
        /\ row.warning => \E i \in 1 .. Passes(job) : Family[calls[i].model] = job.generator

(* "Only verdicts that agree post-swap are decisive."                      *)
DecisiveIsMeant ==
    row # None /\ row.label \in {"A", "B"} => \A i \in 1 .. 2 :
        Meant(i) = (IF i = 1 THEN row.label ELSE Swapped(row.label))

=============================================================================
