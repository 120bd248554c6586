------------------------- MODULE JudgeRecordProofs -------------------------
(***************************************************************************)
(* Theorems about the judging of a record, for any metrics, models,        *)
(* prices, replies and failures, any scale and any length penalty.         *)
(***************************************************************************)
EXTENDS JudgeRecord, SequenceTheorems, WellFoundedInduction, TLAPS

-----------------------------------------------------------------------------
(* Integers                                                                *)

LEMMA MaxOfTwo ==
    ASSUME NEW a \in Int, NEW b \in Int
    PROVE  Max({a, b}) \in {a, b} /\ Max({a, b}) >= a /\ Max({a, b}) >= b
<1>1. \E x \in {a, b} : \A y \in {a, b} : x >= y
  OBVIOUS
<1>2. Max({a, b}) \in {a, b} /\ \A y \in {a, b} : Max({a, b}) >= y
  BY <1>1 DEF Max
<1>3. QED
  BY <1>2

LEMMA MinOfTwo ==
    ASSUME NEW a \in Int, NEW b \in Int
    PROVE  Min({a, b}) \in {a, b} /\ Min({a, b}) <= a /\ Min({a, b}) <= b
<1>1. \E x \in {a, b} : \A y \in {a, b} : x =< y
  OBVIOUS
<1>2. Min({a, b}) \in {a, b} /\ \A y \in {a, b} : Min({a, b}) =< y
  BY <1>1 DEF Min
<1>3. QED
  BY <1>2

(* A set of positions has a smallest one.                                  *)
LEMMA MinIsIn ==
    ASSUME NEW S \in SUBSET Nat, S # {}
    PROVE  Min(S) \in S
<1> DEFINE less == {p \in Nat \X Nat : p[1] < p[2]}
<1>1. IsWellFoundedOn(less, Nat)
  BY NatLessThanWellFounded DEF OpToRel
<1> HIDE DEF less
<1>2. PICK x \in S : \A y \in S : ~ (<<y, x>> \in less)
  BY <1>1, WFMin
<1>3. ASSUME NEW y \in S PROVE x =< y
  <2>1. <<y, x>> \in Nat \X Nat
    OBVIOUS
  <2>2. <<y, x>> \notin less
    BY <1>2
  <2>3. ~ (y < x)
    BY <2>1, <2>2 DEF less
  <2>4. QED
    BY <2>3
<1>4. QED
  BY <1>3 DEF Min

(* A number is clamped to an interval that is one, and its order is kept.  *)
LEMMA ClampedIn ==
    ASSUME NEW n \in Int, NEW lo \in Int, NEW hi \in Int, lo <= hi
    PROVE  /\ Clamped(n, lo, hi) \in lo .. hi
           /\ n \in lo .. hi => Clamped(n, lo, hi) = n
           /\ n < lo => Clamped(n, lo, hi) = lo
           /\ n > hi => Clamped(n, lo, hi) = hi
<1> DEFINE m == Min({hi, n})
<1>1. m \in {hi, n} /\ m <= hi /\ m <= n
  BY MinOfTwo
<1> HIDE DEF m
<1>2. Max({lo, m}) \in {lo, m} /\ Max({lo, m}) >= lo /\ Max({lo, m}) >= m
  BY <1>1, MaxOfTwo
<1>3. Clamped(n, lo, hi) = Max({lo, m})
  BY DEF Clamped, m
<1>4. QED
  BY <1>1, <1>2, <1>3

LEMMA ClampedOrder ==
    ASSUME NEW a \in Int, NEW b \in Int, a <= b, NEW lo \in Int, NEW hi \in Int, lo <= hi
    PROVE  Clamped(a, lo, hi) <= Clamped(b, lo, hi)
<1>1. CASE a < lo
  BY <1>1, ClampedIn
<1>2. CASE b > hi
  BY <1>2, ClampedIn
<1>3. CASE a \in lo .. hi /\ b \in lo .. hi
  BY <1>3, ClampedIn
<1>4. QED
  BY <1>1, <1>2, <1>3

(* Division by a positive number keeps the order.                          *)
LEMMA QuotientOrder ==
    ASSUME NEW a \in Int, NEW b \in Int, a <= b, NEW d \in Nat \ {0}
    PROVE  a \div d <= b \div d
OBVIOUS

LEMMA ProductOrder ==
    ASSUME NEW a \in Nat, NEW b \in Nat, a <= b, NEW u \in Nat
    PROVE  a * u \in Nat /\ b * u \in Nat /\ a * u <= b * u
OBVIOUS

LEMMA ExactQuotient == ASSUME NEW u \in Nat, NEW d \in Nat \ {0} PROVE (d * u) \div d = u
OBVIOUS

LEMMA NormalizedIn ==
    ASSUME NEW raw \in Int, NEW lo \in Int, NEW hi \in Int, Unit \in Nat
    PROVE  Normalized(raw, lo, hi) \in 0 .. Unit
<1>1. CASE hi <= lo
  BY <1>1 DEF Normalized
<1>2. CASE lo < hi
  <2> DEFINE c == Clamped(raw, lo, hi) - lo
             d == hi - lo
  <2>0. lo <= hi
    BY <1>2
  <2>1. c \in Nat /\ d \in Nat \ {0} /\ c <= d
    <3>1. Clamped(raw, lo, hi) \in lo .. hi
      BY <2>0, ClampedIn
    <3>2. QED
      BY <1>2, <3>1
  <2>2. Normalized(raw, lo, hi) = (c * Unit) \div d
    BY <1>2 DEF Normalized
  <2> HIDE DEF c, d
  <2>3. c * Unit \in Nat /\ d * Unit \in Nat /\ 0 <= c * Unit /\ c * Unit <= d * Unit
    BY <2>1, ProductOrder
  <2>4. (c * Unit) \div d <= (d * Unit) \div d /\ 0 \div d <= (c * Unit) \div d
    BY <2>1, <2>3, QuotientOrder
  <2>5. (d * Unit) \div d = Unit /\ 0 \div d = 0 /\ (c * Unit) \div d \in Int
    BY <2>1, <2>3, ExactQuotient
  <2>6. QED
    BY <2>2, <2>4, <2>5
<1>3. QED
  BY <1>1, <1>2

(* A better rating gets no smaller share of the scale.                     *)
LEMMA NormalizedOrder ==
    ASSUME NEW a \in Int, NEW b \in Int, a <= b, NEW lo \in Int, NEW hi \in Int, Unit \in Nat
    PROVE  Normalized(a, lo, hi) <= Normalized(b, lo, hi)
<1>1. CASE hi <= lo
  BY <1>1 DEF Normalized
<1>2. CASE lo < hi
  <2> DEFINE c == Clamped(a, lo, hi) - lo
             e == Clamped(b, lo, hi) - lo
             d == hi - lo
  <2>0. lo <= hi
    BY <1>2
  <2>1. c \in Nat /\ e \in Nat /\ d \in Nat \ {0} /\ c <= e
    <3>1. /\ Clamped(a, lo, hi) \in lo .. hi /\ Clamped(b, lo, hi) \in lo .. hi
          /\ Clamped(a, lo, hi) <= Clamped(b, lo, hi)
      BY <2>0, ClampedIn, ClampedOrder
    <3>2. QED
      BY <1>2, <3>1
  <2>2. /\ Normalized(a, lo, hi) = (c * Unit) \div d
        /\ Normalized(b, lo, hi) = (e * Unit) \div d
    BY <1>2 DEF Normalized
  <2> HIDE DEF c, d, e
  <2>3. c * Unit \in Nat /\ e * Unit \in Nat /\ c * Unit <= e * Unit
    BY <2>1, ProductOrder
  <2>4. QED
    BY <2>1, <2>2, <2>3, QuotientOrder
<1>3. QED
  BY <1>1, <1>2

-----------------------------------------------------------------------------
(* Sums over one or two answers                                            *)

(* The table a fold over sets builds: it takes the elements away one by    *)
(* one, in any order.                                                      *)
Taken(s) == CHOOSE i \in s : TRUE
IsSum(f, p, D) ==
    f = [s \in SUBSET D |-> IF s = {} THEN 0 ELSE p[Taken(s)] + f[s \ {Taken(s)}]]
SumFrom(p, D) == CHOOSE f : IsSum(f, p, D)

LEMMA FoldIsSum ==
    ASSUME NEW s
    PROVE  FoldSeq(LAMBDA call, sum : Price[call.model] + sum, 0, s)
             = SumFrom([i \in DOMAIN s |-> Price[s[i].model]], DOMAIN s)[DOMAIN s]
BY Zenon DEF FoldSeq, FoldFunction, FoldFunctionOnSet, MapThenFoldSet, SumFrom, IsSum, Taken

LEMMA SumOfTwo ==
    ASSUME NEW D \in {{1}, {1, 2}}, NEW p \in [D -> Nat]
    PROVE  SumFrom(p, D)[D] = IF D = {1} THEN p[1] ELSE p[1] + p[2]
<1>1. \A s \in SUBSET D : s # {} => Taken(s) \in s
  BY DEF Taken
<1>2. \E f : IsSum(f, p, D)
  <2> DEFINE g == [s \in SUBSET D |-> (IF 1 \in s THEN p[1] ELSE 0)
                                      + (IF 2 \in s THEN p[2] ELSE 0)]
  <2>1. ASSUME NEW s \in SUBSET D
        PROVE  g[s] = IF s = {} THEN 0 ELSE p[Taken(s)] + g[s \ {Taken(s)}]
    <3>1. CASE s = {}
      BY <3>1
    <3>2. ASSUME NEW i \in s, i = Taken(s) PROVE g[s] = p[i] + g[s \ {i}]
      <4>1. /\ s \ {i} \in SUBSET D
            /\ g[s] = (IF 1 \in s THEN p[1] ELSE 0) + (IF 2 \in s THEN p[2] ELSE 0)
            /\ g[s \ {i}] = (IF 1 \in s \ {i} THEN p[1] ELSE 0)
                            + (IF 2 \in s \ {i} THEN p[2] ELSE 0)
        OBVIOUS
      <4> HIDE DEF g
      <4>2. CASE i = 1
        <5>1. p[1] \in Nat /\ (2 \in s => p[2] \in Nat)
          BY <4>2
        <5>2. QED
          BY <4>1, <4>2, <5>1
      <4>3. CASE i = 2
        <5>1. p[2] \in Nat /\ (1 \in s => p[1] \in Nat)
          BY <4>3
        <5>2. QED
          BY <4>1, <4>3, <5>1
      <4>4. QED
        BY <4>2, <4>3
    <3>3. QED
      BY <1>1, <3>1, <3>2
  <2>2. IsSum(g, p, D)
    BY <2>1, Zenon DEF IsSum
  <2>3. QED
    BY <2>2
<1> DEFINE f == SumFrom(p, D)
<1>3. IsSum(f, p, D)
  BY <1>2 DEF SumFrom
<1> HIDE DEF f
<1>4. \A s \in SUBSET D : f[s] = IF s = {} THEN 0 ELSE p[Taken(s)] + f[s \ {Taken(s)}]
  BY <1>3, Zenon DEF IsSum
<1>5. f[{}] = 0
  BY <1>4
<1>6. \A i \in D : f[{i}] = p[i]
  <2>1. SUFFICES ASSUME NEW i \in D PROVE f[{i}] = p[i]
    OBVIOUS
  <2>2. Taken({i}) = i /\ {i} \ {i} = {} /\ {i} \in SUBSET D
    BY <1>1
  <2>3. p[i] \in Nat /\ f[{i}] = p[i] + f[{}]
    BY <1>4, <2>2
  <2>4. QED
    BY <1>5, <2>3
<1>7. CASE D = {1}
  BY <1>6, <1>7 DEF f
<1>8. CASE D = {1, 2}
  <2>1. p[1] \in Nat /\ p[2] \in Nat
    BY <1>8
  <2>2. f[D] = p[Taken(D)] + f[D \ {Taken(D)}] /\ Taken(D) \in {1, 2}
    BY <1>1, <1>4, <1>8
  <2>3. CASE Taken(D) = 1
    <3>1. D \ {1} = {2}
      BY <1>8
    <3>2. f[D] = p[1] + p[2]
      BY <1>6, <1>8, <2>2, <2>3, <3>1
    <3>3. QED
      BY <1>8, <3>2 DEF f
  <2>4. CASE Taken(D) = 2
    <3>1. D \ {2} = {1}
      BY <1>8
    <3>2. f[D] = p[2] + p[1]
      BY <1>6, <1>8, <2>2, <2>4, <3>1
    <3>3. QED
      BY <1>8, <2>1, <3>2 DEF f
  <2>5. QED
    BY <2>2, <2>3, <2>4
<1>9. QED
  BY <1>7, <1>8

-----------------------------------------------------------------------------
(* Replies and verdicts                                                    *)

Kinds   == {"rendering", "asking", "falling back", "scoring", "done"}
Waiting == {"asking", "falling back"}
Answers == [model : Models, fallback : BOOLEAN, reply : Ratings \union Opinions]

LEMMA ToldIsText ==
    ASSUME NEW T, NEW r, r.lines \in Seq(T), r.tail \in Seq(T)
    PROVE  Told(r) \in Seq(T)
<1>1. CASE r.lines # <<>>
  <2>1. Len(r.lines) \in 1 .. Len(r.lines)
    BY <1>1, EmptySeq, LenProperties
  <2>2. r.lines[Len(r.lines)] \in T
    BY <2>1, ElementOfSeq
  <2>3. QED
    BY <1>1, <2>2 DEF Told, Last
<1>2. CASE r.lines = <<>>
  BY <1>2 DEF Told
<1>3. QED
  BY <1>1, <1>2

(* The first number that is told is a number.                              *)
LEMMA RatingIsNumber ==
    ASSUME JudgeAssumption, NEW r \in Ratings, HasRating(r)
    PROVE  Rating(r) \in Nat
<1>1. Told(r) \in Seq(Nat) /\ Told(r) # <<>>
  BY ToldIsText DEF JudgeAssumption, HasRating
<1>2. QED
  BY <1>1, HeadTailProperties DEF Rating

(* A pairwise reply is read as a verdict, whatever it says.                *)
LEMMA OpinionIsVerdict ==
    ASSUME JudgeAssumption, NEW o \in Opinions
    PROVE  Opinion(o) \in Verdicts
<1> DEFINE known == {i \in DOMAIN Told(o) : Told(o)[i] \in Verdicts}
<1>1. known \in SUBSET Nat
  <2>1. Told(o) \in Seq(STRING)
    BY ToldIsText DEF JudgeAssumption
  <2>2. DOMAIN Told(o) = 1 .. Len(Told(o)) /\ Len(Told(o)) \in Nat
    BY <2>1, LenProperties
  <2>3. QED
    BY <2>2
<1>2. CASE known = {}
  BY <1>2 DEF Opinion, Verdicts
<1>3. CASE known # {}
  <2>1. Min(known) \in known
    BY <1>1, <1>3, MinIsIn
  <2>2. QED
    BY <1>3, <2>1 DEF Opinion
<1>4. QED
  BY <1>2, <1>3

(* A clear reply is read as it is meant.                                   *)
LEMMA ClearIsRead ==
    ASSUME JudgeAssumption, NEW o \in Opinions, Clear(o)
    PROVE  Opinion(o) = o.means /\ o.means \in Verdicts
<1> DEFINE known == {i \in DOMAIN Told(o) : Told(o)[i] \in Verdicts}
<1>1. CASE o.lines # <<>>
  <2>1. o # Silent
    BY <1>1 DEF Silent
  <2>2. o.means \in Verdicts /\ Told(o) = <<o.means>>
    BY <1>1, <2>1 DEF JudgeAssumption, Clear, Told
  <2>3. known = {1}
    BY <2>2
  <2>4. Min(known) \in known
    <3>1. {1} \in SUBSET Nat /\ {1} # {}
      OBVIOUS
    <3>2. Min({1}) \in {1}
      BY <3>1, MinIsIn
    <3>3. QED
      BY <2>3, <3>2
  <2>5. QED
    BY <2>2, <2>3, <2>4 DEF Opinion
<1>2. CASE o.lines = <<>>
  <2>1. Told(o) = o.tail /\ Range(o.tail) \intersect Verdicts = {o.means}
    BY <1>2 DEF Clear, Told
  <2>2. o.means \in Verdicts /\ o.means \in Range(o.tail)
    BY <2>1
  <2>3. known # {}
    BY <2>1, <2>2 DEF Range
  <2>4. known \in SUBSET Nat
    <3>1. o.tail \in Seq(STRING)
      BY DEF JudgeAssumption
    <3>2. DOMAIN o.tail = 1 .. Len(o.tail) /\ Len(o.tail) \in Nat
      BY <3>1, LenProperties
    <3>3. QED
      BY <2>1, <3>2
  <2>5. Min(known) \in known
    BY <2>3, <2>4, MinIsIn
  <2>6. Told(o)[Min(known)] \in Range(o.tail) \intersect Verdicts
    BY <2>1, <2>5 DEF Range
  <2>7. Opinion(o) = Told(o)[Min(known)]
    BY <2>3 DEF Opinion
  <2>8. QED
    BY <2>1, <2>2, <2>6, <2>7
<1>3. QED
  BY <1>1, <1>2

(* Two verdicts combine to one, and in the other order to its opposite.    *)
LEMMA CombinedIsVerdict ==
    ASSUME NEW v1 \in Verdicts, NEW v2 \in Verdicts
    PROVE  /\ Combined(v1, v2) \in Verdicts
           /\ Combined(v2, v1) = Swapped(Combined(v1, v2))
BY DEF Combined, Swapped, Verdicts

(* The opposite verdict has the opposite score.                            *)
LEMMA ScoreMirrors ==
    ASSUME JudgeAssumption, NEW v \in Verdicts
    PROVE  ScoreOf(v) \in 0 .. Unit /\ ScoreOf(Swapped(v)) = Unit - ScoreOf(v)
<1>1. Unit \div 2 \in 0 .. Unit /\ Unit \div 2 = Unit - Unit \div 2
  BY DEF JudgeAssumption
<1>2. Unit \in Nat
  BY DEF JudgeAssumption
<1>3. \/ v = "A" /\ ScoreOf(v) = Unit /\ ScoreOf(Swapped(v)) = 0
      \/ v = "B" /\ ScoreOf(v) = 0 /\ ScoreOf(Swapped(v)) = Unit
      \/ v = "tie" /\ ScoreOf(v) = Unit \div 2 /\ ScoreOf(Swapped(v)) = Unit \div 2
  BY DEF ScoreOf, Swapped, Verdicts
<1>4. QED
  BY <1>1, <1>2, <1>3

(* A penalty keeps a score in the unit interval and the order of scores.   *)
LEMMA PenalizedIn ==
    ASSUME JudgeAssumption, NEW score \in Int, NEW penalty \in Int
    PROVE  /\ Penalized(score, penalty) \in 0 .. Unit
           /\ score \in 0 .. Unit /\ penalty = 0 => Penalized(score, penalty) = score
           /\ \A more \in Int :
                more >= score => Penalized(more, penalty) >= Penalized(score, penalty)
<1>1. Unit \in Nat /\ 0 <= Unit /\ Unit \in Int /\ 0 \in Int
  BY DEF JudgeAssumption
<1>2. score - penalty \in Int
  OBVIOUS
<1>3. Penalized(score, penalty) \in 0 .. Unit
  BY <1>1, <1>2, ClampedIn DEF Penalized
<1>4. ASSUME score \in 0 .. Unit, penalty = 0 PROVE Penalized(score, penalty) = score
  <2>1. score - penalty = score
    BY <1>4
  <2>2. QED
    BY <1>1, <1>4, <2>1, ClampedIn DEF Penalized
<1>5. ASSUME NEW more \in Int, more >= score
      PROVE  Penalized(more, penalty) >= Penalized(score, penalty)
  <2> DEFINE a == score - penalty
             b == more - penalty
  <2>1. a \in Int /\ b \in Int /\ a <= b
    BY <1>5
  <2>2. Penalized(score, penalty) = Clamped(a, 0, Unit)
        /\ Penalized(more, penalty) = Clamped(b, 0, Unit)
    BY DEF Penalized
  <2> HIDE DEF a, b
  <2>3. Clamped(a, 0, Unit) <= Clamped(b, 0, Unit)
    BY <1>1, <2>1, ClampedOrder
  <2>4. Clamped(a, 0, Unit) \in 0 .. Unit /\ Clamped(b, 0, Unit) \in 0 .. Unit
    BY <1>1, <2>1, ClampedIn
  <2>5. QED
    BY <1>1, <2>2, <2>3, <2>4
<1>6. QED
  BY <1>3, <1>4, <1>5

-----------------------------------------------------------------------------
(* The inductive invariant                                                 *)

IInv ==
    /\ job \in Jobs /\ stage \in Kinds /\ calls \in Seq(Answers)
    /\ \A i \in 1 .. Len(calls) : calls[i].reply \in Replies
    /\ Len(calls) <= Passes(job)
    /\ stage = "rendering" => calls = <<>>
    /\ stage \in Waiting => Len(calls) < Passes(job)
    /\ stage = "falling back" => job.fallback # None
    /\ stage = "scoring" => Len(calls) = Passes(job)
    /\ stage # "done" => row = None
    /\ stage = "done" => row = ErrorRow \/ (Len(calls) = Passes(job) /\ row = JudgedRow)

LEMMA InitInv == ASSUME JudgeAssumption, Init PROVE IInv
<1>1. calls = <<>> /\ calls \in Seq(Answers) /\ Len(calls) = 0
  BY DEF Init
<1>2. Passes(job) \in {1, 2}
  BY DEF Passes
<1>3. job \in Jobs /\ stage = "rendering" /\ row = None
  BY DEF Init
<1>4. stage \in Kinds /\ stage # "done" /\ stage \notin Waiting
      /\ stage # "falling back" /\ stage # "scoring"
  BY <1>3 DEF Kinds, Waiting
<1>5. Len(calls) <= Passes(job) /\ \A i \in 1 .. Len(calls) : calls[i].reply \in Replies
  BY <1>1, <1>2
<1>6. QED
  BY <1>1, <1>3, <1>4, <1>5 DEF IInv

LEMMA JobTyped ==
    ASSUME JudgeAssumption, job \in Jobs
    PROVE  /\ job.pairwise \in BOOLEAN /\ job.lo \in Int /\ job.hi \in Int /\ job.penalty \in Int
           /\ job.primary \in Models /\ job.fallback \in Models \union {None}
BY DEF JudgeAssumption, JobType

(* An error row is written from any stage, with the answers there are.     *)
LEMMA RaiseStep ==
    ASSUME IInv, Raise, UNCHANGED job
    PROVE  IInv'
<1>1. stage' = "done" /\ row' = ErrorRow /\ UNCHANGED calls
  BY DEF Raise
<1>2. Passes(job)' = Passes(job) /\ Replies' = Replies /\ ErrorRow' = ErrorRow
  BY DEF Passes, Replies, ErrorRow
<1>3. stage' \in Kinds /\ stage' \notin {"rendering", "falling back", "scoring"} \union Waiting
  BY <1>1 DEF Kinds, Waiting
<1>4. QED
  BY <1>1, <1>2, <1>3 DEF IInv

(* An answer is the next one of the passes there are.                      *)
LEMMA AnsweredStep ==
    ASSUME JudgeAssumption, IInv, NEW m \in Models, NEW b \in BOOLEAN,
           stage \in Waiting, Answered(m, b), UNCHANGED job
    PROVE  IInv'
<1>1. PICK reply \in Replies :
        calls' = Append(calls, [model |-> m, fallback |-> b, reply |-> reply])
  BY DEF Answered
<1> DEFINE answer == [model |-> m, fallback |-> b, reply |-> reply]
           n == Len(calls)
           k == Passes(job)
<1>2. answer \in Answers /\ answer.reply = reply /\ calls' = Append(calls, answer)
  BY <1>1 DEF Answers, Replies
<1> HIDE DEF answer, n, k
<1>3. calls \in Seq(Answers) /\ n \in Nat /\ n < k /\ k \in {1, 2}
  BY LenProperties DEF IInv, Passes, n, k
<1>4. /\ calls' \in Seq(Answers) /\ Len(calls') = n + 1
      /\ calls'[n + 1] = answer
      /\ \A i \in 1 .. n : calls'[i] = calls[i]
  BY <1>2, <1>3, AppendProperties DEF n
<1>5. \A i \in 1 .. Len(calls') : calls'[i].reply \in Replies
  <2>1. SUFFICES ASSUME NEW i \in 1 .. Len(calls') PROVE calls'[i].reply \in Replies
    OBVIOUS
  <2>2. Len(calls') = n + 1
    BY <1>4
  <2>3. i \in 1 .. n \/ i = n + 1
    BY <1>3, <2>1, <2>2
  <2>4. QED
    BY <1>2, <1>4, <2>3 DEF IInv, n
<1>6. Passes(job)' = Passes(job) /\ Replies' = Replies
  BY DEF Passes, Replies
<1>7. Len(calls') = n + 1 /\ n + 1 <= k
  <2>1. n + 1 <= k
    BY <1>3
  <2>2. QED
    BY <1>4, <2>1
<1>8. CASE n + 1 < k
  <2>1. stage' = "asking" /\ row' = row
    BY <1>8 DEF Answered, n, k
  <2>2. /\ stage' \in Kinds
        /\ stage' \notin {"rendering", "falling back", "scoring", "done"}
    BY <2>1 DEF Kinds
  <2>3. Len(calls') < Passes(job)
    BY <1>7, <1>8 DEF k
  <2>4. row' = None
    BY <2>1 DEF IInv, Waiting
  <2>5. Len(calls') <= Passes(job)
    BY <1>7 DEF k
  <2>6. QED
    BY <1>4, <1>5, <1>6, <2>2, <2>3, <2>4, <2>5 DEF IInv
<1>9. CASE ~ (n + 1 < k)
  <2>1. stage' = "scoring" /\ row' = row
    BY <1>9 DEF Answered, n, k
  <2>2. /\ stage' \in Kinds
        /\ stage' \notin {"rendering", "falling back", "done"} \union Waiting
    BY <2>1 DEF Kinds, Waiting
  <2>3. Len(calls') = Passes(job)
    <3>1. n + 1 = k
      BY <1>3, <1>9
    <3>2. QED
      BY <1>7, <3>1 DEF k
  <2>4. row' = None
    BY <2>1 DEF IInv, Waiting
  <2>5. Len(calls') <= Passes(job)
    BY <1>7 DEF k
  <2>6. QED
    BY <1>4, <1>5, <1>6, <2>2, <2>3, <2>4, <2>5 DEF IInv
<1>10. QED
  BY <1>8, <1>9

LEMMA InvStep == ASSUME JudgeAssumption, IInv, [Next]_vars PROVE IInv'
<1>1. CASE Render
  <2>1. CASE Renderable
    <3>1. stage' = "asking" /\ UNCHANGED <<job, calls, row>> /\ stage = "rendering"
      BY <1>1, <2>1 DEF Render
    <3>2. /\ Passes(job)' = Passes(job) /\ Replies' = Replies
          /\ stage' \in Kinds /\ stage' \notin {"rendering", "falling back", "scoring", "done"}
      BY <3>1 DEF Passes, Replies, Kinds
    <3>3. Len(calls) < Passes(job) /\ row = None
      <4>1. calls = <<>> /\ row = None
        BY <3>1 DEF IInv
      <4>2. QED
        BY <4>1, EmptySeq DEF Passes
    <3>4. QED
      BY <3>1, <3>2, <3>3 DEF IInv
  <2>2. CASE ~ Renderable
    BY <1>1, <2>2, RaiseStep DEF Render
  <2>3. QED
    BY <2>1, <2>2
<1>2. CASE Ask
  <2>1. CASE Answered(job.primary, FALSE)
    <3>1. job.primary \in Models
      BY JobTyped DEF IInv
    <3>2. QED
      BY <1>2, <2>1, <3>1, AnsweredStep DEF Ask, Waiting
  <2>2. CASE Raise
    BY <1>2, <2>2, RaiseStep DEF Ask
  <2>3. CASE job.fallback # None /\ stage' = "falling back" /\ UNCHANGED <<calls, row>>
    <3>1. UNCHANGED <<job, calls, row>> /\ stage = "asking"
      BY <1>2, <2>3 DEF Ask
    <3>2. /\ Passes(job)' = Passes(job) /\ Replies' = Replies
          /\ stage' \in Kinds /\ stage' \notin {"rendering", "asking", "scoring", "done"}
      BY <2>3, <3>1 DEF Passes, Replies, Kinds
    <3>3. Len(calls) < Passes(job) /\ row = None
      BY <3>1 DEF IInv, Waiting
    <3>4. QED
      BY <2>3, <3>1, <3>2, <3>3 DEF IInv
  <2>4. QED
    BY <1>2, <2>1, <2>2, <2>3 DEF Ask
<1>3. CASE AskFallback
  <2>1. CASE Answered(job.fallback, TRUE)
    <3>1. job.fallback \in Models
      BY <1>3, JobTyped DEF IInv, AskFallback
    <3>2. QED
      BY <1>3, <2>1, <3>1, AnsweredStep DEF AskFallback, Waiting
  <2>2. CASE Raise
    BY <1>3, <2>2, RaiseStep DEF AskFallback
  <2>3. QED
    BY <1>3, <2>1, <2>2 DEF AskFallback
<1>4. CASE Score
  <2>1. /\ stage = "scoring" /\ stage' = "done" /\ UNCHANGED <<job, calls>>
        /\ row' = JudgedRow
    BY <1>4 DEF Score
  <2>2. /\ Passes(job)' = Passes(job) /\ Replies' = Replies
        /\ stage' \in Kinds
        /\ stage' \notin {"rendering", "falling back", "scoring"} \union Waiting
    BY <2>1 DEF Passes, Replies, Kinds, Waiting
  <2>3. JudgedRow' = JudgedRow
    BY <2>1 DEF JudgedRow, PairwiseOutcome, PointwiseOutcome, Cost, FallbackUsed, Warning
  <2>4. Len(calls) = Passes(job)
    BY <2>1 DEF IInv
  <2>5. QED
    BY <2>1, <2>2, <2>3, <2>4 DEF IInv
<1>5. CASE UNCHANGED vars
  <2>1. UNCHANGED <<job, stage, calls, row>>
    BY <1>5 DEF vars
  <2>2. Passes(job)' = Passes(job) /\ Replies' = Replies /\ ErrorRow' = ErrorRow
    BY <2>1 DEF Passes, Replies, ErrorRow
  <2>3. JudgedRow' = JudgedRow
    BY <2>1 DEF JudgedRow, PairwiseOutcome, PointwiseOutcome, Cost, FallbackUsed, Warning
  <2>4. QED
    BY <2>1, <2>2, <2>3 DEF IInv
<1>6. QED
  BY <1>1, <1>2, <1>3, <1>4, <1>5 DEF Next

LEMMA InvHolds == ASSUME JudgeAssumption PROVE Spec => []IInv
<1>1. Init => IInv
  BY InitInv
<1>2. IInv /\ [Next]_vars => IInv'
  BY InvStep
<1>3. QED
  BY <1>1, <1>2, PTL DEF Spec

-----------------------------------------------------------------------------
(* Rows                                                                    *)

LEMMA CallsAre ==
    ASSUME JudgeAssumption, IInv
    PROVE  /\ \A i \in 1 .. Len(calls) : /\ calls[i] \in Answers /\ calls[i].model \in Models
                                         /\ calls[i].fallback \in BOOLEAN
                                         /\ calls[i].reply \in Replies
           /\ DOMAIN calls = 1 .. Len(calls) /\ Len(calls) \in Nat
           /\ job.pairwise => Passes(job) = 2 /\ Replies = Opinions
           /\ ~ job.pairwise => Passes(job) = 1 /\ Replies = Ratings
<1>1. calls \in Seq(Answers)
  BY DEF IInv
<1>2. \A i \in 1 .. Len(calls) : calls[i] \in Answers
  BY <1>1, ElementOfSeq
<1>3. \A a \in Answers : a.model \in Models /\ a.fallback \in BOOLEAN
  BY DEF Answers
<1>4. DOMAIN calls = 1 .. Len(calls) /\ Len(calls) \in Nat
  BY <1>1, LenProperties
<1>5. \A i \in 1 .. Len(calls) : calls[i].reply \in Replies
  BY DEF IInv
<1>6. QED
  BY <1>2, <1>3, <1>4, <1>5 DEF Passes, Replies

\* All answers have been given.
Judged == Len(calls) = Passes(job)

(* What the row of a pair says.                                            *)
LEMMA PairRow ==
    ASSUME JudgeAssumption, IInv, Judged, job.pairwise, NEW v1, NEW v2,
           v1 = Opinion(calls[1].reply), v2 = Opinion(calls[2].reply)
    PROVE  /\ calls[1].model \in Models /\ calls[2].model \in Models
           /\ calls[1].reply \in Opinions /\ calls[2].reply \in Opinions
           /\ v1 \in Verdicts /\ v2 \in Verdicts /\ Combined(v1, v2) \in Verdicts
           /\ \/ /\ Silent \in {calls[1].reply, calls[2].reply}
                 /\ JudgedRow.error = "parse_error" /\ JudgedRow.label = "tie"
                 /\ JudgedRow.consistency = 0
                 /\ JudgedRow.score = Penalized(Unit \div 2, job.penalty)
              \/ /\ Silent \notin {calls[1].reply, calls[2].reply}
                 /\ JudgedRow.error = "" /\ JudgedRow.label = Combined(v1, v2)
                 /\ JudgedRow.consistency = Consistency(v1, v2)
                 /\ JudgedRow.score = Penalized(ScoreOf(Combined(v1, v2)), job.penalty)
<1>1. 1 \in 1 .. Len(calls) /\ 2 \in 1 .. Len(calls)
  BY CallsAre DEF Judged
<1>2. /\ calls[1].model \in Models /\ calls[2].model \in Models
      /\ calls[1].reply \in Opinions /\ calls[2].reply \in Opinions
  BY <1>1, CallsAre
<1>3. v1 \in Verdicts /\ v2 \in Verdicts /\ Combined(v1, v2) \in Verdicts
  BY <1>2, OpinionIsVerdict, CombinedIsVerdict
<1>4. /\ JudgedRow.error = PairwiseOutcome.error
      /\ JudgedRow.label = PairwiseOutcome.label
      /\ JudgedRow.consistency = PairwiseOutcome.consistency
      /\ JudgedRow.score = Penalized(PairwiseOutcome.score, job.penalty)
  BY DEF JudgedRow
<1>5. CASE Silent \in {calls[1].reply, calls[2].reply}
  <2>1. PairwiseOutcome = [error |-> "parse_error", score |-> Unit \div 2, label |-> "tie",
                           consistency |-> 0]
    BY <1>5 DEF PairwiseOutcome
  <2>2. QED
    BY <1>2, <1>3, <1>4, <1>5, <2>1
<1>6. CASE Silent \notin {calls[1].reply, calls[2].reply}
  <2>1. PairwiseOutcome = [error |-> "", score |-> ScoreOf(Combined(v1, v2)),
                           label |-> Combined(v1, v2), consistency |-> Consistency(v1, v2)]
    BY <1>6 DEF PairwiseOutcome
  <2>2. QED
    BY <1>2, <1>3, <1>4, <1>6, <2>1
<1>7. QED
  BY <1>5, <1>6

(* What the row of a single output says.                                   *)
LEMMA SingleRow ==
    ASSUME JudgeAssumption, IInv, Judged, ~ job.pairwise
    PROVE  /\ calls[1].model \in Models /\ calls[1].reply \in Ratings
           /\ JudgedRow.label = None /\ JudgedRow.consistency = None
           /\ \/ /\ HasRating(calls[1].reply) /\ Rating(calls[1].reply) \in Nat
                 /\ JudgedRow.error = ""
                 /\ JudgedRow.score = Penalized(Normalized(Rating(calls[1].reply), job.lo, job.hi),
                                                job.penalty)
              \/ /\ JudgedRow.error = "parse_error"
                 /\ JudgedRow.score = Penalized(0, job.penalty)
<1>1. 1 \in 1 .. Len(calls)
  BY CallsAre DEF Judged
<1>2. calls[1].model \in Models /\ calls[1].reply \in Ratings
  BY <1>1, CallsAre
<1>3. /\ JudgedRow.error = PointwiseOutcome.error
      /\ JudgedRow.label = PointwiseOutcome.label
      /\ JudgedRow.consistency = PointwiseOutcome.consistency
      /\ JudgedRow.score = Penalized(PointwiseOutcome.score, job.penalty)
  BY DEF JudgedRow
<1>4. PointwiseOutcome.label = None /\ PointwiseOutcome.consistency = None
  BY DEF PointwiseOutcome
<1>5. CASE HasRating(calls[1].reply)
  <2>1. /\ PointwiseOutcome.error = ""
        /\ PointwiseOutcome.score = Normalized(Rating(calls[1].reply), job.lo, job.hi)
    BY <1>5 DEF PointwiseOutcome
  <2>2. Rating(calls[1].reply) \in Nat
    BY <1>2, <1>5, RatingIsNumber
  <2>3. QED
    BY <1>2, <1>3, <1>4, <1>5, <2>1, <2>2
<1>6. CASE ~ HasRating(calls[1].reply)
  <2>1. PointwiseOutcome.error = "parse_error" /\ PointwiseOutcome.score = 0
    BY <1>6 DEF PointwiseOutcome
  <2>2. QED
    BY <1>2, <1>3, <1>4, <1>6, <2>1
<1>7. QED
  BY <1>5, <1>6

LEMMA CostIs ==
    ASSUME JudgeAssumption, IInv, Judged
    PROVE  /\ Cost \in Nat
           /\ Cost = FoldSeq(LAMBDA call, sum : Price[call.model] + sum, 0, calls)
<1> DEFINE D == DOMAIN calls
           p == [i \in D |-> Price[calls[i].model]]
           sum == FoldSeq(LAMBDA call, s : Price[call.model] + s, 0, calls)
<1>1. Price \in [Models -> Nat]
  BY DEF JudgeAssumption
<1>2. D = (IF job.pairwise THEN {1, 2} ELSE {1})
  <2>1. D = 1 .. Passes(job)
    BY CallsAre DEF Judged
  <2>2. 1 .. 1 = {1} /\ 1 .. 2 = {1, 2}
    OBVIOUS
  <2>3. QED
    BY <2>1, <2>2, CallsAre
<1>3. p \in [D -> Nat]
  <2>1. \A i \in D : calls[i].model \in Models
    BY CallsAre
  <2>2. QED
    BY <1>1, <2>1
<1>4. p[1] = Price[calls[1].model] /\ (job.pairwise => p[2] = Price[calls[2].model])
  BY <1>2
<1>5. sum = SumFrom(p, D)[D]
  BY FoldIsSum
<1> HIDE DEF D, p, sum
<1>6. SumFrom(p, D)[D] = IF D = {1} THEN p[1] ELSE p[1] + p[2]
  BY <1>2, <1>3, SumOfTwo
<1>7. CASE job.pairwise
  <2>1. D = {1, 2} /\ p[1] \in Nat /\ p[2] \in Nat
    BY <1>2, <1>3, <1>7
  <2>2. Cost = p[1] + p[2]
    BY <1>4, <1>7 DEF Cost
  <2>3. D # {1}
    <3>1. 2 \in {1, 2} /\ 2 \notin {1}
      OBVIOUS
    <3>2. QED
      BY <2>1, <3>1
  <2>4. Cost \in Nat /\ Cost = sum
    BY <1>5, <1>6, <2>1, <2>2, <2>3
  <2>5. QED
    BY <2>4 DEF sum
<1>8. CASE ~ job.pairwise
  <2>1. D = {1} /\ p[1] \in Nat
    BY <1>2, <1>3, <1>8
  <2>2. Cost \in Nat /\ Cost = sum
    BY <1>4, <1>5, <1>6, <1>8, <2>1 DEF Cost
  <2>3. QED
    BY <2>2 DEF sum
<1>9. QED
  BY <1>7, <1>8

(* Whatever was answered, the row is one that ClickHouse takes.            *)
LEMMA RowTyped ==
    ASSUME JudgeAssumption, IInv
    PROVE  /\ ErrorRow \in Rows /\ ErrorRow.score \in 0 .. Unit
           /\ Judged => JudgedRow \in Rows /\ JudgedRow.score \in 0 .. Unit
<1>1. Unit \in Nat /\ Unit \div 2 \in 0 .. Unit /\ Unit \div 2 \in Int
  BY DEF JudgeAssumption
<1>2. ErrorRow \in Rows /\ ErrorRow.score \in 0 .. Unit
  <2>1. "judge_error" \in Errors
    BY DEF Errors
  <2>2. ErrorRow \in Rows
    BY <2>1 DEF ErrorRow, Rows
  <2>3. ErrorRow.score = 0
    BY DEF ErrorRow
  <2>4. QED
    BY <1>1, <2>2, <2>3
<1>3. job.lo \in Int /\ job.hi \in Int /\ job.penalty \in Int
  BY JobTyped DEF IInv
<1>4. ASSUME Judged
      PROVE  /\ JudgedRow.error \in Errors /\ JudgedRow.score \in 0 .. Unit
             /\ JudgedRow.label \in Verdicts \union {None}
             /\ JudgedRow.consistency \in {0, 1, None}
             /\ calls[1].model \in Models
  <2>1. CASE job.pairwise
    <3> DEFINE v1 == Opinion(calls[1].reply)
               v2 == Opinion(calls[2].reply)
    <3>1. /\ calls[1].model \in Models /\ Combined(v1, v2) \in Verdicts
          /\ JudgedRow.error \in {"", "parse_error"}
          /\ JudgedRow.label \in {"tie", Combined(v1, v2)}
          /\ JudgedRow.consistency \in {0, Consistency(v1, v2)}
          /\ \E s \in {Unit \div 2, ScoreOf(Combined(v1, v2))} :
                JudgedRow.score = Penalized(s, job.penalty)
      BY <1>4, <2>1, PairRow
    <3>2. ScoreOf(Combined(v1, v2)) \in Int
      <4>1. Combined(v1, v2) \in Verdicts
        BY <3>1
      <4>2. ScoreOf(Combined(v1, v2)) \in 0 .. Unit
        BY <4>1, ScoreMirrors
      <4>3. QED
        BY <1>1, <4>2
    <3>3. JudgedRow.score \in 0 .. Unit
      <4>1. PICK s \in Int : JudgedRow.score = Penalized(s, job.penalty)
        BY <1>1, <3>1, <3>2
      <4>2. Penalized(s, job.penalty) \in 0 .. Unit
        BY <1>3, PenalizedIn
      <4>3. QED
        BY <4>1, <4>2
    <3>4. Consistency(v1, v2) \in {0, 1}
      BY DEF Consistency
    <3>5. JudgedRow.error \in Errors /\ "tie" \in Verdicts
      BY <3>1 DEF Errors, Verdicts
    <3>6. QED
      BY <3>1, <3>3, <3>4, <3>5
  <2>2. CASE ~ job.pairwise
    <3>1. /\ calls[1].model \in Models
          /\ JudgedRow.error \in {"", "parse_error"}
          /\ JudgedRow.label = None /\ JudgedRow.consistency = None
          /\ \E s \in Int : JudgedRow.score = Penalized(s, job.penalty)
      <4>1. 0 \in Int
        OBVIOUS
      <4>2. Rating(calls[1].reply) \in Nat =>
                Normalized(Rating(calls[1].reply), job.lo, job.hi) \in Int
        <5>1. SUFFICES ASSUME NEW n \in Nat PROVE Normalized(n, job.lo, job.hi) \in Int
          BY Zenon
        <5>2. Normalized(n, job.lo, job.hi) \in 0 .. Unit
          BY <1>1, <1>3, n \in Int, NormalizedIn
        <5>3. QED
          BY <1>1, <5>2
      <4>3. QED
        BY <1>4, <2>2, <4>1, <4>2, SingleRow
    <3>2. JudgedRow.score \in 0 .. Unit
      <4>1. PICK s \in Int : JudgedRow.score = Penalized(s, job.penalty)
        BY <3>1
      <4>2. Penalized(s, job.penalty) \in 0 .. Unit
        BY <1>3, PenalizedIn
      <4>3. QED
        BY <4>1, <4>2
    <3>3. JudgedRow.error \in Errors
      BY <3>1 DEF Errors
    <3>4. QED
      BY <3>1, <3>2, <3>3
  <2>3. QED
    BY <2>1, <2>2
<1>5. ASSUME Judged PROVE JudgedRow \in Rows
  <2>1. JudgedRow.score \in Int
    BY <1>1, <1>4, <1>5
  <2>2. Cost \in Nat /\ FallbackUsed \in BOOLEAN /\ Warning \in BOOLEAN
    BY <1>5, CostIs DEF FallbackUsed, Warning
  <2>3. JudgedRow = [error |-> JudgedRow.error, score |-> JudgedRow.score,
                     label |-> JudgedRow.label, consistency |-> JudgedRow.consistency,
                     model |-> calls[1].model, cost |-> Cost, fallback |-> FallbackUsed,
                     warning |-> Warning]
    BY DEF JudgedRow
  <2> DEFINE e == JudgedRow.error
             s == JudgedRow.score
             l == JudgedRow.label
             y == JudgedRow.consistency
  <2>4. /\ e \in Errors /\ s \in Int /\ l \in Verdicts \union {None}
        /\ y \in {0, 1, None} /\ calls[1].model \in Models
    BY <1>4, <1>5, <2>1
  <2> HIDE DEF e, s, l, y
  <2>5. [error |-> e, score |-> s, label |-> l, consistency |-> y, model |-> calls[1].model,
         cost |-> Cost, fallback |-> FallbackUsed, warning |-> Warning] \in Rows
    BY <2>2, <2>4 DEF Rows
  <2>6. QED
    BY <2>3, <2>5 DEF e, s, l, y
<1>6. QED
  BY <1>2, <1>4, <1>5

-----------------------------------------------------------------------------
(* The theorems                                                            *)

(* What is known of a row that says how a pair or an output was judged.    *)
LEMMA RowIs ==
    ASSUME IInv, row # None
    PROVE  /\ row = ErrorRow \/ (Judged /\ row = JudgedRow)
           /\ row.error # "judge_error" => Judged /\ row = JudgedRow
<1>1. row = ErrorRow \/ (Judged /\ row = JudgedRow)
  BY DEF IInv, Judged
<1>2. ErrorRow.error = "judge_error"
  BY DEF ErrorRow
<1>3. QED
  BY <1>1, <1>2

(* Every variable has its type: in particular the row of any metric, with  *)
(* a scale of one value or a reversed one, of any reply and any penalty    *)
(* has a score in the unit interval, and there is one exactly at the end.  *)
THEOREM TypeCorrect ==
    ASSUME JudgeAssumption
    PROVE  Spec => []TypeOK
<1>1. ASSUME IInv PROVE TypeOK
  <2>1. job \in Jobs /\ stage \in Kinds /\ Len(calls) <= Passes(job)
    BY <1>1 DEF IInv
  <2>2. \A i \in DOMAIN calls : calls[i].model \in Models /\ calls[i].reply \in Replies
    BY <1>1, CallsAre
  <2>3. stage = "done" => row \in Rows /\ row.score \in 0 .. Unit
    <3>1. stage = "done" => row = ErrorRow \/ (Judged /\ row = JudgedRow)
      BY <1>1 DEF IInv, Judged
    <3>2. QED
      BY <1>1, <3>1, RowTyped
  <2>4. (row # None) <=> (stage = "done")
    BY <1>1, <2>3 DEF IInv, JudgeAssumption
  <2>5. QED
    BY <2>1, <2>2, <2>3, <2>4 DEF TypeOK, Kinds
<1>2. QED
  BY <1>1, InvHolds, PTL

(* A pair of clear replies is decided exactly when both passes mean the    *)
(* same output, in whichever slot it stood.                                *)
THEOREM DecisionsAreAgreed ==
    ASSUME JudgeAssumption
    PROVE  Spec => []DecisiveIsAgreed
<1>1. ASSUME IInv PROVE DecisiveIsAgreed
  <2>1. SUFFICES ASSUME row # None, job.pairwise, row.error = "",
                        \A i \in 1 .. 2 : Clear(calls[i].reply)
                 PROVE  /\ row.label = IF Meant(1) = Swapped(Meant(2)) THEN Meant(1) ELSE "tie"
                        /\ row.consistency = IF row.label = "tie" THEN 0 ELSE 1
    BY DEF DecisiveIsAgreed
  <2> DEFINE v1 == Opinion(calls[1].reply)
             v2 == Opinion(calls[2].reply)
  <2>2. Judged /\ row = JudgedRow
    BY <1>1, <2>1, RowIs
  <2>3. /\ calls[1].reply \in Opinions /\ calls[2].reply \in Opinions
        /\ row.label = Combined(v1, v2) /\ row.consistency = Consistency(v1, v2)
    BY <1>1, <2>1, <2>2, PairRow
  <2>4. v1 = Meant(1) /\ v2 = Meant(2)
    <3>1. 1 \in 1 .. 2 /\ 2 \in 1 .. 2
      OBVIOUS
    <3>2. Clear(calls[1].reply) /\ Clear(calls[2].reply)
      BY <2>1, <3>1, Zenon
    <3>3. QED
      BY <2>3, <3>2, ClearIsRead DEF Meant
  <2>5. QED
    BY <2>3, <2>4 DEF Combined, Consistency
<1>2. QED
  BY <1>1, InvHolds, PTL

(* With the outputs of a record exchanged the same answers, given in the   *)
(* other order, score the opposite.                                        *)
THEOREM ExchangesMirror ==
    ASSUME JudgeAssumption
    PROVE  Spec => []ExchangeMirrors
<1>1. ASSUME IInv PROVE ExchangeMirrors
  <2> DEFINE v1 == Opinion(calls[1].reply)
             v2 == Opinion(calls[2].reply)
  <2>1. SUFFICES ASSUME row # None, job.pairwise, row.error = "", job.penalty = 0
                 PROVE  ScoreOf(Combined(v2, v1)) = Unit - row.score
    BY DEF ExchangeMirrors
  <2>2. Judged /\ row = JudgedRow
    BY <1>1, <2>1, RowIs
  <2>3. /\ v1 \in Verdicts /\ v2 \in Verdicts
        /\ row.score = Penalized(ScoreOf(Combined(v1, v2)), job.penalty)
    BY <1>1, <2>1, <2>2, PairRow
  <2> DEFINE v == Combined(v1, v2)
  <2>4. v \in Verdicts /\ Combined(v2, v1) = Swapped(v)
    BY <2>3, CombinedIsVerdict
  <2> HIDE DEF v1, v2, v
  <2>5. ScoreOf(v) \in 0 .. Unit /\ ScoreOf(Swapped(v)) = Unit - ScoreOf(v)
    BY <2>4, ScoreMirrors
  <2>6. row.score = ScoreOf(v)
    <3>1. row.score = Penalized(ScoreOf(v), 0)
      BY <2>1, <2>3 DEF v
    <3>2. ScoreOf(v) \in Int /\ 0 \in Int
      BY <2>5 DEF JudgeAssumption
    <3>3. Penalized(ScoreOf(v), 0) = ScoreOf(v)
      BY <2>5, <3>2, PenalizedIn
    <3>4. QED
      BY <3>1, <3>3
  <2>7. QED
    BY <2>4, <2>5, <2>6
<1>2. QED
  BY <1>1, InvHolds, PTL

(* A better rating never scores less, on a scale of any bounds, for        *)
(* ratings outside of it and under any length penalty.                     *)
THEOREM BetterIsNoWorse ==
    ASSUME JudgeAssumption
    PROVE  Spec => []BetterScoresNoLess
<1>1. ASSUME IInv PROVE BetterScoresNoLess
  <2>1. SUFFICES ASSUME row # None, ~ job.pairwise, row.error = "", NEW reply \in Ratings,
                        HasRating(reply), Rating(reply) >= Rating(calls[1].reply)
                 PROVE  Penalized(Normalized(Rating(reply), job.lo, job.hi), job.penalty)
                            >= row.score
    BY DEF BetterScoresNoLess
  <2>2. Judged /\ row = JudgedRow
    BY <1>1, <2>1, RowIs
  <2> DEFINE a == Rating(calls[1].reply)
             b == Rating(reply)
             na == Normalized(a, job.lo, job.hi)
             nb == Normalized(b, job.lo, job.hi)
  <2>3. /\ a \in Nat
        /\ row.score = Penalized(na, job.penalty)
    <3>1. "" # "parse_error"
      OBVIOUS
    <3>2. QED
      BY <1>1, <2>1, <2>2, <3>1, SingleRow
  <2>4. b \in Nat /\ a <= b
    <3>1. b \in Nat
      BY <2>1, RatingIsNumber
    <3>2. b >= a
      BY <2>1
    <3>3. QED
      BY <2>3, <3>1, <3>2
  <2>5. job.lo \in Int /\ job.hi \in Int /\ job.penalty \in Int /\ Unit \in Nat
    BY <1>1, JobTyped DEF IInv, JudgeAssumption
  <2> HIDE DEF a, b
  <2>6. a \in Int /\ b \in Int
    BY <2>3, <2>4
  <2>7. na \in 0 .. Unit /\ nb \in 0 .. Unit /\ na <= nb
    BY <2>4, <2>5, <2>6, NormalizedIn, NormalizedOrder
  <2> HIDE DEF na, nb
  <2>8. na \in Int /\ nb \in Int /\ nb >= na
    BY <2>5, <2>7
  <2>9. Penalized(nb, job.penalty) >= Penalized(na, job.penalty)
    BY <2>5, <2>8, PenalizedIn
  <2>10. QED
    BY <2>3, <2>9 DEF nb, b
<1>2. QED
  BY <1>1, InvHolds, PTL

(* A row accounts for all answers it rests on: what they cost together,    *)
(* whether a fallback gave one, and the family that is warned about.       *)
THEOREM RowsAccountForCalls ==
    ASSUME JudgeAssumption
    PROVE  Spec => []RowAccountsForCalls
<1>1. ASSUME IInv PROVE RowAccountsForCalls
  <2>1. SUFFICES ASSUME row # None, row.error # "judge_error"
                 PROVE  /\ row.cost = FoldSeq(LAMBDA call, sum : Price[call.model] + sum, 0, calls)
                        /\ row.fallback <=> \E i \in 1 .. Passes(job) : calls[i].fallback
                        /\ row.warning => \E i \in 1 .. Passes(job) :
                                             Family[calls[i].model] = job.generator
    BY Zenon DEF RowAccountsForCalls
  <2>2. Judged /\ row = JudgedRow
    BY <1>1, <2>1, RowIs
  <2>3. row.cost = Cost /\ row.fallback = FallbackUsed /\ row.warning = Warning
    BY <2>2 DEF JudgedRow
  <2>4. row.cost = FoldSeq(LAMBDA call, sum : Price[call.model] + sum, 0, calls)
    BY <1>1, <2>2, <2>3, CostIs, Zenon
  <2>5. row.fallback <=> \E i \in 1 .. Passes(job) : calls[i].fallback
    <3>1. DOMAIN calls = 1 .. Passes(job)
      BY <1>1, <2>2, CallsAre DEF Judged
    <3>2. QED
      BY <2>3, <3>1 DEF FallbackUsed
  <2>6. row.warning => \E i \in 1 .. Passes(job) : Family[calls[i].model] = job.generator
    <3>1. 1 \in 1 .. Passes(job)
      BY DEF Passes
    <3>2. row.warning => Family[calls[1].model] = job.generator
      BY <2>3 DEF Warning
    <3>3. QED
      BY <3>1, <3>2
  <2>7. QED
    BY <2>4, <2>5, <2>6
<1>2. QED
  BY <1>1, InvHolds, PTL

=============================================================================
