--------------------------- MODULE TracingProofs ---------------------------
(***************************************************************************)
(* A traced program keeps what its readers rely on, whichever SDK it uses, *)
(* for any calls, threads, tasks and bounds: the steps of SpanTree that    *)
(* both SDKs take, the inductive invariant of a program that uses the      *)
(* TypeScript SDK, that of one that uses the Python SDK, and the theorems  *)
(* about Tracing.                                                          *)
(***************************************************************************)
EXTENDS Tracing, SequenceTheorems, TLAPS

-----------------------------------------------------------------------------
(* What the proofs about both SDKs share: sequences, and the steps of      *)
(* SpanTree written over the values of its variables.                      *)

(* One step of SpanTree, from trees t and sent trees s to t1 and s1.       *)
BeginStep(c, t, s, t1, s1) ==
    t[c] = <<>> /\ t1 = [t EXCEPT ![c] = <<0>>] /\ s1 = s
GrowStep(c, t, s, t1, s1) ==
    (\E p \in DOMAIN t[c] : t1 = [t EXCEPT ![c] = Append(@, p)]) /\ s1 = s
SendStep(c, t, s, t1, s1) ==
    t[c] # <<>> /\ s[c] = <<>> /\ s1 = [s EXCEPT ![c] = <<t[c]>>] /\ t1 = t
TreeStep(t, s, t1, s1) ==
    \/ t1 = t /\ s1 = s
    \/ \E c \in Calls : \/ BeginStep(c, t, s, t1, s1)
                        \/ GrowStep(c, t, s, t1, s1)
                        \/ SendStep(c, t, s, t1, s1)

-----------------------------------------------------------------------------
LEMMA NoTree == ASSUME NEW t, DOMAIN t = {}, t = [n \in DOMAIN t |-> t[n]] PROVE t = <<>>
<1>1. t = [n \in 1 .. 0 |-> t[n]]
  OBVIOUS
<1>2. t \in Seq({}) /\ Len(t) = 0
  BY <1>1, IsASeq
<1>3. QED
  BY <1>2, EmptySeq

LEMMA GrownTree ==
    ASSUME NEW n \in Nat, NEW t \in [1 .. n -> Nat], NEW u \in [1 .. n + 1 -> Nat],
           \A i \in 1 .. n : u[i] = t[i]
    PROVE  u = Append(t, u[n + 1])
<1>1. t \in Seq(Nat) /\ Len(t) = n /\ u \in Seq(Nat) /\ Len(u) = n + 1
  OBVIOUS
<1>2. u[n + 1] \in Nat
  OBVIOUS
<1>3. /\ Append(t, u[n + 1]) \in Seq(Nat) /\ Len(Append(t, u[n + 1])) = n + 1
      /\ \A i \in 1 .. n : Append(t, u[n + 1])[i] = t[i]
      /\ Append(t, u[n + 1])[n + 1] = u[n + 1]
  BY <1>1, <1>2, AppendProperties
<1>4. \A i \in 1 .. n + 1 : Append(t, u[n + 1])[i] = u[i]
  BY <1>3
<1>5. QED
  BY <1>1, <1>3, <1>4, SeqEqual

LEMMA OneElement == ASSUME NEW x PROVE /\ Len(<<x>>) = 1 /\ DOMAIN <<x>> = {1} /\ <<x>>[1] = x
                                        /\ <<x>> # <<>> /\ Append(<<>>, x) = <<x>>
OBVIOUS

(* The largest of a set of positions is the one no other is larger than.   *)
LEMMA MaxIs ==
    ASSUME NEW S \in SUBSET Nat, NEW m \in S, \A n \in S : m >= n
    PROVE  Py!Max(S) = m
<1>1. \E x \in S : \A y \in S : x >= y
  OBVIOUS
<1>2. Py!Max(S) \in S /\ \A y \in S : Py!Max(S) >= y
  BY <1>1 DEF Py!Max
<1>3. /\ Py!Max(S) \in Nat /\ m \in Nat
      /\ Py!Max(S) >= m /\ m >= Py!Max(S)
  BY <1>2
<1>4. QED
  BY <1>3

-----------------------------------------------------------------------------
(* The inductive invariant                                                 *)

TsSpans == [parent : 0 .. MaxSpans, by : Calls, ended : BOOLEAN]
TsFrames == [call : Calls, prev : Calls \union {None}]

TsTyped ==
    /\ store \in {"als", "slot"}
    /\ stack \in Seq(TsFrames)
    /\ active \in Calls \union {None}
    /\ phase \in [Calls -> {"idle", "running", "pending", "settled", "done"}]
    /\ spans \in [Calls -> Seq(TsSpans)]
    /\ spanStack \in [Calls -> Seq(Nat)]
    /\ sent \in [Calls -> Seq(Seq(TsSpans))]
    /\ lost \subseteq Calls /\ untidy \subseteq Calls

(* What als.get() returns while the i-th frame is on top of the stack.     *)
Seen(i) ==
    IF i # 0 /\ (store = "als" \/ phase[stack[i].call] = "running")
    THEN stack[i].call ELSE None

(* The frames of the code that runs: each call is there once, and the      *)
(* store holds, and will hold again, what its code may see.                *)
FramesNest ==
    /\ \A i \in 1 .. Len(stack) :
        /\ phase[stack[i].call] # "idle"
        /\ stack[i].prev = Seen(i - 1)
        /\ \A j \in 1 .. Len(stack) : stack[i].call = stack[j].call => i = j
    /\ active = Seen(Len(stack))

(* The spans of one trace and its span stack.                              *)
StackIsOpen(c) ==
    /\ Len(spans[c]) <= MaxSpans
    /\ IF phase[c] = "idle" THEN spans[c] = <<>> /\ spanStack[c] = <<>>
       ELSE /\ spans[c] # <<>> /\ spans[c][1].parent = 0
            /\ spanStack[c] # <<>> /\ spanStack[c][1] = 1
    /\ \A i \in 1 .. Len(spanStack[c]) : spanStack[c][i] \in 1 .. Len(spans[c])
    /\ \A i, j \in 1 .. Len(spanStack[c]) : i < j => spanStack[c][i] < spanStack[c][j]
    /\ Ts!OpenSpans(c) \subseteq Ts!Range(spanStack[c])
    /\ c \notin untidy => Ts!Range(spanStack[c]) = Ts!OpenSpans(c)

OneSent == \A c \in Calls : Len(sent[c]) = (IF phase[c] = "done" THEN 1 ELSE 0)

TsInv ==
    /\ TsTyped
    /\ FramesNest
    /\ \A c \in Calls : StackIsOpen(c)
    /\ OneSent
    /\ Ts!SpansStayHome

-----------------------------------------------------------------------------
LEMMA LastAndFront ==
    ASSUME NEW S, NEW s \in Seq(S), s # <<>>
    PROVE  /\ Len(s) \in Nat \ {0} /\ Ts!Last(s) = s[Len(s)] /\ s[Len(s)] \in S
           /\ Ts!Front(s) \in Seq(S) /\ Len(Ts!Front(s)) = Len(s) - 1
           /\ \A i \in 1 .. Len(s) - 1 : Ts!Front(s)[i] = s[i]
<1>1. Len(s) \in Nat \ {0} /\ DOMAIN s = 1 .. Len(s)
  BY EmptySeq, LenProperties
<1>2. s[Len(s)] \in S
  BY <1>1, ElementOfSeq
<1>3. /\ SubSeq(s, 1, Len(s) - 1) \in Seq(S)
      /\ Len(SubSeq(s, 1, Len(s) - 1)) = Len(s) - 1
      /\ \A i \in 1 .. Len(s) - 1 : SubSeq(s, 1, Len(s) - 1)[i] = s[i]
  BY <1>1
<1>4. QED
  BY <1>1, <1>2, <1>3 DEF Ts!Last, Ts!Front

LEMMA TsInitInv == ASSUME TracingAssumption, Ts!Init PROVE TsInv
<1>1. TsTyped
  BY EmptySeq DEF Ts!Init, TsTyped
<1>2. FramesNest /\ OneSent /\ Ts!SpansStayHome
  BY EmptySeq DEF Ts!Init, FramesNest, Seen, OneSent, Ts!SpansStayHome
<1>3. \A c \in Calls : StackIsOpen(c)
  <2> SUFFICES ASSUME NEW c \in Calls PROVE StackIsOpen(c)
    OBVIOUS
  <2>1. Ts!OpenSpans(c) = {} /\ Ts!Range(spanStack[c]) = {}
    BY DEF Ts!Init, Ts!OpenSpans, Ts!Range
  <2>2. QED
    BY <2>1, EmptySeq DEF Ts!Init, StackIsOpen, TracingAssumption
<1>4. QED
  BY <1>1, <1>2, <1>3 DEF TsInv

-----------------------------------------------------------------------------
(* The steps that change the code that runs.                               *)

(* A frame is pushed.                                                      *)
LEMMA PushFrame ==
    ASSUME TsTyped, FramesNest, NEW c \in Calls,
           phase' \in [Calls -> {"idle", "running", "pending", "settled", "done"}],
           stack' = Append(stack, [call |-> c, prev |-> active]),
           UNCHANGED store,
           phase'[c] # "idle",
           active' = IF store = "als" \/ phase'[c] = "running" THEN c ELSE None,
           \A i \in 1 .. Len(stack) :
               stack[i].call # c /\ phase'[stack[i].call] = phase[stack[i].call]
    PROVE  FramesNest'
<1> DEFINE f == [call |-> c, prev |-> active]
<1>0. PICK n \in Nat : n = Len(stack)
  BY LenProperties DEF TsTyped
<1>1. /\ n \in Nat /\ Len(stack') = n + 1
      /\ stack'[n + 1].call = c /\ stack'[n + 1].prev = active
      /\ \A i \in 1 .. n : stack'[i] = stack[i]
  <2>1. f \in TsFrames
    BY DEF TsTyped, TsFrames
  <2>2. QED
    BY <1>0, <2>1, AppendProperties, LenProperties DEF TsTyped
<1>2. /\ \A i \in 1 .. n : phase[stack[i].call] # "idle" /\ stack[i].prev = Seen(i - 1)
      /\ \A i, j \in 1 .. n : stack[i].call = stack[j].call => i = j
      /\ active = Seen(n)
  BY <1>0 DEF FramesNest
<1>3. \A i \in 1 .. n : stack[i].call # c /\ phase'[stack[i].call] = phase[stack[i].call]
  BY <1>0
<1> HIDE DEF f
<1>4. \A i \in 0 .. n : Seen(i)' = Seen(i)
  BY <1>1, <1>3 DEF Seen
<1>5. Seen(n + 1)' = active'
  BY <1>1 DEF Seen
<1>6. ASSUME NEW i \in 1 .. n + 1
      PROVE  /\ phase'[stack'[i].call] # "idle"
             /\ stack'[i].prev = Seen(i - 1)'
             /\ \A j \in 1 .. n + 1 : stack'[i].call = stack'[j].call => i = j
  <2>1. CASE i = n + 1
    BY <1>1, <1>2, <1>3, <1>4, <2>1
  <2>2. CASE i \in 1 .. n
    <3>1. i - 1 \in 0 .. n
      BY <2>2
    <3>2. Seen(i - 1)' = Seen(i - 1)
      BY <1>4, <3>1
    <3>3. stack'[i] = stack[i] /\ stack[i].prev = Seen(i - 1)
      BY <1>1, <1>2, <2>2
    <3>4. phase'[stack'[i].call] # "idle"
      BY <1>2, <1>3, <2>2, <3>3
    <3>5. \A j \in 1 .. n + 1 : stack'[i].call = stack'[j].call => i = j
      BY <1>1, <1>2, <1>3, <2>2
    <3>6. QED
      BY <3>2, <3>3, <3>4, <3>5
  <2>3. QED
    BY <1>1, <2>1, <2>2
<1>7. QED
  BY <1>1, <1>5, <1>6 DEF FramesNest

(* The frame on top is popped.                                             *)
LEMMA PopFrame ==
    ASSUME TsTyped, FramesNest, stack # <<>>, Ts!RunEnds, UNCHANGED store,
           phase' \in [Calls -> {"idle", "running", "pending", "settled", "done"}],
           \A i \in 1 .. Len(stack) - 1 : phase'[stack[i].call] = phase[stack[i].call]
    PROVE  FramesNest' /\ stack' \in Seq(TsFrames) /\ active' \in Calls \union {None}
<1>0. PICK n \in Nat : n = Len(stack)
  BY LenProperties DEF TsTyped
<1>1. /\ n \in Nat \ {0} /\ stack' \in Seq(TsFrames) /\ Len(stack') = n - 1
      /\ \A i \in 1 .. n - 1 : stack'[i] = stack[i]
      /\ active' = stack[n].prev /\ stack[n] \in TsFrames
  BY <1>0, LastAndFront DEF TsTyped, Ts!RunEnds
<1>2. /\ \A i \in 1 .. n : phase[stack[i].call] # "idle" /\ stack[i].prev = Seen(i - 1)
      /\ \A i, j \in 1 .. n : stack[i].call = stack[j].call => i = j
  BY <1>0 DEF FramesNest
<1>3. \A i \in 1 .. n - 1 : phase'[stack[i].call] = phase[stack[i].call]
  BY <1>0
<1>4. \A i \in 0 .. n - 1 : Seen(i)' = Seen(i)
  BY <1>1, <1>3 DEF Seen
<1>5. active' = Seen(n - 1)'
  BY <1>1, <1>2, <1>4
<1>6. ASSUME NEW i \in 1 .. n - 1
      PROVE  /\ phase'[stack'[i].call] # "idle"
             /\ stack'[i].prev = Seen(i - 1)'
             /\ \A j \in 1 .. n - 1 : stack'[i].call = stack'[j].call => i = j
  <2>1. i \in 1 .. n /\ i - 1 \in 0 .. n - 1 /\ \A j \in 1 .. n - 1 : j \in 1 .. n
    OBVIOUS
  <2>2. Seen(i - 1)' = Seen(i - 1)
    BY <1>4, <2>1
  <2>3. stack'[i] = stack[i] /\ stack[i].prev = Seen(i - 1)
    BY <1>1, <1>2, <2>1
  <2>4. phase'[stack'[i].call] # "idle"
    BY <1>2, <1>3, <2>1, <2>3
  <2>5. \A j \in 1 .. n - 1 : stack'[i].call = stack'[j].call => i = j
    BY <1>1, <1>2, <2>1
  <2>6. QED
    BY <2>2, <2>3, <2>4, <2>5
<1>7. QED
  BY <1>1, <1>5, <1>6 DEF FramesNest, TsFrames

-----------------------------------------------------------------------------
(* The steps that change spans and span stacks.                            *)

LEMMA SameStack ==
    ASSUME NEW c \in Calls, StackIsOpen(c),
           spans'[c] = spans[c], spanStack'[c] = spanStack[c],
           phase'[c] = "idle" <=> phase[c] = "idle",
           c \in untidy' <=> c \in untidy
    PROVE  StackIsOpen(c)'
BY DEF StackIsOpen, Ts!OpenSpans, Ts!Range

(* A span ends: nothing else of it changes.                                *)
LEMMA SpanEnds ==
    ASSUME TsTyped, NEW c \in Calls, NEW n \in DOMAIN spans[c],
           spans' = [spans EXCEPT ![c][n].ended = TRUE]
    PROVE  /\ spans' \in [Calls -> Seq(TsSpans)]
           /\ Len(spans'[c]) = Len(spans[c]) /\ DOMAIN spans'[c] = DOMAIN spans[c]
           /\ \A d \in Calls : d # c => spans'[d] = spans[d]
           /\ \A i \in DOMAIN spans[c] :
                /\ spans'[c][i].parent = spans[c][i].parent
                /\ spans'[c][i].by = spans[c][i].by
                /\ spans'[c][i].ended = (i = n \/ spans[c][i].ended)
<1> DEFINE s == spans[c]
           t == [s EXCEPT ![n].ended = TRUE]
<1>1. s \in Seq(TsSpans) /\ Len(s) \in Nat /\ DOMAIN s = 1 .. Len(s)
  BY LenProperties DEF TsTyped
<1>2. \A i \in DOMAIN s : s[i] \in TsSpans
  BY <1>1, ElementOfSeq
<1>3. spans' = [spans EXCEPT ![c] = t]
  OBVIOUS
<1>4. /\ DOMAIN t = DOMAIN s /\ \A i \in DOMAIN s : t[i] \in TsSpans
      /\ \A i \in DOMAIN s : /\ t[i].parent = s[i].parent /\ t[i].by = s[i].by
                             /\ t[i].ended = (i = n \/ s[i].ended)
  <2>1. DOMAIN t = DOMAIN s
    OBVIOUS
  <2>2. ASSUME NEW i \in DOMAIN s
        PROVE  /\ t[i] \in TsSpans /\ t[i].parent = s[i].parent /\ t[i].by = s[i].by
               /\ t[i].ended = (i = n \/ s[i].ended)
    <3>1. CASE i = n
      <4>1. t[i] = [s[n] EXCEPT !.ended = TRUE] /\ s[n] \in TsSpans
        BY <3>1, <1>2
      <4>2. QED
        BY <3>1, <4>1 DEF TsSpans
    <3>2. CASE i # n
      <4>1. t[i] = s[i] /\ s[i] \in TsSpans
        BY <3>2, <1>2
      <4>2. QED
        BY <3>2, <4>1 DEF TsSpans
    <3>3. QED
      BY <3>1, <3>2
  <2>3. QED
    BY <2>1, <2>2
<1> HIDE DEF t
<1>5. t \in Seq(TsSpans) /\ Len(t) = Len(s)
  <2>1. t = [i \in 1 .. Len(s) |-> t[i]]
    BY <1>1, <1>4 DEF t
  <2>2. QED
    BY <1>1, <1>4, <2>1, IsASeq
<1>6. spans'[c] = t /\ \A d \in Calls : d # c => spans'[d] = spans[d]
  BY <1>3 DEF TsTyped
<1>7. spans' \in [Calls -> Seq(TsSpans)]
  BY <1>3, <1>5 DEF TsTyped
<1>8. QED
  BY <1>4, <1>5, <1>6, <1>7

(* The root ends.                                                          *)
LEMMA RootEnds ==
    ASSUME TsTyped, NEW c \in Calls, StackIsOpen(c), phase[c] # "idle",
           spans' = [spans EXCEPT ![c][1].ended = TRUE],
           UNCHANGED <<spanStack, untidy>>, phase'[c] # "idle"
    PROVE  /\ StackIsOpen(c)'
           /\ 1 \in DOMAIN spans[c]
           /\ spans' \in [Calls -> Seq(TsSpans)]
           /\ \A d \in Calls : d # c => spans'[d] = spans[d]
<1>1. 1 \in DOMAIN spans[c] /\ DOMAIN spans[c] = 1 .. Len(spans[c]) /\ Len(spans[c]) \in Nat
  BY EmptySeq, LenProperties DEF TsTyped, StackIsOpen
<1>2. /\ spans' \in [Calls -> Seq(TsSpans)]
      /\ Len(spans'[c]) = Len(spans[c]) /\ DOMAIN spans'[c] = DOMAIN spans[c]
      /\ \A d \in Calls : d # c => spans'[d] = spans[d]
      /\ \A i \in DOMAIN spans[c] :
            /\ spans'[c][i].parent = spans[c][i].parent
            /\ spans'[c][i].ended = (i = 1 \/ spans[c][i].ended)
  BY <1>1, SpanEnds, ZenonT(60)
<1>3. Ts!OpenSpans(c)' = Ts!OpenSpans(c)
  BY <1>2 DEF Ts!OpenSpans
<1>4. Ts!Range(spanStack[c])' = Ts!Range(spanStack[c])
  OBVIOUS
<1>5. spans'[c] # <<>>
  BY <1>1, <1>2, EmptySeq
<1>6. QED
  BY <1>1, <1>2, <1>3, <1>4, <1>5 DEF StackIsOpen

(* A call begins with its root.                                            *)
LEMMA RootOpens ==
    ASSUME TracingAssumption, TsTyped, NEW c \in Calls, StackIsOpen(c), phase[c] = "idle",
           spans' = [spans EXCEPT ![c] = <<Ts!Span(0, c)>>],
           spanStack' = [spanStack EXCEPT ![c] = << 1 >>],
           UNCHANGED untidy, phase'[c] # "idle"
    PROVE  /\ StackIsOpen(c)'
           /\ spans' \in [Calls -> Seq(TsSpans)] /\ spanStack' \in [Calls -> Seq(Nat)]
           /\ spans'[c] = <<Ts!Span(0, c)>>
           /\ \A d \in Calls : d # c => spans'[d] = spans[d] /\ spanStack'[d] = spanStack[d]
<1>1. Ts!Span(0, c) \in TsSpans /\ Ts!Span(0, c).parent = 0
  BY DEF Ts!Span, TsSpans, TracingAssumption
<1>2. /\ spans'[c] = <<Ts!Span(0, c)>> /\ spanStack'[c] = <<1>>
      /\ \A d \in Calls : d # c => spans'[d] = spans[d] /\ spanStack'[d] = spanStack[d]
  BY DEF TsTyped
<1>3. spans' \in [Calls -> Seq(TsSpans)] /\ spanStack' \in [Calls -> Seq(Nat)]
  BY <1>1 DEF TsTyped
<1>4. /\ Len(spans'[c]) = 1 /\ DOMAIN spans'[c] = {1} /\ spans'[c] # <<>>
      /\ spans'[c][1].parent = 0
      /\ Len(spanStack'[c]) = 1 /\ DOMAIN spanStack'[c] = {1} /\ spanStack'[c] # <<>>
      /\ spanStack'[c][1] = 1
  BY <1>1, <1>2
<1>5. Ts!OpenSpans(c)' = {1} /\ Ts!Range(spanStack[c])' = {1}
  BY <1>4 DEF Ts!OpenSpans, Ts!Range
<1>6. QED
  BY <1>2, <1>3, <1>4, <1>5 DEF StackIsOpen, TracingAssumption

(* A span opens under the one on top of the stack.                         *)
LEMMA SpanOpens ==
    ASSUME TracingAssumption, TsTyped, NEW c \in Calls, StackIsOpen(c), phase[c] # "idle",
           Len(spans[c]) < MaxSpans, NEW b \in Calls,
           spans' = [spans EXCEPT ![c] = Append(@, Ts!Span(Ts!Last(spanStack[c]), b))],
           spanStack' = [spanStack EXCEPT ![c] = Append(@, Len(spans'[c]))],
           UNCHANGED <<phase, untidy>>
    PROVE  /\ StackIsOpen(c)'
           /\ Ts!Last(spanStack[c]) \in 1 .. Len(spans[c])
           /\ spans' \in [Calls -> Seq(TsSpans)] /\ spanStack' \in [Calls -> Seq(Nat)]
           /\ spans'[c] = Append(spans[c], Ts!Span(Ts!Last(spanStack[c]), b))
           /\ \A d \in Calls : d # c => spans'[d] = spans[d] /\ spanStack'[d] = spanStack[d]
<1> DEFINE top == Ts!Last(spanStack[c])
           f == Ts!Span(top, b)
<1>1. PICK n \in Nat : n = Len(spans[c])
  BY LenProperties DEF TsTyped
<1>2. PICK m \in Nat \ {0} : m = Len(spanStack[c]) /\ top = spanStack[c][m]
  <2>1. spanStack[c] \in Seq(Nat) /\ spanStack[c] # <<>>
    BY DEF TsTyped, StackIsOpen
  <2>2. QED
    BY <2>1, LastAndFront
<1>3. top \in 1 .. n /\ n < MaxSpans
  BY <1>1, <1>2 DEF StackIsOpen
<1>4. f \in TsSpans /\ ~ f.ended
  BY <1>3 DEF Ts!Span, TsSpans, TracingAssumption
<1>5. /\ spans'[c] = Append(spans[c], f)
      /\ \A d \in Calls : d # c => spans'[d] = spans[d] /\ spanStack'[d] = spanStack[d]
  BY DEF TsTyped
<1> HIDE DEF f
<1>6. /\ spans'[c] \in Seq(TsSpans) /\ Len(spans'[c]) = n + 1
      /\ DOMAIN spans[c] = 1 .. n /\ DOMAIN spans'[c] = 1 .. n + 1
      /\ \A i \in 1 .. n : spans'[c][i] = spans[c][i]
      /\ spans'[c][n + 1] = f
  BY <1>1, <1>4, <1>5, AppendProperties, LenProperties DEF TsTyped
<1>7. spanStack'[c] = Append(spanStack[c], n + 1)
  BY <1>6 DEF TsTyped
<1>8. /\ spanStack'[c] \in Seq(Nat) /\ Len(spanStack'[c]) = m + 1
      /\ DOMAIN spanStack[c] = 1 .. m /\ DOMAIN spanStack'[c] = 1 .. m + 1
      /\ \A i \in 1 .. m : spanStack'[c][i] = spanStack[c][i]
      /\ spanStack'[c][m + 1] = n + 1
  BY <1>2, <1>7, AppendProperties, LenProperties DEF TsTyped
<1>9. spans' \in [Calls -> Seq(TsSpans)] /\ spanStack' \in [Calls -> Seq(Nat)]
  BY <1>5, <1>6, <1>8 DEF TsTyped
<1>10. Ts!OpenSpans(c)' = Ts!OpenSpans(c) \union {n + 1}
  BY <1>4, <1>6 DEF Ts!OpenSpans
<1>11. Ts!Range(spanStack[c])' = Ts!Range(spanStack[c]) \union {n + 1}
  BY <1>8, SMTT(60) DEF Ts!Range
<1>12. /\ Len(spans'[c]) <= MaxSpans
       /\ spans'[c] # <<>> /\ spans'[c][1].parent = 0
       /\ spanStack'[c] # <<>> /\ spanStack'[c][1] = 1
  <2>1. n \in Nat \ {0} /\ spans[c][1].parent = 0 /\ spanStack[c][1] = 1
    BY <1>3 DEF StackIsOpen
  <2>2. Len(spans'[c]) # 0 /\ Len(spanStack'[c]) # 0
    BY <1>2, <1>6, <1>8
  <2>3. spans'[c] # <<>> /\ spanStack'[c] # <<>>
    BY <2>2
  <2>4. QED
    BY <2>1, <2>3, <1>2, <1>3, <1>6, <1>8, SMTT(60) DEF TracingAssumption
<1>13. /\ \A i \in 1 .. m + 1 : spanStack'[c][i] \in 1 .. n + 1
       /\ \A i, j \in 1 .. m + 1 : i < j => spanStack'[c][i] < spanStack'[c][j]
  <2>1. /\ \A i \in 1 .. m : spanStack[c][i] \in 1 .. n
        /\ \A i, j \in 1 .. m : i < j => spanStack[c][i] < spanStack[c][j]
    BY <1>1, <1>2 DEF StackIsOpen
  <2>2. QED
    BY <2>1, <1>8, SMTT(60)
<1>14. StackIsOpen(c)'
  BY <1>6, <1>8, <1>10, <1>11, <1>12, <1>13 DEF StackIsOpen
<1>15. QED
  BY <1>1, <1>3, <1>5, <1>9, <1>14 DEF f

(* A span ends: if it is on top of the stack it leaves it.                 *)
LEMMA SpanCloses ==
    ASSUME TsTyped, NEW c \in Calls, StackIsOpen(c), NEW n \in Nat, Ts!End(c, n)
    PROVE  StackIsOpen(c)' /\ spanStack' \in [Calls -> Seq(Nat)]
<1>1. /\ n \in DOMAIN spans[c] \ {1}
      /\ spans' = [spans EXCEPT ![c][n].ended = TRUE]
      /\ spanStack' = [spanStack EXCEPT ![c] = Ts!PopIfTop(c, n)]
      /\ phase' = phase
  BY DEF Ts!End
<1>2. /\ Len(spans'[c]) = Len(spans[c]) /\ DOMAIN spans'[c] = DOMAIN spans[c]
      /\ \A i \in DOMAIN spans[c] :
            /\ spans'[c][i].parent = spans[c][i].parent
            /\ spans'[c][i].ended = (i = n \/ spans[c][i].ended)
  BY <1>1, SpanEnds
<1>3. DOMAIN spans[c] = 1 .. Len(spans[c]) /\ Len(spans[c]) \in Nat
  BY LenProperties DEF TsTyped
<1>4. phase[c] # "idle" /\ spans[c] # <<>> /\ spanStack[c] # <<>>
  BY <1>1, EmptySeq DEF StackIsOpen
<1>5. PICK m \in Nat \ {0} :
        /\ m = Len(spanStack[c]) /\ Ts!Last(spanStack[c]) = spanStack[c][m]
        /\ Ts!Front(spanStack[c]) \in Seq(Nat) /\ Len(Ts!Front(spanStack[c])) = m - 1
        /\ \A i \in 1 .. m - 1 : Ts!Front(spanStack[c])[i] = spanStack[c][i]
  BY <1>4, LastAndFront, ZenonT(60) DEF TsTyped
<1>6. /\ \A i \in 1 .. m : spanStack[c][i] \in 1 .. Len(spans[c])
      /\ \A i, j \in 1 .. m : i < j => spanStack[c][i] < spanStack[c][j]
      /\ spanStack[c][1] = 1 /\ spans[c][1].parent = 0 /\ Len(spans[c]) <= MaxSpans
  BY <1>4, <1>5 DEF StackIsOpen
<1>7. spanStack'[c] = Ts!PopIfTop(c, n)
  BY <1>1 DEF TsTyped
<1>8. spans'[c] # <<>> /\ spans'[c][1].parent = 0
  BY <1>1, <1>2, <1>3, <1>6, EmptySeq
<1>9. Ts!OpenSpans(c)' = Ts!OpenSpans(c) \ {n}
  BY <1>1, <1>2 DEF Ts!OpenSpans
<1>10. untidy' \subseteq untidy \union {c} /\ untidy \subseteq untidy'
  BY DEF Ts!End
<1>11. DOMAIN spanStack[c] = 1 .. m /\ Ts!Range(spanStack[c]) = {spanStack[c][i] : i \in 1 .. m}
  BY <1>5, LenProperties DEF Ts!Range, TsTyped
<1>12. CASE spanStack[c][m] = n
  <2>1. spanStack'[c] = Ts!Front(spanStack[c])
    BY <1>4, <1>5, <1>7, <1>12 DEF Ts!PopIfTop
  <2>2. m # 1
    BY <1>1, <1>6, <1>12
  <2>3. /\ spanStack'[c] \in Seq(Nat) /\ Len(spanStack'[c]) = m - 1
        /\ DOMAIN spanStack'[c] = 1 .. m - 1
        /\ \A i \in 1 .. m - 1 : spanStack'[c][i] = spanStack[c][i]
    BY <2>1, <1>5, LenProperties
  <2>4. spanStack'[c] # <<>> /\ spanStack'[c][1] = 1
    <3>1. 1 \in 1 .. m - 1 /\ Len(spanStack'[c]) # 0
      BY <2>2, <2>3
    <3>2. QED
      BY <3>1, <2>3, <1>6
  <2>5. \A i \in 1 .. m - 1 : spanStack[c][i] # n
    BY <1>3, <1>6, <1>12
  <2>6. Ts!Range(spanStack[c])' = Ts!Range(spanStack[c]) \ {n}
    <3>1. Ts!Range(spanStack[c])' = {spanStack[c][i] : i \in 1 .. m - 1}
      BY <2>3 DEF Ts!Range
    <3>2. \A i \in 1 .. m : i \in 1 .. m - 1 \/ i = m
      OBVIOUS
    <3>3. {spanStack[c][i] : i \in 1 .. m - 1} = {spanStack[c][i] : i \in 1 .. m} \ {n}
      BY <2>5, <1>12, <3>2
    <3>4. QED
      BY <3>1, <3>3, <1>11
  <2>7. /\ \A i \in 1 .. m - 1 : spanStack'[c][i] \in 1 .. Len(spans'[c])
        /\ \A i, j \in 1 .. m - 1 : i < j => spanStack'[c][i] < spanStack'[c][j]
    <3>1. \A i \in 1 .. m - 1 : i \in 1 .. m /\ spanStack'[c][i] = spanStack[c][i]
      BY <2>3
    <3>2. QED
      BY <3>1, <1>2, <1>6
  <2>8. StackIsOpen(c)'
    BY <1>1, <1>2, <1>4, <1>6, <1>8, <1>9, <1>10, <2>3, <2>4, <2>6, <2>7 DEF StackIsOpen
  <2>9. QED
    BY <2>3, <2>8, <1>1 DEF TsTyped
<1>13. CASE spanStack[c][m] # n
  <2>1. spanStack'[c] = spanStack[c]
    BY <1>5, <1>7, <1>13 DEF Ts!PopIfTop
  <2>2. c \notin untidy' => n \notin Ts!OpenSpans(c)
    <3>1. SUFFICES ASSUME c \notin untidy', n \in Ts!OpenSpans(c)
                   PROVE  FALSE
      OBVIOUS
    <3>2. \A i \in DOMAIN spans[c] : i > n => spans[c][i].ended
      BY <3>1, <1>1 DEF Ts!End, Ts!OpenSpans
    <3>3. PICK i \in 1 .. m : spanStack[c][i] = n
      BY <3>1, <1>10, <1>11 DEF StackIsOpen
    <3>4. i < m
      BY <3>3, <1>5, <1>13
    <3>5. spanStack[c][m] > n
      BY <3>3, <3>4, <1>3, <1>6
    <3>6. spanStack[c][m] \in Ts!OpenSpans(c)
      BY <3>1, <1>5, <1>10, <1>11 DEF StackIsOpen
    <3>7. QED
      BY <3>2, <3>5, <3>6, <1>1, <1>3 DEF Ts!OpenSpans
  <2>3. Ts!Range(spanStack[c])' = Ts!Range(spanStack[c])
    BY <2>1
  <2>4. /\ Ts!OpenSpans(c)' \subseteq Ts!Range(spanStack[c])'
        /\ c \notin untidy' => Ts!Range(spanStack[c])' = Ts!OpenSpans(c)'
    BY <2>2, <2>3, <1>9, <1>10 DEF StackIsOpen
  <2>5. StackIsOpen(c)'
    BY <1>1, <1>2, <1>4, <1>5, <1>6, <1>8, <2>1, <2>4 DEF StackIsOpen
  <2>6. QED
    BY <2>1, <2>5, <1>1 DEF TsTyped
<1>14. QED
  BY <1>12, <1>13

-----------------------------------------------------------------------------
(* Each step keeps the invariant.                                          *)

(* A call is finalized.                                                    *)
LEMMA Finishes ==
    ASSUME TsInv, NEW c \in Calls, phase[c] \notin {"idle", "done"}, Ts!Finalized(c),
           phase' = [phase EXCEPT ![c] = "done"],
           UNCHANGED <<store, spanStack, lost, untidy>>
    PROVE  /\ spans' \in [Calls -> Seq(TsSpans)] /\ sent' \in [Calls -> Seq(Seq(TsSpans))]
           /\ \A d \in Calls : StackIsOpen(d)'
           /\ OneSent' /\ Ts!SpansStayHome'
<1>1. /\ phase'[c] = "done" /\ \A d \in Calls : d # c => phase'[d] = phase[d]
      /\ StackIsOpen(c) /\ TsTyped
  BY DEF TsInv, TsTyped
<1>2. /\ StackIsOpen(c)' /\ 1 \in DOMAIN spans[c]
      /\ spans' \in [Calls -> Seq(TsSpans)]
      /\ \A d \in Calls : d # c => spans'[d] = spans[d]
  BY <1>1, RootEnds DEF Ts!Finalized
<1>3. \A d \in Calls : StackIsOpen(d)'
  <2> SUFFICES ASSUME NEW d \in Calls, d # c PROVE StackIsOpen(d)'
    BY <1>2
  <2>1. QED
    BY <1>1, <1>2, SameStack DEF TsInv
<1>4. /\ sent' \in [Calls -> Seq(Seq(TsSpans))] /\ Len(sent'[c]) = Len(sent[c]) + 1
      /\ \A d \in Calls : d # c => sent'[d] = sent[d]
  <2>1. spans'[c] \in Seq(TsSpans) /\ sent[c] \in Seq(Seq(TsSpans))
    BY <1>1, <1>2 DEF TsTyped
  <2>2. /\ Append(sent[c], spans'[c]) \in Seq(Seq(TsSpans))
        /\ Len(Append(sent[c], spans'[c])) = Len(sent[c]) + 1
    BY <2>1, AppendProperties
  <2>3. QED
    BY <1>1, <2>2 DEF TsTyped, Ts!Finalized
<1>5. OneSent'
  <2>1. Len(sent'[c]) = 1
    BY <1>4 DEF TsInv, OneSent
  <2>2. \A d \in Calls : d # c => Len(sent'[d]) = (IF phase'[d] = "done" THEN 1 ELSE 0)
    BY <1>1, <1>4 DEF TsInv, OneSent
  <2>3. QED
    BY <1>1, <2>1, <2>2 DEF OneSent
<1>6. \A n \in DOMAIN spans'[c] : spans'[c][n].by = c
  BY <1>1, <1>2, SpanEnds DEF TsInv, Ts!SpansStayHome, Ts!Finalized
<1>7. Ts!SpansStayHome'
  BY <1>1, <1>2, <1>6 DEF TsInv, Ts!SpansStayHome
<1>8. QED
  BY <1>2, <1>3, <1>4, <1>5, <1>7

LEMMA CallKeeps == ASSUME TracingAssumption, TsInv, NEW c \in Calls, Ts!Call(c) PROVE TsInv'
<1>1. /\ phase[c] = "idle" /\ phase'[c] = "running"
      /\ \A d \in Calls : d # c => phase'[d] = phase[d]
      /\ phase' \in [Calls -> {"idle", "running", "pending", "settled", "done"}]
      /\ StackIsOpen(c) /\ TsTyped /\ FramesNest
  BY DEF TsInv, TsTyped, Ts!Call
<1>2. /\ StackIsOpen(c)'
      /\ spans' \in [Calls -> Seq(TsSpans)] /\ spanStack' \in [Calls -> Seq(Nat)]
      /\ spans'[c] = <<Ts!Span(0, c)>>
      /\ \A d \in Calls : d # c => spans'[d] = spans[d] /\ spanStack'[d] = spanStack[d]
  BY <1>1, RootOpens DEF Ts!Call
<1>3. /\ stack' = Append(stack, [call |-> c, prev |-> active]) /\ active' = c
      /\ UNCHANGED <<store, sent, lost, untidy>>
  BY DEF Ts!Call, Ts!RunStarts
<1>4. \A i \in 1 .. Len(stack) : stack[i] \in TsFrames
  BY <1>1, ElementOfSeq DEF TsTyped
<1>5. \A i \in 1 .. Len(stack) :
        stack[i].call # c /\ phase'[stack[i].call] = phase[stack[i].call]
  BY <1>1, <1>4 DEF FramesNest, TsFrames
<1>6. FramesNest'
  BY <1>1, <1>3, <1>5, PushFrame
<1>7. TsTyped'
  <2>1. [call |-> c, prev |-> active] \in TsFrames
    BY <1>1 DEF TsTyped, TsFrames
  <2>2. stack' \in Seq(TsFrames)
    BY <1>1, <1>3, <2>1, AppendProperties DEF TsTyped
  <2>3. QED
    BY <1>1, <1>2, <1>3, <2>2 DEF TsTyped, TsFrames, TsSpans
<1>8. \A d \in Calls : StackIsOpen(d)'
  <2> SUFFICES ASSUME NEW d \in Calls, d # c PROVE StackIsOpen(d)'
    BY <1>2
  <2>1. QED
    BY <1>1, <1>2, <1>3, SameStack DEF TsInv
<1>9. OneSent'
  BY <1>1, <1>3 DEF TsInv, OneSent
<1>10. Ts!SpansStayHome'
  <2>1. \A n \in DOMAIN spans'[c] : spans'[c][n].by = c
    BY <1>2 DEF Ts!Span
  <2>2. \A d \in Calls : \A n \in DOMAIN spans'[d] : spans'[d][n].by = d
    BY <1>2, <2>1 DEF TsInv, Ts!SpansStayHome
  <2>3. \A d \in lost' : store' = "slot" /\ phase'[d] \notin {"idle", "running"}
    BY <1>1, <1>3 DEF TsInv, TsTyped, Ts!SpansStayHome
  <2>4. QED
    BY <2>2, <2>3 DEF Ts!SpansStayHome
<1>11. QED
  BY <1>6, <1>7, <1>8, <1>9, <1>10 DEF TsInv

(* The frames below the top are other calls than the one on top.           *)
LEMMA OthersBelow ==
    ASSUME TsTyped, FramesNest, stack # <<>>, NEW v, phase' = [phase EXCEPT ![Ts!Running] = v]
    PROVE  /\ Ts!Running \in Calls
           /\ \A i \in 1 .. Len(stack) - 1 : phase'[stack[i].call] = phase[stack[i].call]
<1>1. PICK n \in Nat \ {0} : n = Len(stack) /\ Ts!Running = stack[n].call /\ stack[n] \in TsFrames
  BY LastAndFront DEF TsTyped, Ts!Running
<1>2. \A i \in 1 .. n - 1 : i \in 1 .. n /\ n \in 1 .. n /\ i # n /\ stack[i] \in TsFrames
  BY <1>1, ElementOfSeq DEF TsTyped
<1>3. \A i \in 1 .. n - 1 : stack[i].call # stack[n].call
  BY <1>1, <1>2 DEF FramesNest
<1>4. QED
  BY <1>1, <1>2, <1>3 DEF TsTyped, TsFrames

LEMMA ReturnKeeps == ASSUME TracingAssumption, TsInv, NEW c \in Calls, Ts!Return(c) PROVE TsInv'
<1>1. /\ stack # <<>> /\ Ts!Running = c /\ phase[c] = "running"
      /\ phase' = [phase EXCEPT ![c] = "done"]
      /\ Ts!Finalized(c) /\ Ts!RunEnds /\ UNCHANGED <<store, spanStack, lost, untidy>>
      /\ TsTyped /\ FramesNest
  BY DEF TsInv, Ts!Return
<1>2. phase' \in [Calls -> {"idle", "running", "pending", "settled", "done"}]
  BY <1>1 DEF TsTyped
<1>3. FramesNest' /\ stack' \in Seq(TsFrames) /\ active' \in Calls \union {None}
  BY <1>1, <1>2, OthersBelow, PopFrame
<1>4. /\ spans' \in [Calls -> Seq(TsSpans)] /\ sent' \in [Calls -> Seq(Seq(TsSpans))]
      /\ \A d \in Calls : StackIsOpen(d)'
      /\ OneSent' /\ Ts!SpansStayHome'
  BY <1>1, Finishes
<1>5. TsTyped'
  BY <1>1, <1>2, <1>3, <1>4 DEF TsTyped, TsFrames, TsSpans
<1>6. QED
  BY <1>3, <1>4, <1>5 DEF TsInv

(* Await and Pause: the piece of code ends, the call goes on or settles.   *)
LEMMA PieceEnds ==
    ASSUME TsInv, NEW c \in Calls, stack # <<>>, Ts!Running = c, Ts!RunEnds,
           UNCHANGED <<store, spans, spanStack, sent, lost, untidy>>,
           NEW v \in {"pending", "settled", "done"},
           phase' = [phase EXCEPT ![c] = v],
           phase[c] # "idle", v = "done" <=> phase[c] = "done"
    PROVE  TsInv'
<1>1. /\ phase' \in [Calls -> {"idle", "running", "pending", "settled", "done"}]
      /\ phase'[c] = v /\ \A d \in Calls : d # c => phase'[d] = phase[d]
  BY DEF TsInv, TsTyped
<1>2. FramesNest' /\ stack' \in Seq(TsFrames) /\ active' \in Calls \union {None}
  BY <1>1, OthersBelow, PopFrame DEF TsInv
<1>3. \A d \in Calls : StackIsOpen(d)'
  <2> SUFFICES ASSUME NEW d \in Calls PROVE StackIsOpen(d)'
    OBVIOUS
  <2>1. phase'[d] = "idle" <=> phase[d] = "idle"
    BY <1>1
  <2>2. QED
    BY <2>1, SameStack DEF TsInv
<1>4. OneSent' /\ Ts!SpansStayHome'
  BY <1>1 DEF TsInv, OneSent, Ts!SpansStayHome
<1>5. TsTyped'
  BY <1>1, <1>2 DEF TsInv, TsTyped, TsFrames, TsSpans
<1>6. QED
  BY <1>2, <1>3, <1>4, <1>5 DEF TsInv

LEMMA AwaitKeeps == ASSUME TsInv, NEW c \in Calls, Ts!Await(c) PROVE TsInv'
BY PieceEnds DEF Ts!Await

LEMMA PauseKeeps == ASSUME TsInv, NEW c \in Calls, Ts!Pause(c) PROVE TsInv'
<1>1. /\ stack # <<>> /\ Ts!Running = c /\ phase[c] # "running" /\ Ts!RunEnds
      /\ UNCHANGED <<store, spans, spanStack, sent, lost, untidy>>
  BY DEF Ts!Pause
<1>2. phase[c] \in {"pending", "settled", "done"}
  <2>1. phase[c] # "idle"
    <3>1. Len(stack) \in 1 .. Len(stack) /\ c = stack[Len(stack)].call
      BY <1>1, LastAndFront DEF TsInv, TsTyped, Ts!Running
    <3>2. QED
      BY <3>1 DEF TsInv, FramesNest
  <2>2. QED
    BY <1>1, <2>1 DEF TsInv, TsTyped
<1>3. CASE UNCHANGED phase
  <2>1. phase' = [phase EXCEPT ![c] = phase[c]]
    BY <1>3 DEF TsInv, TsTyped
  <2>2. QED
    BY <1>1, <1>2, <2>1, PieceEnds
<1>4. CASE phase[c] = "pending" /\ phase' = [phase EXCEPT ![c] = "settled"]
  BY <1>1, <1>4, PieceEnds
<1>5. QED
  BY <1>3, <1>4 DEF Ts!Pause

LEMMA ResumeKeeps == ASSUME TsInv, NEW c \in Calls, Ts!Resume(c) PROVE TsInv'
<1>1. /\ stack = <<>> /\ phase[c] \notin {"idle", "running"}
      /\ stack' = <<[call |-> c, prev |-> active]>>
      /\ active' = IF store = "als" THEN c ELSE active
      /\ UNCHANGED <<store, phase, spans, spanStack, sent, lost, untidy>>
  BY DEF Ts!Resume
<1>2. Len(stack) = 0 /\ active = None
  BY <1>1 DEF TsInv, FramesNest, Seen
<1>3. stack' = Append(stack, [call |-> c, prev |-> active])
  BY <1>1
<1>4. FramesNest'
  BY <1>1, <1>2, <1>3, PushFrame DEF TsInv, TsTyped
<1>5. TsTyped'
  <2>1. [call |-> c, prev |-> active] \in TsFrames
    BY <1>2 DEF TsFrames
  <2>2. stack' \in Seq(TsFrames)
    BY <1>1, <2>1
  <2>3. QED
    BY <1>1, <1>2, <2>2 DEF TsInv, TsTyped, TsFrames, TsSpans
<1>6. \A d \in Calls : StackIsOpen(d)'
  BY <1>1, SameStack DEF TsInv
<1>7. OneSent' /\ Ts!SpansStayHome'
  BY <1>1 DEF TsInv, OneSent, Ts!SpansStayHome
<1>8. QED
  BY <1>4, <1>5, <1>6, <1>7 DEF TsInv

LEMMA SettledKeeps == ASSUME TsInv, NEW c \in Calls, Ts!Settled(c) PROVE TsInv'
<1>1. /\ stack = <<>> /\ phase[c] = "settled" /\ phase' = [phase EXCEPT ![c] = "done"]
      /\ Ts!Finalized(c) /\ UNCHANGED <<store, stack, active, spanStack, lost, untidy>>
  BY DEF Ts!Settled
<1>2. /\ spans' \in [Calls -> Seq(TsSpans)] /\ sent' \in [Calls -> Seq(Seq(TsSpans))]
      /\ \A d \in Calls : StackIsOpen(d)'
      /\ OneSent' /\ Ts!SpansStayHome'
  BY <1>1, Finishes
<1>3. TsTyped'
  BY <1>1, <1>2 DEF TsInv, TsTyped, TsFrames, TsSpans
<1>4. FramesNest'
  BY <1>1 DEF TsInv, FramesNest, Seen
<1>5. QED
  BY <1>2, <1>3, <1>4 DEF TsInv

(* What the store returns while code runs is the trace of that code.       *)
LEMMA ActiveIsRunning ==
    ASSUME TsTyped, FramesNest, stack # <<>>
    PROVE  /\ Ts!Running \in Calls /\ phase[Ts!Running] # "idle"
           /\ active = IF store = "als" \/ phase[Ts!Running] = "running" THEN Ts!Running ELSE None
<1>1. PICK n \in Nat \ {0} : n = Len(stack) /\ Ts!Running = stack[n].call /\ stack[n] \in TsFrames
  BY LastAndFront DEF TsTyped, Ts!Running
<1>2. n \in 1 .. n /\ phase[stack[n].call] # "idle" /\ active = Seen(n)
  BY <1>1 DEF FramesNest
<1>3. QED
  BY <1>1, <1>2 DEF Seen, TsFrames

LEMMA OpenEffect ==
    ASSUME TracingAssumption, TsInv, Ts!Open
    PROVE  /\ active \in Calls /\ Ts!Running = active /\ StackIsOpen(active)
           /\ phase[active] # "idle" /\ Len(spans[active]) < MaxSpans
           /\ spans' = [spans EXCEPT ![active] =
                            Append(@, Ts!Span(Ts!Last(spanStack[active]), active))]
           /\ spanStack' = [spanStack EXCEPT ![active] = Append(@, Len(spans'[active]))]
           /\ UNCHANGED <<store, stack, active, phase, sent, lost, untidy>>
<1>1. stack # <<>> /\ active # None
  BY DEF Ts!Open
<1>2. active \in Calls /\ Ts!Running = active /\ phase[active] # "idle"
  BY <1>1, ActiveIsRunning DEF TsInv
<1>3. StackIsOpen(active) /\ spanStack[active] # <<>>
  BY <1>2 DEF TsInv, StackIsOpen
<1>4. QED
  BY <1>2, <1>3 DEF Ts!Open

LEMMA OpenKeeps == ASSUME TracingAssumption, TsInv, Ts!Open PROVE TsInv'
<1>1. PICK c \in Calls : c = active
  BY OpenEffect
<1>2. /\ StackIsOpen(c) /\ phase[c] # "idle" /\ Len(spans[c]) < MaxSpans
      /\ spans' = [spans EXCEPT ![c] = Append(@, Ts!Span(Ts!Last(spanStack[c]), c))]
      /\ spanStack' = [spanStack EXCEPT ![c] = Append(@, Len(spans'[c]))]
      /\ UNCHANGED <<store, stack, active, phase, sent, lost, untidy>>
  BY <1>1, OpenEffect
<1>3. /\ StackIsOpen(c)'
      /\ spans' \in [Calls -> Seq(TsSpans)] /\ spanStack' \in [Calls -> Seq(Nat)]
      /\ spans'[c] = Append(spans[c], Ts!Span(Ts!Last(spanStack[c]), c))
      /\ \A d \in Calls : d # c => spans'[d] = spans[d] /\ spanStack'[d] = spanStack[d]
  BY <1>2, SpanOpens DEF TsInv
<1>4. TsTyped' /\ FramesNest' /\ OneSent'
  BY <1>2, <1>3 DEF TsInv, TsTyped, TsFrames, TsSpans, FramesNest, Seen, OneSent
<1>5. \A d \in Calls : StackIsOpen(d)'
  <2> SUFFICES ASSUME NEW d \in Calls, d # c PROVE StackIsOpen(d)'
    BY <1>3
  <2>1. QED
    BY <1>2, <1>3, SameStack DEF TsInv
<1>6. Ts!SpansStayHome'
  <2>1. \A n \in DOMAIN spans'[c] : spans'[c][n].by = c
    <3>1. PICK f : f.by = c /\ spans'[c] = Append(spans[c], f)
      BY <1>3 DEF Ts!Span
    <3>2. /\ spans[c] \in Seq(TsSpans) /\ Len(spans[c]) \in Nat
          /\ DOMAIN spans[c] = 1 .. Len(spans[c])
      BY LenProperties DEF TsInv, TsTyped
    <3>3. /\ DOMAIN spans'[c] = 1 .. Len(spans[c]) + 1
          /\ \A n \in 1 .. Len(spans[c]) : spans'[c][n] = spans[c][n]
          /\ spans'[c][Len(spans[c]) + 1] = f
      BY <3>1, <3>2
    <3>4. QED
      BY <3>1, <3>2, <3>3 DEF TsInv, Ts!SpansStayHome
  <2>2. QED
    BY <1>2, <1>3, <2>1 DEF TsInv, Ts!SpansStayHome
<1>7. QED
  BY <1>4, <1>5, <1>6 DEF TsInv

LEMMA OpenLostKeeps == ASSUME TracingAssumption, TsInv, Ts!OpenLost PROVE TsInv'
<1>1. /\ stack # <<>> /\ active = None /\ lost' = lost \union {Ts!Running}
      /\ UNCHANGED <<store, stack, active, phase, spans, spanStack, sent, untidy>>
  BY DEF Ts!OpenLost
<1>2. /\ Ts!Running \in Calls /\ store = "slot"
      /\ phase[Ts!Running] \notin {"idle", "running"}
  BY <1>1, ActiveIsRunning DEF TsInv, TsTyped, TracingAssumption
<1>3. TsTyped' /\ FramesNest' /\ OneSent'
  BY <1>1, <1>2 DEF TsInv, TsTyped, TsFrames, TsSpans, FramesNest, Seen, OneSent
<1>4. \A d \in Calls : StackIsOpen(d)'
  BY <1>1, SameStack DEF TsInv
<1>5. Ts!SpansStayHome'
  BY <1>1, <1>2 DEF TsInv, Ts!SpansStayHome
<1>6. QED
  BY <1>3, <1>4, <1>5 DEF TsInv

LEMMA EndKeeps == ASSUME TsInv, NEW c \in Calls, NEW n \in Nat, Ts!End(c, n) PROVE TsInv'
<1>1. /\ n \in DOMAIN spans[c] /\ spans' = [spans EXCEPT ![c][n].ended = TRUE]
      /\ spanStack' = [spanStack EXCEPT ![c] = Ts!PopIfTop(c, n)]
      /\ untidy' \subseteq untidy \union {c} /\ untidy \subseteq untidy'
      /\ UNCHANGED <<store, stack, active, phase, sent, lost>>
  BY DEF Ts!End
<1>2. StackIsOpen(c)' /\ spanStack' \in [Calls -> Seq(Nat)]
  BY SpanCloses DEF TsInv
<1>3. /\ spans' \in [Calls -> Seq(TsSpans)] /\ DOMAIN spans'[c] = DOMAIN spans[c]
      /\ \A d \in Calls : d # c => spans'[d] = spans[d] /\ spanStack'[d] = spanStack[d]
      /\ \A i \in DOMAIN spans[c] : spans'[c][i].by = spans[c][i].by
  <2>1. \A d \in Calls : d # c => spanStack'[d] = spanStack[d]
    BY <1>1 DEF TsInv, TsTyped
  <2>2. QED
    BY <1>1, <2>1, SpanEnds DEF TsInv
<1>4. TsTyped' /\ FramesNest' /\ OneSent'
  BY <1>1, <1>2, <1>3 DEF TsInv, TsTyped, TsFrames, TsSpans, FramesNest, Seen, OneSent
<1>5. \A d \in Calls : StackIsOpen(d)'
  <2> SUFFICES ASSUME NEW d \in Calls, d # c PROVE StackIsOpen(d)'
    BY <1>2
  <2>1. QED
    BY <1>1, <1>3, SameStack DEF TsInv
<1>6. Ts!SpansStayHome'
  BY <1>1, <1>3 DEF TsInv, Ts!SpansStayHome
<1>7. QED
  BY <1>4, <1>5, <1>6 DEF TsInv

LEMMA TsStepInv == ASSUME TracingAssumption, TsInv, [Ts!Next]_(Ts!vars) PROVE TsInv'
<1>1. ASSUME NEW c \in Calls,
             Ts!Call(c) \/ Ts!Return(c) \/ Ts!Await(c)
                \/ Ts!Resume(c) \/ Ts!Pause(c) \/ Ts!Settled(c)
      PROVE  TsInv'
  BY <1>1, CallKeeps, ReturnKeeps, AwaitKeeps, ResumeKeeps, PauseKeeps, SettledKeeps
<1>2. CASE Ts!Open
  BY <1>2, OpenKeeps
<1>3. CASE Ts!OpenLost
  BY <1>3, OpenLostKeeps
<1>4. ASSUME NEW c \in Calls, NEW n \in 2 .. MaxSpans, Ts!End(c, n)
      PROVE  TsInv'
  BY <1>4, EndKeeps DEF TracingAssumption
<1>5. CASE UNCHANGED Ts!vars
  <2>1. UNCHANGED <<store, stack, active, phase, spans, spanStack, sent, lost, untidy>>
    BY <1>5 DEF Ts!vars
  <2>2. \A d \in Calls : StackIsOpen(d)'
    BY <2>1, SameStack DEF TsInv
  <2>3. QED
    BY <2>1, <2>2 DEF TsInv, TsTyped, TsFrames, TsSpans, FramesNest, Seen, OneSent,
                      Ts!SpansStayHome
<1>6. QED
  BY <1>1, <1>2, <1>3, <1>4, <1>5 DEF Ts!Next

-----------------------------------------------------------------------------
(* What the invariant says in the words of the model.                      *)

LEMMA TsImplies == ASSUME TsInv PROVE Ts!TypeOK /\ Ts!SpansStayHome /\ Ts!ParentIsInnermost
<1>1. \A c \in Calls : /\ spans[c] \in Seq(TsSpans) /\ DOMAIN spans[c] = 1 .. Len(spans[c])
                       /\ spanStack[c] \in Seq(Nat) /\ DOMAIN spanStack[c] = 1 .. Len(spanStack[c])
                       /\ StackIsOpen(c)
  BY LenProperties DEF TsInv, TsTyped
<1>2. ASSUME NEW c \in Calls
      PROVE  /\ Ts!Range(spanStack[c]) \subseteq DOMAIN spans[c]
             /\ phase[c] # "idle" => Head(spanStack[c]) = 1
             /\ Len(sent[c]) = (IF phase[c] = "done" THEN 1 ELSE 0)
  <2>1. Ts!Range(spanStack[c]) \subseteq DOMAIN spans[c]
    BY <1>1 DEF StackIsOpen, Ts!Range
  <2>2. phase[c] # "idle" => Head(spanStack[c]) = 1
    BY <1>1 DEF StackIsOpen
  <2>3. QED
    BY <2>1, <2>2 DEF TsInv, OneSent
<1>3. Ts!TypeOK
  BY <1>1, <1>2 DEF TsInv, TsTyped, TsFrames, TsSpans, Ts!TypeOK
<1>4. Ts!ParentIsInnermost
  BY <1>1 DEF StackIsOpen, Ts!ParentIsInnermost
<1>5. QED
  BY <1>3, <1>4 DEF TsInv

(* The tree of a trace depends on the parents of its spans alone.          *)
LEMMA SameTree ==
    ASSUME NEW ss, NEW tt, DOMAIN ss = DOMAIN tt, \A n \in DOMAIN ss : ss[n].parent = tt[n].parent
    PROVE  Ts!TreeOf(ss) = Ts!TreeOf(tt)
BY DEF Ts!TreeOf

LEMMA TsFinishSends ==
    ASSUME TsInv, NEW c \in Calls, phase[c] \notin {"idle", "done"}, Ts!Finalized(c)
    PROVE  SendStep(c, Ts!Trees, Ts!SentTrees, Ts!Trees', Ts!SentTrees')
<1>1. /\ spans[c] \in Seq(TsSpans) /\ spans[c] # <<>> /\ DOMAIN spans[c] = 1 .. Len(spans[c])
      /\ Len(spans[c]) \in Nat /\ 1 \in DOMAIN spans[c]
  BY EmptySeq, LenProperties DEF TsInv, TsTyped, StackIsOpen
<1>2. /\ DOMAIN spans'[c] = DOMAIN spans[c]
      /\ \A d \in Calls : d # c => spans'[d] = spans[d]
      /\ \A n \in DOMAIN spans[c] : spans'[c][n].parent = spans[c][n].parent
  BY <1>1, SpanEnds DEF TsInv, Ts!Finalized
<1>3. \A d \in Calls : Ts!TreeOf(spans'[d]) = Ts!TreeOf(spans[d])
  BY <1>2, SameTree
<1>4. Ts!Trees' = Ts!Trees
  BY <1>3 DEF Ts!Trees
<1>5. sent[c] = <<>>
  BY EmptySeq DEF TsInv, TsTyped, OneSent
<1>6. sent'[c] = <<spans'[c]>> /\ \A d \in Calls : d # c => sent'[d] = sent[d]
  BY <1>5, OneElement DEF TsInv, TsTyped, Ts!Finalized
<1>7. Ts!SentTrees'[c] = <<Ts!Trees[c]>>
  <2>1. Ts!SentTrees'[c] = [i \in {1} |-> Ts!TreeOf(spans'[c])]
    BY <1>6, OneElement DEF Ts!SentTrees
  <2>2. [i \in {1} |-> Ts!TreeOf(spans'[c])] = <<Ts!TreeOf(spans'[c])>>
    OBVIOUS
  <2>3. QED
    BY <2>1, <2>2, <1>3 DEF Ts!Trees
<1>8. Ts!SentTrees' = [Ts!SentTrees EXCEPT ![c] = <<Ts!Trees[c]>>]
  BY <1>6, <1>7 DEF Ts!SentTrees
<1>9. Ts!Trees[c] # <<>> /\ Ts!SentTrees[c] = <<>>
  <2>1. DOMAIN Ts!Trees[c] = DOMAIN spans[c]
    BY DEF Ts!Trees, Ts!TreeOf
  <2>2. Ts!SentTrees[c] = <<>>
    BY <1>5, NoTree DEF Ts!SentTrees
  <2>3. QED
    BY <2>1, <2>2, <1>1
<1>10. QED
  BY <1>4, <1>8, <1>9 DEF SendStep

LEMMA TsCallBegins ==
    ASSUME TracingAssumption, TsInv, NEW c \in Calls, Ts!Call(c)
    PROVE  BeginStep(c, Ts!Trees, Ts!SentTrees, Ts!Trees', Ts!SentTrees')
<1>1. spans[c] = <<>> /\ spans' = [spans EXCEPT ![c] = <<Ts!Span(0, c)>>] /\ sent' = sent
  BY DEF TsInv, StackIsOpen, Ts!Call
<1>2. Ts!Trees[c] = <<>>
  BY <1>1, NoTree DEF Ts!Trees, Ts!TreeOf
<1>3. spans'[c] = <<Ts!Span(0, c)>> /\ \A d \in Calls : d # c => spans'[d] = spans[d]
  BY <1>1 DEF TsInv, TsTyped
<1>4. Ts!TreeOf(spans'[c]) = <<0>>
  <2>1. Ts!TreeOf(spans'[c]) = [n \in {1} |-> 0]
    BY <1>3, OneElement DEF Ts!TreeOf, Ts!Span
  <2>2. [n \in {1} |-> 0] = <<0>>
    OBVIOUS
  <2>3. QED
    BY <2>1, <2>2
<1>5. Ts!Trees' = [Ts!Trees EXCEPT ![c] = <<0>>]
  BY <1>3, <1>4 DEF Ts!Trees
<1>6. Ts!SentTrees' = Ts!SentTrees
  BY <1>1 DEF Ts!SentTrees
<1>7. QED
  BY <1>2, <1>5, <1>6 DEF BeginStep

LEMMA TsOpenGrows ==
    ASSUME TracingAssumption, TsInv, Ts!Open
    PROVE  \E c \in Calls : GrowStep(c, Ts!Trees, Ts!SentTrees, Ts!Trees', Ts!SentTrees')
<1>1. PICK c \in Calls :
        /\ StackIsOpen(c) /\ phase[c] # "idle" /\ Len(spans[c]) < MaxSpans
        /\ spans' = [spans EXCEPT ![c] = Append(@, Ts!Span(Ts!Last(spanStack[c]), c))]
        /\ spanStack' = [spanStack EXCEPT ![c] = Append(@, Len(spans'[c]))]
        /\ UNCHANGED <<phase, untidy, sent>>
  BY OpenEffect
<1>2. PICK p : p = Ts!Last(spanStack[c])
  OBVIOUS
<1>3. /\ p \in 1 .. Len(spans[c]) /\ spans' \in [Calls -> Seq(TsSpans)]
      /\ spans'[c] = Append(spans[c], Ts!Span(p, c))
      /\ \A d \in Calls : d # c => spans'[d] = spans[d]
  BY <1>1, <1>2, SpanOpens DEF TsInv
<1>4. PICK n \in Nat :
        /\ n = Len(spans[c]) /\ DOMAIN spans[c] = 1 .. n /\ spans[c] \in Seq(TsSpans)
        /\ \A i \in 1 .. n : spans[c][i] \in TsSpans
  BY LenProperties, ElementOfSeq DEF TsInv, TsTyped
<1>5. Ts!Span(p, c) \in TsSpans /\ Ts!Span(p, c).parent = p
  BY <1>1, <1>3, <1>4 DEF Ts!Span, TsSpans, TracingAssumption
<1>6. /\ DOMAIN spans'[c] = 1 .. n + 1 /\ \A i \in 1 .. n : spans'[c][i] = spans[c][i]
      /\ spans'[c][n + 1].parent = p
  BY <1>3, <1>4, <1>5
<1> DEFINE t == Ts!TreeOf(spans[c])
           u == Ts!TreeOf(spans'[c])
<1>7. /\ t \in [1 .. n -> Nat] /\ u \in [1 .. n + 1 -> Nat]
      /\ \A i \in 1 .. n : u[i] = t[i]
      /\ u[n + 1] = p
  <2>1. \A i \in 1 .. n : spans[c][i].parent \in Nat
    BY <1>4 DEF TsSpans, TracingAssumption
  <2>2. p \in Nat
    BY <1>3, <1>4
  <2>3. QED
    BY <2>1, <2>2, <1>4, <1>6, SMTT(60) DEF Ts!TreeOf
<1>8. u = Append(t, p)
  BY <1>7, GrownTree
<1>9. Ts!Trees' = [Ts!Trees EXCEPT ![c] = Append(@, p)]
  BY <1>3, <1>8 DEF Ts!Trees
<1>10. p \in DOMAIN Ts!Trees[c]
  BY <1>3, <1>4 DEF Ts!Trees, Ts!TreeOf
<1>11. Ts!SentTrees' = Ts!SentTrees
  BY <1>1 DEF Ts!SentTrees
<1>12. QED
  BY <1>9, <1>10, <1>11 DEF GrowStep

LEMMA TsTreeStep ==
    ASSUME TracingAssumption, TsInv, [Ts!Next]_(Ts!vars)
    PROVE  TreeStep(Ts!Trees, Ts!SentTrees, Ts!Trees', Ts!SentTrees')
<1>1. ASSUME NEW c \in Calls, Ts!Call(c)
      PROVE  TreeStep(Ts!Trees, Ts!SentTrees, Ts!Trees', Ts!SentTrees')
  BY <1>1, TsCallBegins DEF TreeStep
<1>2. ASSUME NEW c \in Calls, Ts!Return(c) \/ Ts!Settled(c)
      PROVE  TreeStep(Ts!Trees, Ts!SentTrees, Ts!Trees', Ts!SentTrees')
  BY <1>2, TsFinishSends DEF TreeStep, Ts!Return, Ts!Settled
<1>3. CASE Ts!Open
  BY <1>3, TsOpenGrows DEF TreeStep
<1>4. ASSUME UNCHANGED <<spans, sent>>
      PROVE  TreeStep(Ts!Trees, Ts!SentTrees, Ts!Trees', Ts!SentTrees')
  BY <1>4 DEF TreeStep, Ts!Trees, Ts!SentTrees
<1>5. ASSUME NEW c \in Calls, NEW n \in 2 .. MaxSpans, Ts!End(c, n)
      PROVE  TreeStep(Ts!Trees, Ts!SentTrees, Ts!Trees', Ts!SentTrees')
  <2>1. /\ DOMAIN spans'[c] = DOMAIN spans[c]
        /\ \A d \in Calls : d # c => spans'[d] = spans[d]
        /\ \A i \in DOMAIN spans[c] : spans'[c][i].parent = spans[c][i].parent
    BY <1>5, SpanEnds DEF TsInv, Ts!End
  <2>2. \A d \in Calls : Ts!TreeOf(spans'[d]) = Ts!TreeOf(spans[d])
    BY <2>1, SameTree
  <2>3. Ts!Trees' = Ts!Trees /\ Ts!SentTrees' = Ts!SentTrees
    BY <1>5, <2>2 DEF Ts!Trees, Ts!SentTrees, Ts!End
  <2>4. QED
    BY <2>3 DEF TreeStep
<1>6. QED
  BY <1>1, <1>2, <1>3, <1>4, <1>5
     DEF Ts!Next, Ts!vars, Ts!Await, Ts!Resume, Ts!Pause, Ts!OpenLost

-----------------------------------------------------------------------------
(* The inductive invariant of a program that uses the Python SDK.          *)

PySpans == [parent : Py!Refs, by : Calls \union {None}, ended : BOOLEAN]
PyValues == [trace : Calls \union {None}, span : Py!Refs]
PyFrames == [call : Calls \union {None}, span : Py!Refs, prev : PyValues]

PyTyped ==
    /\ base \in [Py!Contexts -> PyValues \union {None}]
    /\ current_trace \in [Py!Contexts -> Calls \union {None}]
    /\ current_span \in [Py!Contexts -> Py!Refs]
    /\ stack \in [Py!Contexts -> Seq(PyFrames)]
    /\ spans \in [Calls -> Seq(PySpans)]
    /\ sent \in [Calls -> Seq(Seq(PySpans))]

(* The values of the context variables of k while its i-th frame is on top.*)
After(k, i) ==
    IF i = 0 THEN base[k]
    ELSE Py!Values(IF stack[k][i].call # None THEN stack[k][i].call
                   ELSE stack[k][i].prev.trace,
                   stack[k][i].span)

(* c is the innermost call of the first i frames of k.                     *)
Innermost(k, i, c) ==
    \/ c = base[k].trace /\ \A j \in 1 .. i : stack[k][j].call = None
    \/ /\ c # None
       /\ \E m \in 1 .. i : /\ stack[k][m].call = c
                            /\ \A j \in m + 1 .. i : stack[k][j].call = None

(* A span of the trace it is in, whenever there is a trace.                *)
InTrace(v) == v.trace # None => v.span.trace = v.trace /\ v.span.n \in 1 .. Len(spans[v.trace])

ContextNests(k) ==
    IF base[k] = None THEN stack[k] = <<>>
    ELSE /\ \A i \in 1 .. Len(stack[k]) : stack[k][i].prev = After(k, i - 1)
         /\ Py!Now(k) = After(k, Len(stack[k]))
         /\ \A i \in 0 .. Len(stack[k]) :
                Innermost(k, i, After(k, i).trace) /\ InTrace(After(k, i))

(* A call is in one frame, while its trace has a root and is not sent.     *)
CallsAreOpen ==
    \A c \in Calls, k \in Py!Contexts : \A i \in 1 .. Len(stack[k]) :
        stack[k][i].call = c =>
            /\ spans[c] # <<>> /\ sent[c] = <<>>
            /\ \A j \in Py!Contexts : \A m \in 1 .. Len(stack[j]) :
                   stack[j][m].call = c => j = k /\ m = i

SentOnce ==
    \A c \in Calls : /\ Len(spans[c]) <= MaxSpans
                     /\ spans[c] = <<>> => sent[c] = <<>>
                     /\ Len(sent[c]) <= 1

SpansByCall == \A c \in Calls : \A n \in DOMAIN spans[c] : spans[c][n].by = c

PyInv ==
    /\ PyTyped
    /\ \A k \in Py!Contexts : ContextNests(k)
    /\ CallsAreOpen
    /\ SentOnce
    /\ SpansByCall

-----------------------------------------------------------------------------
LEMMA LastFrame ==
    ASSUME NEW S, NEW s \in Seq(S), s # <<>>
    PROVE  /\ Len(s) \in Nat \ {0} /\ Py!Last(s) = s[Len(s)] /\ s[Len(s)] \in S
           /\ Py!Front(s) \in Seq(S) /\ Len(Py!Front(s)) = Len(s) - 1
           /\ \A i \in 1 .. Len(s) - 1 : Py!Front(s)[i] = s[i]
<1>1. Len(s) \in Nat \ {0} /\ DOMAIN s = 1 .. Len(s)
  BY EmptySeq, LenProperties
<1>2. s[Len(s)] \in S
  BY <1>1, ElementOfSeq
<1>3. /\ SubSeq(s, 1, Len(s) - 1) \in Seq(S)
      /\ Len(SubSeq(s, 1, Len(s) - 1)) = Len(s) - 1
      /\ \A i \in 1 .. Len(s) - 1 : SubSeq(s, 1, Len(s) - 1)[i] = s[i]
  BY <1>1
<1>4. QED
  BY <1>1, <1>2, <1>3 DEF Py!Last, Py!Front

LEMMA RefType ==
    ASSUME TracingAssumption
    PROVE  /\ Py!NoSpan \in Py!Refs /\ Py!Orphan \in Py!Refs /\ Py!Empty \in PyValues
           /\ \A c \in Calls : \A n \in 0 .. MaxSpans : Py!Ref(c, n) \in Py!Refs
           /\ Py!NoSpan.n = 0 /\ Py!NoSpan.trace = None
           /\ Py!Empty.trace = None /\ Py!Empty.span = Py!NoSpan
BY DEF TracingAssumption, Py!NoSpan, Py!Orphan, Py!Empty, Py!Values, Py!Ref, Py!Refs, PyValues

LEMMA PyInitInv == ASSUME TracingAssumption, Py!Init PROVE PyInv
<1>1. PyTyped
  BY RefType, EmptySeq DEF Py!Init, PyTyped
<1>2. ASSUME NEW k \in Py!Contexts
      PROVE  ContextNests(k)
  <2>1. stack[k] = <<>> /\ Len(stack[k]) = 0 /\ Py!Now(k) = Py!Empty
    BY <1>2 DEF Py!Init, Py!Now, Py!Empty
  <2>2. CASE base[k] = None
    BY <2>1, <2>2 DEF ContextNests
  <2>3. CASE base[k] # None
    <3>1. base[k] = Py!Empty
      BY <1>2, <2>3 DEF Py!Init
    <3>2. Innermost(k, 0, None)
      BY <3>1, RefType DEF Innermost
    <3>3. After(k, 0) = Py!Empty /\ InTrace(After(k, 0))
      BY <3>1, RefType DEF After, InTrace
    <3>4. QED
      BY <2>1, <2>3, <3>2, <3>3, RefType DEF ContextNests
  <2>4. QED
    BY <2>2, <2>3
<1>3. CallsAreOpen /\ SentOnce /\ SpansByCall
  BY EmptySeq DEF Py!Init, CallsAreOpen, SentOnce, SpansByCall, TracingAssumption
<1>4. QED
  BY <1>1, <1>2, <1>3 DEF PyInv

-----------------------------------------------------------------------------
(* What the steps do to a context.                                         *)

(* Traces only grow.                                                       *)
Grows == \A c \in Calls : Len(spans[c]) <= Len(spans'[c])

LEMMA StaysInTrace ==
    ASSUME PyTyped, Grows, spans' \in [Calls -> Seq(PySpans)], NEW v \in PyValues, InTrace(v)
    PROVE  v.trace # None => v.span.trace = v.trace /\ v.span.n \in 1 .. Len(spans'[v.trace])
<1> SUFFICES ASSUME v.trace # None
             PROVE  v.span.trace = v.trace /\ v.span.n \in 1 .. Len(spans'[v.trace])
  OBVIOUS
<1>1. v.trace \in Calls
  BY DEF PyValues
<1>2. Len(spans[v.trace]) \in Nat /\ Len(spans'[v.trace]) \in Nat
  BY <1>1, LenProperties DEF PyTyped
<1>3. QED
  BY <1>1, <1>2 DEF InTrace, Grows

LEMMA AfterType ==
    ASSUME PyTyped, NEW k \in Py!Contexts, base[k] # None, NEW i \in 0 .. Len(stack[k])
    PROVE  After(k, i) \in PyValues
<1>1. CASE i = 0
  BY <1>1 DEF After, PyTyped
<1>2. CASE i # 0
  <2>1. stack[k][i] \in PyFrames
    BY <1>2, ElementOfSeq, LenProperties DEF PyTyped
  <2>2. QED
    BY <1>2, <2>1 DEF After, Py!Values, PyFrames, PyValues
<1>3. QED
  BY <1>1, <1>2

LEMMA SameContext ==
    ASSUME PyTyped, NEW k \in Py!Contexts, ContextNests(k), Grows,
           spans' \in [Calls -> Seq(PySpans)],
           base'[k] = base[k], stack'[k] = stack[k], Py!Now(k)' = Py!Now(k)
    PROVE  ContextNests(k)'
<1>1. CASE base[k] = None
  BY <1>1 DEF ContextNests
<1>2. CASE base[k] # None
  <2>1. PICK n \in Nat : n = Len(stack[k])
    BY LenProperties DEF PyTyped
  <2>2. \A i \in 0 .. n : After(k, i)' = After(k, i)
    BY DEF After
  <2>3. \A i \in 0 .. n : After(k, i) \in PyValues /\ InTrace(After(k, i))
    BY <1>2, <2>1, AfterType DEF ContextNests
  <2>4. ASSUME NEW i \in 0 .. n
        PROVE  Innermost(k, i, After(k, i).trace)' /\ InTrace(After(k, i))'
    <3>1. PICK v \in PyValues : v = After(k, i) /\ v = After(k, i)' /\ InTrace(v)
      BY <2>2, <2>3
    <3>2. Innermost(k, i, v.trace)
      BY <1>2, <2>1, <3>1 DEF ContextNests
    <3>3. Innermost(k, i, v.trace)'
      BY <3>2 DEF Innermost
    <3>4. InTrace(v)'
      BY <3>1, StaysInTrace DEF InTrace
    <3>5. QED
      BY <3>1, <3>3, <3>4
  <2>5. \A i \in 1 .. n : stack'[k][i].prev = After(k, i - 1)'
    <3>1. \A i \in 1 .. n : i - 1 \in 0 .. n /\ stack[k][i].prev = After(k, i - 1)
      BY <1>2, <2>1 DEF ContextNests
    <3>2. QED
      BY <2>2, <3>1
  <2>6. Py!Now(k)' = After(k, n)'
    BY <1>2, <2>1, <2>2 DEF ContextNests
  <2>7. QED
    BY <1>2, <2>1, <2>4, <2>5, <2>6 DEF ContextNests
<1>3. QED
  BY <1>1, <1>2

LEMMA SameFrames ==
    ASSUME NEW k, NEW i \in Nat, NEW d, base'[k] = base[k],
           \A j \in 1 .. i : stack'[k][j] = stack[k][j], Innermost(k, i, d)
    PROVE  Innermost(k, i, d)'
<1>1. CASE d = base[k].trace /\ \A j \in 1 .. i : stack[k][j].call = None
  BY <1>1 DEF Innermost
<1>2. ASSUME d # None,
             NEW m \in 1 .. i, stack[k][m].call = d,
             \A j \in m + 1 .. i : stack[k][j].call = None
      PROVE  Innermost(k, i, d)'
  <2>1. \A j \in m + 1 .. i : j \in 1 .. i
    OBVIOUS
  <2>2. stack'[k][m].call = d /\ \A j \in m + 1 .. i : stack'[k][j].call = None
    BY <1>2, <2>1
  <2>3. QED
    BY <1>2, <2>2 DEF Innermost
<1>3. QED
  BY <1>1, <1>2 DEF Innermost

(* A with-block leaves the innermost call what it is.                      *)
LEMMA OneFrameMore ==
    ASSUME NEW k, NEW i \in Nat, NEW d, Innermost(k, i, d)', stack'[k][i + 1].call = None
    PROVE  Innermost(k, i + 1, d)'
<1>1. \A j \in 1 .. i + 1 : j \in 1 .. i \/ j = i + 1
  OBVIOUS
<1>2. CASE d = base'[k].trace /\ \A j \in 1 .. i : stack'[k][j].call = None
  BY <1>1, <1>2 DEF Innermost
<1>3. ASSUME d # None,
             NEW m \in 1 .. i, stack'[k][m].call = d,
             \A j \in m + 1 .. i : stack'[k][j].call = None
      PROVE  Innermost(k, i + 1, d)'
  <2>1. m \in 1 .. i + 1 /\ \A j \in m + 1 .. i + 1 : j \in m + 1 .. i \/ j = i + 1
    OBVIOUS
  <2>2. \A j \in m + 1 .. i + 1 : stack'[k][j].call = None
    BY <1>3, <2>1
  <2>3. QED
    BY <1>3, <2>1, <2>2 DEF Innermost
<1>4. QED
  BY <1>2, <1>3 DEF Innermost

(* A frame is pushed: of a call, or of a with-block (c is None).           *)
LEMMA PushContext ==
    ASSUME TracingAssumption, PyTyped, NEW k \in Py!Contexts, ContextNests(k), base[k] # None,
           Grows, spans' \in [Calls -> Seq(PySpans)],
           NEW c \in Calls \union {None}, NEW s \in Py!Refs,
           base'[k] = base[k],
           stack'[k] = Append(stack[k], [call |-> c, span |-> s, prev |-> Py!Now(k)]),
           current_trace'[k] = (IF c # None THEN c ELSE current_trace[k]),
           current_span'[k] = s,
           current_trace'[k] # None => /\ s.trace = current_trace'[k]
                                       /\ s.n \in 1 .. Len(spans'[current_trace'[k]])
    PROVE  ContextNests(k)'
<1>1. PICK n \in Nat : n = Len(stack[k])
  BY LenProperties DEF PyTyped
<1>2. /\ \A i \in 1 .. n : stack[k][i].prev = After(k, i - 1)
      /\ Py!Now(k) = After(k, n)
      /\ \A i \in 0 .. n : Innermost(k, i, After(k, i).trace) /\ InTrace(After(k, i))
  BY <1>1 DEF ContextNests
<1>3. /\ Len(stack'[k]) = n + 1
      /\ \A i \in 1 .. n : stack'[k][i] = stack[k][i]
      /\ stack'[k][n + 1].call = c /\ stack'[k][n + 1].span = s
      /\ stack'[k][n + 1].prev = Py!Now(k)
  <2>1. stack[k] \in Seq(PyFrames) /\ Py!Now(k) \in PyValues
    BY DEF PyTyped, Py!Now, Py!Values, PyValues
  <2>2. [call |-> c, span |-> s, prev |-> Py!Now(k)] \in PyFrames
    BY <2>1 DEF PyFrames
  <2>3. QED
    BY <1>1, <2>1, <2>2, AppendProperties
<1>4. \A i \in 0 .. n : After(k, i)' = After(k, i) /\ After(k, i) \in PyValues
  BY <1>1, <1>3, AfterType DEF After
<1>5. ASSUME NEW i \in 0 .. n, NEW d, Innermost(k, i, d)
      PROVE  Innermost(k, i, d)'
  <2>1. i \in Nat /\ \A j \in 1 .. i : j \in 1 .. n
    OBVIOUS
  <2>2. QED
    BY <2>1, <1>3, <1>5, SameFrames
<1>6. Py!Now(k).trace = current_trace[k] /\ Py!Now(k)' = After(k, n + 1)'
  BY <1>3 DEF After, Py!Now, Py!Values
<1>7. \A i \in 1 .. n + 1 : stack'[k][i].prev = After(k, i - 1)'
  <2>1. ASSUME NEW i \in 1 .. n PROVE stack'[k][i].prev = After(k, i - 1)'
    <3>1. i - 1 \in 0 .. n
      OBVIOUS
    <3>2. QED
      BY <3>1, <1>2, <1>3, <1>4
  <2>2. stack'[k][n + 1].prev = After(k, n)'
    BY <1>2, <1>3, <1>4
  <2>3. \A i \in 1 .. n + 1 : i \in 1 .. n \/ (i = n + 1 /\ i - 1 = n)
    OBVIOUS
  <2>4. QED
    BY <2>1, <2>2, <2>3
<1>8. ASSUME NEW i \in 0 .. n
      PROVE  Innermost(k, i, After(k, i).trace)' /\ InTrace(After(k, i))'
  <2>1. PICK v \in PyValues : v = After(k, i) /\ v = After(k, i)'
    BY <1>4
  <2>2. Innermost(k, i, v.trace)' /\ InTrace(v)'
    BY <2>1, <1>2, <1>5, StaysInTrace DEF InTrace
  <2>3. QED
    BY <2>1, <2>2
<1>9. Innermost(k, n + 1, After(k, n + 1).trace)' /\ InTrace(After(k, n + 1))'
  <2>1. PICK v : v = After(k, n + 1)' /\ v.trace = current_trace'[k] /\ v.span = s
    BY <1>3, <1>6 DEF Py!Now, Py!Values
  <2>2. Innermost(k, n + 1, v.trace)'
    <3>1. CASE c # None
      <4>1. n + 1 \in 1 .. n + 1 /\ \A j \in n + 1 + 1 .. n + 1 : FALSE
        OBVIOUS
      <4>2. QED
        BY <2>1, <3>1, <4>1, <1>3 DEF Innermost
    <3>2. CASE c = None
      <4>1. v.trace = After(k, n).trace
        BY <2>1, <3>2, <1>2, <1>6
      <4>2. Innermost(k, n, v.trace)'
        BY <4>1, <1>2, <1>5
      <4>3. stack'[k][n + 1].call = None
        BY <3>2, <1>3
      <4>4. QED
        BY <4>2, <4>3, OneFrameMore
    <3>3. QED
      BY <3>1, <3>2
  <2>3. InTrace(v)'
    BY <2>1 DEF InTrace
  <2>4. QED
    BY <2>1, <2>2, <2>3
<1>10. \A i \in 0 .. n + 1 : Innermost(k, i, After(k, i).trace)' /\ InTrace(After(k, i))'
  <2>1. \A i \in 0 .. n + 1 : i \in 0 .. n \/ i = n + 1
    OBVIOUS
  <2>2. QED
    BY <2>1, <1>8, <1>9
<1>11. QED
  BY <1>3, <1>6, <1>7, <1>10 DEF ContextNests

(* The frame on top is popped, and the values it found come back.          *)
LEMMA PopContext ==
    ASSUME PyTyped, NEW k \in Py!Contexts, ContextNests(k), base[k] # None, stack[k] # <<>>,
           Grows, spans' \in [Calls -> Seq(PySpans)],
           base'[k] = base[k], stack'[k] = Py!Front(stack[k]),
           Py!Now(k)' = Py!Last(stack[k]).prev
    PROVE  ContextNests(k)'
<1>1. PICK n \in Nat \ {0} :
        /\ n = Len(stack[k]) /\ Py!Last(stack[k]) = stack[k][n]
        /\ Len(stack'[k]) = n - 1
        /\ \A i \in 1 .. n - 1 : stack'[k][i] = stack[k][i]
  <2>1. stack[k] \in Seq(PyFrames)
    BY DEF PyTyped
  <2>2. /\ Len(stack[k]) \in Nat \ {0} /\ Py!Last(stack[k]) = stack[k][Len(stack[k])]
        /\ Len(Py!Front(stack[k])) = Len(stack[k]) - 1
        /\ \A i \in 1 .. Len(stack[k]) - 1 : Py!Front(stack[k])[i] = stack[k][i]
    BY <2>1, LastFrame
  <2>3. QED
    BY <2>2
<1>2. /\ \A i \in 1 .. n : stack[k][i].prev = After(k, i - 1)
      /\ \A i \in 0 .. n : Innermost(k, i, After(k, i).trace) /\ InTrace(After(k, i))
  BY <1>1 DEF ContextNests
<1>3. \A i \in 0 .. n - 1 : After(k, i)' = After(k, i) /\ After(k, i) \in PyValues
  BY <1>1, AfterType DEF After
<1>4. ASSUME NEW i \in 0 .. n - 1, NEW d, Innermost(k, i, d)
      PROVE  Innermost(k, i, d)'
  <2>1. i \in Nat /\ \A j \in 1 .. i : j \in 1 .. n - 1
    OBVIOUS
  <2>2. QED
    BY <2>1, <1>1, <1>4, SameFrames
<1>5. \A i \in 0 .. n - 1 : i \in 0 .. n
  OBVIOUS
<1>6. Py!Now(k)' = After(k, n - 1)'
  <2>1. n \in 1 .. n /\ n - 1 \in 0 .. n - 1
    OBVIOUS
  <2>2. QED
    BY <2>1, <1>1, <1>2, <1>3
<1>7. ASSUME NEW i \in 1 .. n - 1 PROVE stack'[k][i].prev = After(k, i - 1)'
  <2>1. i \in 1 .. n /\ i - 1 \in 0 .. n - 1
    OBVIOUS
  <2>2. QED
    BY <2>1, <1>1, <1>2, <1>3
<1>8. ASSUME NEW i \in 0 .. n - 1
      PROVE  Innermost(k, i, After(k, i).trace)' /\ InTrace(After(k, i))'
  <2>1. PICK v \in PyValues : v = After(k, i) /\ v = After(k, i)'
    BY <1>3
  <2>2. Innermost(k, i, v.trace)' /\ InTrace(v)'
    BY <2>1, <1>2, <1>4, <1>5, StaysInTrace DEF InTrace
  <2>3. QED
    BY <2>1, <2>2
<1>9. QED
  BY <1>1, <1>6, <1>7, <1>8 DEF ContextNests

(* A context begins with values it was given.                              *)
LEMMA StartContext ==
    ASSUME TracingAssumption, PyTyped, NEW k \in Py!Contexts, ContextNests(k), base[k] = None,
           NEW v \in PyValues, InTrace(v), Py!Start(k, v)
    PROVE  ContextNests(k)'
<1>1. stack[k] = <<>> /\ Len(stack[k]) = 0 /\ stack' = stack /\ spans' = spans
  BY DEF ContextNests, Py!Start
<1>2. base'[k] = v
  BY DEF Py!Start, PyTyped
<1>3. Py!Now(k)' = v
  BY DEF Py!Start, PyTyped, Py!Now, Py!Values, PyValues
<1>4. After(k, 0)' = v /\ Innermost(k, 0, v.trace)' /\ InTrace(v)'
  BY <1>1, <1>2 DEF After, Innermost, InTrace
<1>5. QED
  BY <1>1, <1>3, <1>4 DEF ContextNests

-----------------------------------------------------------------------------
(* What the steps do to the spans.                                         *)

LEMMA RunningIsCurrent ==
    ASSUME PyTyped, NEW k \in Py!Contexts, ContextNests(k), base[k] # None
    PROVE  Py!Running(k) = current_trace[k]
<1>1. PICK n \in Nat : n = Len(stack[k]) /\ DOMAIN stack[k] = 1 .. n
  BY LenProperties DEF PyTyped
<1> DEFINE calls == {i \in DOMAIN stack[k] : stack[k][i].call # None}
<1>2. Innermost(k, n, current_trace[k])
  <2>1. Py!Now(k).trace = current_trace[k] /\ Py!Now(k) = After(k, n) /\ n \in 0 .. n
    BY <1>1 DEF ContextNests, Py!Now, Py!Values
  <2>2. QED
    BY <2>1, <1>1 DEF ContextNests
<1>3. CASE current_trace[k] = base[k].trace /\ \A j \in 1 .. n : stack[k][j].call = None
  <2>1. calls = {}
    BY <1>1, <1>3
  <2>2. QED
    BY <2>1, <1>3 DEF Py!Running
<1>4. ASSUME current_trace[k] # None,
             NEW m \in 1 .. n, stack[k][m].call = current_trace[k],
             \A j \in m + 1 .. n : stack[k][j].call = None
      PROVE  Py!Running(k) = current_trace[k]
  <2>1. calls \in SUBSET Nat /\ m \in calls /\ \A i \in calls : m >= i
    <3>1. \A i \in 1 .. n : i \in m + 1 .. n \/ m >= i
      OBVIOUS
    <3>2. QED
      BY <3>1, <1>1, <1>4
  <2>2. Py!Max(calls) = m
    BY <2>1, MaxIs
  <2>3. calls # {}
    BY <2>1
  <2>4. QED
    BY <2>2, <2>3, <1>4 DEF Py!Running
<1>5. QED
  BY <1>2, <1>3, <1>4 DEF Innermost

LEMMA SpanAdded ==
    ASSUME PyTyped, SpansByCall, NEW c \in Calls, NEW f \in PySpans, f.by = c,
           spans' = [spans EXCEPT ![c] = Append(@, f)]
    PROVE  /\ spans' \in [Calls -> Seq(PySpans)] /\ Grows /\ SpansByCall'
           /\ spans'[c] = Append(spans[c], f) /\ spans'[c] # <<>>
           /\ Len(spans[c]) \in Nat /\ Len(spans'[c]) = Len(spans[c]) + 1
           /\ \A d \in Calls : d # c => spans'[d] = spans[d]
<1>1. /\ spans[c] \in Seq(PySpans) /\ Len(spans[c]) \in Nat
      /\ DOMAIN spans[c] = 1 .. Len(spans[c])
  BY LenProperties DEF PyTyped
<1>2. /\ spans'[c] = Append(spans[c], f)
      /\ \A d \in Calls : d # c => spans'[d] = spans[d]
  BY DEF PyTyped
<1>3. /\ spans'[c] \in Seq(PySpans) /\ Len(spans'[c]) = Len(spans[c]) + 1
      /\ DOMAIN spans'[c] = 1 .. Len(spans[c]) + 1
      /\ \A n \in 1 .. Len(spans[c]) : spans'[c][n] = spans[c][n]
      /\ spans'[c][Len(spans[c]) + 1] = f
  BY <1>1, <1>2, AppendProperties, LenProperties
<1>4. spans' \in [Calls -> Seq(PySpans)]
  BY <1>3 DEF PyTyped
<1>5. Grows
  <2>1. \A d \in Calls : Len(spans[d]) \in Nat
    BY LenProperties DEF PyTyped
  <2>2. QED
    BY <2>1, <1>2, <1>3 DEF Grows
<1>6. SpansByCall'
  <2>1. \A n \in DOMAIN spans'[c] : spans'[c][n].by = c
    BY <1>1, <1>3 DEF SpansByCall
  <2>2. QED
    BY <2>1, <1>2 DEF SpansByCall
<1>7. spans'[c] # <<>>
  BY <1>1, <1>3
<1>8. QED
  BY <1>1, <1>2, <1>3, <1>4, <1>5, <1>6, <1>7

LEMMA SpanMarked ==
    ASSUME PyTyped, SpansByCall, NEW c \in Calls, NEW n,
           spans' = [spans EXCEPT ![c][n].ended = TRUE]
    PROVE  /\ spans' \in [Calls -> Seq(PySpans)] /\ Grows /\ SpansByCall'
           /\ Len(spans'[c]) = Len(spans[c]) /\ DOMAIN spans'[c] = DOMAIN spans[c]
           /\ \A i \in DOMAIN spans[c] : spans'[c][i].parent = spans[c][i].parent
           /\ \A d \in Calls : d # c => spans'[d] = spans[d]
           /\ \A d \in Calls : Len(spans'[d]) = Len(spans[d]) /\ (spans'[d] = <<>> <=> spans[d] = <<>>)
<1> DEFINE s == spans[c]
           t == [s EXCEPT ![n].ended = TRUE]
<1>1. s \in Seq(PySpans) /\ Len(s) \in Nat /\ DOMAIN s = 1 .. Len(s)
  BY LenProperties DEF PyTyped
<1>2. \A i \in DOMAIN s : s[i] \in PySpans
  BY <1>1, ElementOfSeq
<1>3. spans' = [spans EXCEPT ![c] = t]
  OBVIOUS
<1>4. /\ DOMAIN t = DOMAIN s
      /\ \A i \in DOMAIN s : t[i] \in PySpans /\ t[i].parent = s[i].parent /\ t[i].by = s[i].by
  <2>1. DOMAIN t = DOMAIN s
    OBVIOUS
  <2>2. ASSUME NEW i \in DOMAIN s
        PROVE  t[i] \in PySpans /\ t[i].parent = s[i].parent /\ t[i].by = s[i].by
    <3>1. CASE i = n
      <4>1. t[i] = [s[n] EXCEPT !.ended = TRUE] /\ s[n] \in PySpans
        BY <3>1, <1>2
      <4>2. QED
        BY <3>1, <4>1 DEF PySpans
    <3>2. CASE i # n
      <4>1. t[i] = s[i] /\ s[i] \in PySpans
        BY <3>2, <1>2
      <4>2. QED
        BY <4>1
    <3>3. QED
      BY <3>1, <3>2
  <2>3. QED
    BY <2>1, <2>2
<1> HIDE DEF t
<1>5. t \in Seq(PySpans) /\ Len(t) = Len(s)
  <2>1. t = [i \in 1 .. Len(s) |-> t[i]]
    BY <1>1, <1>4 DEF t
  <2>2. QED
    BY <1>1, <1>4, <2>1, IsASeq
<1>6. spans'[c] = t /\ \A d \in Calls : d # c => spans'[d] = spans[d]
  BY <1>3 DEF PyTyped
<1>7. spans' \in [Calls -> Seq(PySpans)]
  BY <1>3, <1>5 DEF PyTyped
<1>8. \A d \in Calls : Len(spans'[d]) = Len(spans[d]) /\ Len(spans[d]) \in Nat
  BY <1>5, <1>6, LenProperties DEF PyTyped
<1>9. \A d \in Calls : spans'[d] = <<>> <=> spans[d] = <<>>
  BY <1>1, <1>5, <1>6, EmptySeq
<1>10. SpansByCall'
  BY <1>4, <1>6 DEF SpansByCall
<1>11. Grows
  BY <1>8 DEF Grows
<1>12. QED
  BY <1>4, <1>5, <1>6, <1>7, <1>8, <1>9, <1>10, <1>11

-----------------------------------------------------------------------------
(* What the steps do to the frames.                                        *)

(* Traces keep their roots, and the calls in frames are not sent.          *)
LEMMA SameCalls ==
    ASSUME CallsAreOpen, UNCHANGED <<stack, sent>>,
           \A c \in Calls : spans[c] # <<>> => spans'[c] # <<>>
    PROVE  CallsAreOpen'
BY DEF CallsAreOpen

LEMMA PushCalls ==
    ASSUME TracingAssumption, PyTyped, CallsAreOpen, NEW k \in Py!Contexts,
           NEW f \in PyFrames, stack' = [stack EXCEPT ![k] = Append(@, f)], sent' = sent,
           \A c \in Calls : spans[c] # <<>> => spans'[c] # <<>>,
           f.call # None => spans[f.call] = <<>> /\ spans'[f.call] # <<>> /\ sent[f.call] = <<>>
    PROVE  CallsAreOpen' /\ stack' \in [Py!Contexts -> Seq(PyFrames)]
<1>1. PICK n \in Nat : n = Len(stack[k])
  BY LenProperties DEF PyTyped
<1>2. /\ stack'[k] \in Seq(PyFrames) /\ Len(stack'[k]) = n + 1 /\ stack'[k][n + 1] = f
      /\ \A i \in 1 .. n : stack'[k][i] = stack[k][i]
      /\ \A j \in Py!Contexts : j # k => stack'[j] = stack[j]
  <2>1. stack[k] \in Seq(PyFrames) /\ stack'[k] = Append(stack[k], f)
    BY DEF PyTyped
  <2>2. QED
    BY <2>1, <1>1, AppendProperties DEF PyTyped
<1>3. stack' \in [Py!Contexts -> Seq(PyFrames)]
  BY <1>2 DEF PyTyped
<1>4. \A j \in Py!Contexts : \A i \in 1 .. Len(stack'[j]) :
        \/ j = k /\ i = n + 1 /\ stack'[j][i] = f
        \/ i \in 1 .. Len(stack[j]) /\ stack'[j][i] = stack[j][i]
  <2>1. \A i \in 1 .. n + 1 : i \in 1 .. n \/ i = n + 1
    OBVIOUS
  <2>2. QED
    BY <2>1, <1>1, <1>2
<1>5. \A j \in Py!Contexts : \A i \in 1 .. Len(stack[j]) :
        stack[j][i].call \in Calls => stack[j][i].call # f.call
  BY DEF CallsAreOpen, TracingAssumption
<1>6. ASSUME NEW c \in Calls, NEW j \in Py!Contexts, NEW i \in 1 .. Len(stack'[j]),
             stack'[j][i].call = c
      PROVE  /\ spans'[c] # <<>> /\ sent'[c] = <<>>
             /\ \A l \in Py!Contexts : \A m \in 1 .. Len(stack'[l]) :
                   stack'[l][m].call = c => l = j /\ m = i
  <2>1. CASE j = k /\ i = n + 1 /\ stack'[j][i] = f
    BY <2>1, <1>4, <1>5, <1>6 DEF TracingAssumption
  <2>2. CASE i \in 1 .. Len(stack[j]) /\ stack'[j][i] = stack[j][i]
    BY <2>2, <1>4, <1>5, <1>6 DEF CallsAreOpen
  <2>3. QED
    BY <2>1, <2>2, <1>4
<1>7. QED
  BY <1>3, <1>6 DEF CallsAreOpen

LEMMA PopCalls ==
    ASSUME PyTyped, CallsAreOpen, NEW k \in Py!Contexts, stack[k] # <<>>,
           stack' = [stack EXCEPT ![k] = Py!Front(@)],
           \A c \in Calls : /\ spans[c] # <<>> => spans'[c] # <<>>
                            /\ sent'[c] = sent[c] \/ c = Py!Last(stack[k]).call
    PROVE  CallsAreOpen' /\ stack' \in [Py!Contexts -> Seq(PyFrames)]
<1>1. PICK n \in Nat \ {0} :
        /\ n = Len(stack[k]) /\ Py!Last(stack[k]) = stack[k][n]
        /\ Py!Front(stack[k]) \in Seq(PyFrames) /\ Len(Py!Front(stack[k])) = n - 1
        /\ \A i \in 1 .. n - 1 : Py!Front(stack[k])[i] = stack[k][i]
  <2>1. stack[k] \in Seq(PyFrames)
    BY DEF PyTyped
  <2>2. /\ Len(stack[k]) \in Nat \ {0} /\ Py!Last(stack[k]) = stack[k][Len(stack[k])]
        /\ Py!Front(stack[k]) \in Seq(PyFrames)
        /\ Len(Py!Front(stack[k])) = Len(stack[k]) - 1
        /\ \A i \in 1 .. Len(stack[k]) - 1 : Py!Front(stack[k])[i] = stack[k][i]
    BY <2>1, LastFrame
  <2>3. QED
    BY <2>2
<1>2. /\ stack'[k] = Py!Front(stack[k])
      /\ \A j \in Py!Contexts : j # k => stack'[j] = stack[j]
  BY DEF PyTyped
<1>3. stack' \in [Py!Contexts -> Seq(PyFrames)]
  BY <1>1, <1>2 DEF PyTyped
<1>4. \A j \in Py!Contexts : \A i \in 1 .. Len(stack'[j]) :
        /\ i \in 1 .. Len(stack[j]) /\ stack'[j][i] = stack[j][i]
        /\ ~ (j = k /\ i = n)
  <2>1. \A i \in 1 .. n - 1 : i \in 1 .. n /\ i # n
    OBVIOUS
  <2>2. QED
    BY <2>1, <1>1, <1>2
<1>5. ASSUME NEW c \in Calls, NEW j \in Py!Contexts, NEW i \in 1 .. Len(stack'[j]),
             stack'[j][i].call = c
      PROVE  /\ spans'[c] # <<>> /\ sent'[c] = <<>>
             /\ \A l \in Py!Contexts : \A m \in 1 .. Len(stack'[l]) :
                   stack'[l][m].call = c => l = j /\ m = i
  <2>1. /\ i \in 1 .. Len(stack[j]) /\ stack[j][i].call = c /\ ~ (j = k /\ i = n)
        /\ n \in 1 .. Len(stack[k])
    BY <1>1, <1>4, <1>5
  <2>2. /\ spans[c] # <<>> /\ sent[c] = <<>>
        /\ \A l \in Py!Contexts : \A m \in 1 .. Len(stack[l]) :
               stack[l][m].call = c => l = j /\ m = i
    BY <2>1 DEF CallsAreOpen
  <2>3. c # Py!Last(stack[k]).call
    BY <2>1, <2>2, <1>1
  <2>4. QED
    BY <2>2, <2>3, <1>4
<1>6. QED
  BY <1>3, <1>5 DEF CallsAreOpen

-----------------------------------------------------------------------------
(* Each step keeps the invariant.                                          *)

LEMMA PyStartKeeps ==
    ASSUME TracingAssumption, PyInv, NEW k \in Py!Contexts,
           Py!StartThread(k) \/ \E j \in Py!Contexts : Py!StartTask(j, k)
    PROVE  PyInv'
<1>1. PICK v \in PyValues : InTrace(v) /\ Py!Start(k, v)
  <2>1. CASE Py!StartThread(k)
    <3>1. Py!Empty \in PyValues /\ InTrace(Py!Empty)
      BY RefType DEF InTrace
    <3>2. QED
      BY <2>1, <3>1 DEF Py!StartThread
  <2>2. ASSUME NEW j \in Py!Contexts, Py!StartTask(j, k)
        PROVE  \E v \in PyValues : InTrace(v) /\ Py!Start(k, v)
    <3>1. base[j] # None /\ Py!Start(k, Py!Now(j))
      BY <2>2 DEF Py!StartTask
    <3>2. PICK n \in Nat : n = Len(stack[j]) /\ n \in 0 .. n
      BY LenProperties DEF PyInv, PyTyped
    <3>3. Py!Now(j) = After(j, n) /\ InTrace(After(j, n))
      BY <3>1, <3>2 DEF PyInv, ContextNests
    <3>4. After(j, n) \in PyValues
      BY <3>1, <3>2, AfterType DEF PyInv
    <3>5. QED
      BY <3>1, <3>3, <3>4
  <2>3. QED
    BY <2>1, <2>2
<1>2. /\ base[k] = None
      /\ base' = [base EXCEPT ![k] = v]
      /\ current_trace' = [current_trace EXCEPT ![k] = v.trace]
      /\ current_span' = [current_span EXCEPT ![k] = v.span]
      /\ UNCHANGED <<stack, spans, sent>>
  BY <1>1 DEF Py!Start
<1>3. PyTyped'
  BY <1>2 DEF PyInv, PyTyped, PyValues, PySpans, PyFrames, Py!Refs, Py!Contexts
<1>4. ASSUME NEW j \in Py!Contexts
      PROVE  ContextNests(j)'
  <2>1. CASE j = k
    BY <2>1, <1>1, <1>2, StartContext DEF PyInv
  <2>2. CASE j # k
    <3>1. base'[j] = base[j] /\ Py!Now(j)' = Py!Now(j) /\ stack'[j] = stack[j]
      BY <2>2, <1>2 DEF PyInv, PyTyped, Py!Now
    <3>2. Grows /\ spans' \in [Calls -> Seq(PySpans)]
      BY <1>2, LenProperties DEF PyInv, PyTyped, Grows
    <3>3. QED
      BY <3>1, <3>2, SameContext DEF PyInv
  <2>3. QED
    BY <2>1, <2>2
<1>5. CallsAreOpen' /\ SentOnce' /\ SpansByCall'
  BY <1>2, SameCalls DEF PyInv, SentOnce, SpansByCall
<1>6. QED
  BY <1>3, <1>4, <1>5 DEF PyInv

LEMMA OtherContexts ==
    ASSUME PyInv, NEW k \in Py!Contexts, Grows, spans' \in [Calls -> Seq(PySpans)], base' = base,
           \A j \in Py!Contexts :
               j # k => /\ stack'[j] = stack[j]
                        /\ current_trace'[j] = current_trace[j]
                        /\ current_span'[j] = current_span[j],
           ContextNests(k)'
    PROVE  \A j \in Py!Contexts : ContextNests(j)'
<1> SUFFICES ASSUME NEW j \in Py!Contexts, j # k PROVE ContextNests(j)'
  OBVIOUS
<1>1. Py!Now(j)' = Py!Now(j)
  BY DEF Py!Now
<1>2. QED
  BY <1>1, SameContext DEF PyInv

LEMMA PyCallKeeps ==
    ASSUME TracingAssumption, PyInv, NEW k \in Py!Contexts, NEW c \in Calls, Py!Call(k, c)
    PROVE  PyInv'
<1> DEFINE f == [call |-> c, span |-> Py!Ref(c, 1), prev |-> Py!Now(k)]
<1>1. /\ base[k] # None /\ spans[c] = <<>>
      /\ spans' = [spans EXCEPT ![c] = <<Py!Span(Py!NoSpan, c)>>]
      /\ current_trace' = [current_trace EXCEPT ![k] = c]
      /\ current_span' = [current_span EXCEPT ![k] = Py!Ref(c, 1)]
      /\ stack' = [stack EXCEPT ![k] = Append(@, f)]
      /\ UNCHANGED <<base, sent>>
  BY DEF Py!Call, Py!Push
<1>2. 1 \in 0 .. MaxSpans /\ Py!Ref(c, 1) \in Py!Refs
  BY RefType DEF TracingAssumption
<1>3. f \in PyFrames
  <2>1. Py!Now(k) \in PyValues
    BY DEF PyInv, PyTyped, Py!Now, Py!Values, PyValues
  <2>2. QED
    BY <1>2, <2>1 DEF PyFrames
<1>4. Py!Span(Py!NoSpan, c) \in PySpans /\ Py!Span(Py!NoSpan, c).by = c
  BY RefType DEF Py!Span, PySpans
<1>5. /\ spans' \in [Calls -> Seq(PySpans)] /\ Grows /\ SpansByCall'
      /\ spans'[c] # <<>> /\ Len(spans'[c]) = 1
      /\ \A d \in Calls : d # c => spans'[d] = spans[d]
  <2>1. spans' = [spans EXCEPT ![c] = Append(@, Py!Span(Py!NoSpan, c))]
    BY <1>1, OneElement DEF PyInv, PyTyped
  <2>2. /\ spans' \in [Calls -> Seq(PySpans)] /\ Grows /\ SpansByCall'
        /\ spans'[c] # <<>> /\ Len(spans'[c]) = Len(spans[c]) + 1
        /\ \A d \in Calls : d # c => spans'[d] = spans[d]
    BY <2>1, <1>4, SpanAdded DEF PyInv
  <2>3. Len(spans[c]) = 0
    BY <1>1
  <2>4. QED
    BY <2>2, <2>3
<1>6. CallsAreOpen' /\ stack' \in [Py!Contexts -> Seq(PyFrames)]
  <2>1. sent[c] = <<>>
    BY <1>1 DEF PyInv, SentOnce
  <2>2. \A d \in Calls : spans[d] # <<>> => spans'[d] # <<>>
    BY <1>5
  <2>3. f.call = c
    OBVIOUS
  <2>4. QED
    BY <1>1, <1>3, <1>5, <2>1, <2>2, <2>3, PushCalls DEF PyInv
<1>7. PyTyped'
  <2>1. /\ current_trace' \in [Py!Contexts -> Calls \union {None}]
        /\ current_span' \in [Py!Contexts -> Py!Refs]
    BY <1>1, <1>2 DEF PyInv, PyTyped
  <2>2. QED
    BY <2>1, <1>1, <1>5, <1>6 DEF PyInv, PyTyped, PyValues, PySpans, PyFrames, Py!Refs, Py!Contexts
<1>8. ContextNests(k)'
  <2>1. /\ stack'[k] = Append(stack[k], f) /\ base'[k] = base[k]
        /\ current_trace'[k] = c /\ current_span'[k] = Py!Ref(c, 1)
    BY <1>1 DEF PyInv, PyTyped
  <2>2. c # None /\ Py!Ref(c, 1).trace = c /\ Py!Ref(c, 1).n \in 1 .. Len(spans'[c])
    BY <1>5 DEF Py!Ref, TracingAssumption
  <2>3. QED
    BY <2>1, <2>2, <1>1, <1>2, <1>5, PushContext DEF PyInv
<1>9. \A j \in Py!Contexts : ContextNests(j)'
  <2>1. \A j \in Py!Contexts :
          j # k => /\ stack'[j] = stack[j]
                   /\ current_trace'[j] = current_trace[j]
                   /\ current_span'[j] = current_span[j]
    BY <1>1 DEF PyInv, PyTyped
  <2>2. QED
    BY <2>1, <1>1, <1>5, <1>8, OtherContexts
<1>10. SentOnce'
  BY <1>1, <1>5 DEF PyInv, SentOnce, TracingAssumption
<1>11. QED
  BY <1>5, <1>6, <1>7, <1>9, <1>10 DEF PyInv

(* span() puts the new span into the trace of the code that opens it.      *)
LEMMA RecordedEffect ==
    ASSUME TracingAssumption, PyInv, NEW k \in Py!Contexts, Py!MayOpen(k), spans' = Py!Recorded(k)
    PROVE  /\ spans' \in [Calls -> Seq(PySpans)] /\ Grows /\ SpansByCall'
           /\ \A c \in Calls : /\ Len(spans'[c]) <= MaxSpans
                               /\ spans[c] # <<>> => spans'[c] # <<>>
                               /\ spans'[c] = <<>> => spans[c] = <<>>
           /\ Py!NewSpan(k) \in Py!Refs
           /\ current_trace[k] # None =>
                  /\ Py!NewSpan(k).trace = current_trace[k]
                  /\ Py!NewSpan(k).n \in 1 .. Len(spans'[current_trace[k]])
<1>1. CASE current_trace[k] = None
  <2>1. spans' = spans
    BY <1>1 DEF Py!Recorded
  <2>2. Grows
    BY <2>1, LenProperties DEF PyInv, PyTyped, Grows
  <2>3. QED
    BY <1>1, <2>1, <2>2, RefType
       DEF PyInv, PyTyped, SpansByCall, SentOnce, Py!NewSpan
<1>2. ASSUME NEW c \in Calls, c = current_trace[k], c # None
      PROVE  /\ spans' \in [Calls -> Seq(PySpans)] /\ Grows /\ SpansByCall'
             /\ \A d \in Calls : /\ Len(spans'[d]) <= MaxSpans
                                 /\ spans[d] # <<>> => spans'[d] # <<>>
                                 /\ spans'[d] = <<>> => spans[d] = <<>>
             /\ Py!NewSpan(k) \in Py!Refs
             /\ current_trace[k] # None =>
                    /\ Py!NewSpan(k).trace = current_trace[k]
                    /\ Py!NewSpan(k).n \in 1 .. Len(spans'[current_trace[k]])
  <2>1. base[k] # None /\ Len(spans[c]) < MaxSpans
    BY <1>2 DEF Py!MayOpen
  <2>2. Py!Running(k) = c
    BY <1>2, <2>1, RunningIsCurrent DEF PyInv
  <2>3. PICK f \in PySpans : f = Py!Span(current_span[k], c) /\ f.by = c
    <3>1. current_span[k] \in Py!Refs
      BY DEF PyInv, PyTyped
    <3>2. Py!Span(current_span[k], c) \in PySpans /\ Py!Span(current_span[k], c).by = c
      BY <3>1 DEF Py!Span, PySpans
    <3>3. QED
      BY <3>2
  <2>4. spans' = [spans EXCEPT ![c] = Append(@, f)]
    BY <1>2, <2>2, <2>3 DEF Py!Recorded
  <2>5. /\ spans' \in [Calls -> Seq(PySpans)] /\ Grows /\ SpansByCall'
        /\ spans'[c] # <<>> /\ Len(spans[c]) \in Nat /\ Len(spans'[c]) = Len(spans[c]) + 1
        /\ \A d \in Calls : d # c => spans'[d] = spans[d]
    BY <2>3, <2>4, SpanAdded DEF PyInv
  <2>6. Len(spans[c]) + 1 \in 1 .. MaxSpans
    BY <2>1, <2>5 DEF TracingAssumption
  <2>7. Py!NewSpan(k) = Py!Ref(c, Len(spans[c]) + 1)
    BY <1>2 DEF Py!NewSpan
  <2>8. \A d \in Calls : Len(spans[d]) <= MaxSpans
    BY DEF PyInv, SentOnce
  <2>9. /\ Py!NewSpan(k) \in Py!Refs
        /\ Py!NewSpan(k).trace = c /\ Py!NewSpan(k).n \in 1 .. Len(spans'[c])
    BY <2>5, <2>6, <2>7 DEF Py!Ref, Py!Refs
  <2>10. QED
    BY <1>2, <2>5, <2>6, <2>8, <2>9
<1>3. current_trace[k] \in Calls \union {None}
  BY DEF PyInv, PyTyped
<1>4. QED
  BY <1>1, <1>2, <1>3

LEMMA OpenOnlyKeeps ==
    ASSUME TracingAssumption, PyInv, NEW k \in Py!Contexts, Py!OpenOnly(k)
    PROVE  PyInv'
<1>1. /\ Py!MayOpen(k) /\ spans' = Py!Recorded(k)
      /\ UNCHANGED <<base, current_trace, current_span, stack, sent>>
  BY DEF Py!OpenOnly
<1>2. /\ spans' \in [Calls -> Seq(PySpans)] /\ Grows /\ SpansByCall'
      /\ \A c \in Calls : /\ Len(spans'[c]) <= MaxSpans
                          /\ spans[c] # <<>> => spans'[c] # <<>>
                          /\ spans'[c] = <<>> => spans[c] = <<>>
  BY <1>1, RecordedEffect
<1>3. \A j \in Py!Contexts : ContextNests(j)'
  <2> SUFFICES ASSUME NEW j \in Py!Contexts PROVE ContextNests(j)'
    OBVIOUS
  <2>1. Py!Now(j)' = Py!Now(j)
    BY <1>1 DEF Py!Now
  <2>2. QED
    BY <2>1, <1>1, <1>2, SameContext DEF PyInv
<1>4. PyTyped'
  BY <1>1, <1>2 DEF PyInv, PyTyped, PyValues, PySpans, PyFrames, Py!Refs, Py!Contexts
<1>5. CallsAreOpen' /\ SentOnce'
  BY <1>1, <1>2, SameCalls DEF PyInv, SentOnce
<1>6. QED
  BY <1>2, <1>3, <1>4, <1>5 DEF PyInv

LEMMA WithKeeps ==
    ASSUME TracingAssumption, PyInv, NEW k \in Py!Contexts, Py!With(k)
    PROVE  PyInv'
<1> DEFINE f == [call |-> None, span |-> Py!NewSpan(k), prev |-> Py!Now(k)]
<1>1. /\ Py!MayOpen(k) /\ base[k] # None /\ spans' = Py!Recorded(k)
      /\ current_span' = [current_span EXCEPT ![k] = Py!NewSpan(k)]
      /\ stack' = [stack EXCEPT ![k] = Append(@, f)]
      /\ UNCHANGED <<base, current_trace, sent>>
  BY DEF Py!With, Py!Push, Py!MayOpen
<1>2. /\ spans' \in [Calls -> Seq(PySpans)] /\ Grows /\ SpansByCall'
      /\ \A c \in Calls : /\ Len(spans'[c]) <= MaxSpans
                          /\ spans[c] # <<>> => spans'[c] # <<>>
                          /\ spans'[c] = <<>> => spans[c] = <<>>
      /\ Py!NewSpan(k) \in Py!Refs
      /\ current_trace[k] # None =>
            /\ Py!NewSpan(k).trace = current_trace[k]
            /\ Py!NewSpan(k).n \in 1 .. Len(spans'[current_trace[k]])
  BY <1>1, RecordedEffect
<1>3. f \in PyFrames
  <2>1. Py!Now(k) \in PyValues
    BY DEF PyInv, PyTyped, Py!Now, Py!Values, PyValues
  <2>2. QED
    BY <1>2, <2>1 DEF PyFrames
<1>4. CallsAreOpen' /\ stack' \in [Py!Contexts -> Seq(PyFrames)]
  BY <1>1, <1>2, <1>3, PushCalls DEF PyInv
<1>5. ContextNests(k)'
  <2>1. /\ stack'[k] = Append(stack[k], f) /\ base'[k] = base[k]
        /\ current_trace'[k] = current_trace[k] /\ current_span'[k] = Py!NewSpan(k)
    BY <1>1 DEF PyInv, PyTyped
  <2>2. QED
    BY <2>1, <1>1, <1>2, PushContext DEF PyInv
<1>6. \A j \in Py!Contexts : ContextNests(j)'
  <2>1. \A j \in Py!Contexts :
          j # k => /\ stack'[j] = stack[j]
                   /\ current_trace'[j] = current_trace[j]
                   /\ current_span'[j] = current_span[j]
    BY <1>1 DEF PyInv, PyTyped
  <2>2. QED
    BY <2>1, <1>1, <1>2, <1>5, OtherContexts
<1>7. PyTyped'
  <2>1. current_span' \in [Py!Contexts -> Py!Refs]
    BY <1>1, <1>2 DEF PyInv, PyTyped
  <2>2. QED
    BY <2>1, <1>1, <1>2, <1>4 DEF PyInv, PyTyped, PyValues, PySpans, PyFrames, Py!Refs, Py!Contexts
<1>8. SentOnce'
  BY <1>1, <1>2 DEF PyInv, SentOnce
<1>9. QED
  BY <1>2, <1>4, <1>6, <1>7, <1>8 DEF PyInv

LEMMA ExitKeeps == ASSUME TracingAssumption, PyInv, NEW k \in Py!Contexts, Py!Exit(k) PROVE PyInv'
<1>1. /\ stack[k] # <<>> /\ Py!Last(stack[k]).call = None
      /\ current_span' = Py!RestoreSpan(k)
      /\ stack' = [stack EXCEPT ![k] = Py!Front(@)]
      /\ UNCHANGED <<base, current_trace, sent>>
  BY DEF Py!Exit
<1>2. Py!Last(stack[k]) \in PyFrames /\ base[k] # None
  BY <1>1, LastFrame DEF PyInv, PyTyped, ContextNests
<1>3. /\ spans' \in [Calls -> Seq(PySpans)] /\ Grows /\ SpansByCall'
      /\ \A c \in Calls : Len(spans'[c]) = Len(spans[c]) /\ (spans'[c] = <<>> <=> spans[c] = <<>>)
  <2>1. CASE Py!Last(stack[k]).span.trace = None
    <3>1. spans' = spans
      BY <2>1 DEF Py!Exit
    <3>2. Grows
      BY <3>1, LenProperties DEF PyInv, PyTyped, Grows
    <3>3. QED
      BY <3>1, <3>2 DEF PyInv, PyTyped, SpansByCall
  <2>2. ASSUME NEW c \in Calls, NEW n, Py!Last(stack[k]).span.trace = c,
               n = Py!Last(stack[k]).span.n, c # None
        PROVE  /\ spans' \in [Calls -> Seq(PySpans)] /\ Grows /\ SpansByCall'
               /\ \A d \in Calls : /\ Len(spans'[d]) = Len(spans[d])
                                   /\ spans'[d] = <<>> <=> spans[d] = <<>>
    <3>1. spans' = [spans EXCEPT ![c][n].ended = TRUE]
      BY <2>2 DEF Py!Exit
    <3>2. QED
      BY <3>1, SpanMarked DEF PyInv
  <2>3. Py!Last(stack[k]).span.trace \in Calls \union {None}
    BY <1>2 DEF PyFrames, Py!Refs
  <2>4. QED
    BY <2>1, <2>2, <2>3
<1>4. CallsAreOpen' /\ stack' \in [Py!Contexts -> Seq(PyFrames)]
  BY <1>1, <1>3, PopCalls DEF PyInv
<1>5. Py!Last(stack[k]).prev \in PyValues /\ Py!Last(stack[k]).prev.trace = current_trace[k]
  <2>1. Py!Last(stack[k]).prev \in PyValues
    BY <1>2 DEF PyFrames
  <2>2. /\ Len(stack[k]) \in Nat \ {0} /\ Py!Last(stack[k]) = stack[k][Len(stack[k])]
    BY <1>1, LastFrame DEF PyInv, PyTyped
  <2>3. Py!Now(k) = After(k, Len(stack[k]))
    BY <1>2 DEF PyInv, ContextNests
  <2>4. QED
    BY <2>1, <2>2, <2>3, <1>1 DEF After, Py!Now, Py!Values
<1>6. /\ stack'[k] = Py!Front(stack[k]) /\ current_span'[k] = Py!Last(stack[k]).prev.span
      /\ current_span' \in [Py!Contexts -> Py!Refs]
  BY <1>1, <1>5 DEF PyInv, PyTyped, Py!RestoreSpan, PyValues
<1>7. ContextNests(k)'
  <2>1. Py!Now(k)' = Py!Last(stack[k]).prev
    BY <1>1, <1>5, <1>6 DEF Py!Now, Py!Values, PyValues
  <2>2. QED
    BY <2>1, <1>1, <1>2, <1>3, <1>6, PopContext DEF PyInv
<1>8. \A j \in Py!Contexts : ContextNests(j)'
  <2>1. \A j \in Py!Contexts :
          j # k => /\ stack'[j] = stack[j]
                   /\ current_trace'[j] = current_trace[j]
                   /\ current_span'[j] = current_span[j]
    BY <1>1 DEF PyInv, PyTyped, Py!RestoreSpan
  <2>2. QED
    BY <2>1, <1>1, <1>3, <1>7, OtherContexts
<1>9. PyTyped'
  BY <1>1, <1>3, <1>4, <1>6
     DEF PyInv, PyTyped, PyValues, PySpans, PyFrames, Py!Refs, Py!Contexts
<1>10. SentOnce'
  BY <1>1, <1>3 DEF PyInv, SentOnce
<1>11. QED
  BY <1>3, <1>4, <1>8, <1>9, <1>10 DEF PyInv

(* The call that returns, and its trace before it is sent.                 *)
LEMMA LeaveEffect ==
    ASSUME TracingAssumption, PyInv, NEW k \in Py!Contexts, Py!Leave(k)
    PROVE  \E c \in Calls :
             /\ Py!Last(stack[k]).call = c /\ stack[k] # <<>> /\ base[k] # None
             /\ spans[c] # <<>> /\ sent[c] = <<>>
             /\ spans' = [spans EXCEPT ![c][1].ended = TRUE] \/ spans' = spans
             /\ sent' = [sent EXCEPT ![c] = <<spans'[c]>>]
<1>1. stack[k] # <<>> /\ Py!Last(stack[k]).call # None
  BY DEF Py!Leave
<1>2. /\ Len(stack[k]) \in Nat \ {0} /\ Py!Last(stack[k]) = stack[k][Len(stack[k])]
      /\ Py!Last(stack[k]) \in PyFrames /\ base[k] # None
  BY <1>1, LastFrame DEF PyInv, PyTyped, ContextNests
<1>3. PICK c \in Calls : c = Py!Last(stack[k]).call
  BY <1>1, <1>2 DEF PyFrames
<1>4. spans[c] # <<>> /\ sent[c] = <<>>
  <2>1. Len(stack[k]) \in 1 .. Len(stack[k]) /\ stack[k][Len(stack[k])].call = c
    BY <1>2, <1>3
  <2>2. QED
    BY <2>1 DEF PyInv, CallsAreOpen
<1>5. spans' = [spans EXCEPT ![c][1].ended = TRUE] \/ spans' = spans
  BY <1>3 DEF Py!Leave
<1>6. sent' = [sent EXCEPT ![c] = <<spans'[c]>>]
  <2>1. sent' = [sent EXCEPT ![c] = Append(@, spans'[c])]
    BY <1>3 DEF Py!Leave
  <2>2. QED
    BY <2>1, <1>4, OneElement DEF PyInv, PyTyped
<1>7. QED
  BY <1>1, <1>2, <1>3, <1>4, <1>5, <1>6

LEMMA LeaveKeeps == ASSUME TracingAssumption, PyInv, NEW k \in Py!Contexts, Py!Leave(k) PROVE PyInv'
<1>1. PICK c \in Calls :
        /\ Py!Last(stack[k]).call = c /\ stack[k] # <<>> /\ base[k] # None
        /\ spans[c] # <<>> /\ sent[c] = <<>>
        /\ spans' = [spans EXCEPT ![c][1].ended = TRUE] \/ spans' = spans
        /\ sent' = [sent EXCEPT ![c] = <<spans'[c]>>]
  BY LeaveEffect
<1>2. /\ current_trace' = Py!RestoreTrace(k)
      /\ current_span' = Py!RestoreSpan(k)
      /\ stack' = [stack EXCEPT ![k] = Py!Front(@)]
      /\ UNCHANGED base
  BY DEF Py!Leave
<1>3. /\ spans' \in [Calls -> Seq(PySpans)] /\ Grows /\ SpansByCall'
      /\ \A d \in Calls : Len(spans'[d]) = Len(spans[d]) /\ (spans'[d] = <<>> <=> spans[d] = <<>>)
  <2>1. CASE spans' = spans
    <3>1. Grows
      BY <2>1, LenProperties DEF PyInv, PyTyped, Grows
    <3>2. QED
      BY <2>1, <3>1 DEF PyInv, PyTyped, SpansByCall
  <2>2. CASE spans' = [spans EXCEPT ![c][1].ended = TRUE]
    BY <2>2, SpanMarked DEF PyInv
  <2>3. QED
    BY <2>1, <2>2, <1>1
<1>4. /\ sent' \in [Calls -> Seq(Seq(PySpans))] /\ Len(sent'[c]) = 1
      /\ \A d \in Calls : d # c => sent'[d] = sent[d]
  <2>1. /\ <<spans'[c]>> \in Seq(Seq(PySpans)) /\ Len(<<spans'[c]>>) = 1
    BY <1>3
  <2>2. QED
    BY <2>1, <1>1 DEF PyInv, PyTyped
<1>5. CallsAreOpen' /\ stack' \in [Py!Contexts -> Seq(PyFrames)]
  BY <1>1, <1>2, <1>3, <1>4, PopCalls DEF PyInv
<1>6. Py!Last(stack[k]).prev \in PyValues
  <2>1. stack[k] \in Seq(PyFrames) /\ stack[k] # <<>>
    BY DEF PyInv, PyTyped, Py!Leave
  <2>2. Py!Last(stack[k]) \in PyFrames
    BY <2>1, LastFrame
  <2>3. QED
    BY <2>2 DEF PyFrames
<1>7. /\ stack'[k] = Py!Front(stack[k])
      /\ current_trace'[k] = Py!Last(stack[k]).prev.trace
      /\ current_span'[k] = Py!Last(stack[k]).prev.span
      /\ current_trace' \in [Py!Contexts -> Calls \union {None}]
      /\ current_span' \in [Py!Contexts -> Py!Refs]
  BY <1>2, <1>6 DEF PyInv, PyTyped, Py!RestoreTrace, Py!RestoreSpan, PyValues
<1>8. ContextNests(k)'
  <2>1. Py!Now(k)' = Py!Last(stack[k]).prev
    BY <1>6, <1>7 DEF Py!Now, Py!Values, PyValues
  <2>2. QED
    BY <2>1, <1>1, <1>2, <1>3, <1>7, PopContext DEF PyInv
<1>9. \A j \in Py!Contexts : ContextNests(j)'
  <2>1. \A j \in Py!Contexts :
          j # k => /\ stack'[j] = stack[j]
                   /\ current_trace'[j] = current_trace[j]
                   /\ current_span'[j] = current_span[j]
    BY <1>2 DEF PyInv, PyTyped, Py!RestoreTrace, Py!RestoreSpan
  <2>2. QED
    BY <2>1, <1>2, <1>3, <1>8, OtherContexts
<1>10. PyTyped'
  BY <1>2, <1>3, <1>4, <1>5, <1>7
     DEF PyInv, PyTyped, PyValues, PySpans, PyFrames, Py!Refs, Py!Contexts
<1>11. SentOnce'
  BY <1>1, <1>3, <1>4 DEF PyInv, SentOnce
<1>12. QED
  BY <1>3, <1>5, <1>9, <1>10, <1>11 DEF PyInv

LEMMA PyStepInv == ASSUME TracingAssumption, PyInv, [Py!Next]_(Py!vars) PROVE PyInv'
<1>1. ASSUME NEW k \in Py!Contexts,
             Py!StartThread(k) \/ \E j \in Py!Contexts : Py!StartTask(j, k)
      PROVE  PyInv'
  BY <1>1, PyStartKeeps
<1>2. ASSUME NEW k \in Py!Contexts, NEW c \in Calls, Py!Call(k, c)
      PROVE  PyInv'
  BY <1>2, PyCallKeeps
<1>3. ASSUME NEW k \in Py!Contexts,
             Py!Leave(k) \/ Py!OpenOnly(k) \/ Py!With(k) \/ Py!Exit(k)
      PROVE  PyInv'
  BY <1>3, LeaveKeeps, OpenOnlyKeeps, WithKeeps, ExitKeeps
<1>4. CASE UNCHANGED Py!vars
  <2>1. UNCHANGED <<base, current_trace, current_span, stack, spans, sent>>
    BY <1>4 DEF Py!vars
  <2>2. Grows /\ \A k \in Py!Contexts : Py!Now(k)' = Py!Now(k)
    BY <2>1, LenProperties DEF PyInv, PyTyped, Grows, Py!Now
  <2>3. PyTyped'
    BY <2>1 DEF PyInv, PyTyped, PyValues, PySpans, PyFrames, Py!Refs, Py!Contexts
  <2>4. \A k \in Py!Contexts : ContextNests(k)'
    BY <2>1, <2>2, <2>3, SameContext DEF PyInv, PyTyped
  <2>5. CallsAreOpen' /\ SentOnce' /\ SpansByCall'
    BY <2>1, SameCalls DEF PyInv, SentOnce, SpansByCall
  <2>6. QED
    BY <2>3, <2>4, <2>5 DEF PyInv
<1>5. QED
  BY <1>1, <1>2, <1>3, <1>4 DEF Py!Next

-----------------------------------------------------------------------------
(* What the invariant says in the words of the model.                      *)

LEMMA PyImplies == ASSUME PyInv PROVE Py!TypeOK /\ Py!SpansStayHome /\ Py!ParentIsInnermost
<1>1. Py!TypeOK
  BY DEF PyInv, PyTyped, SentOnce, PyValues, PySpans, PyFrames, Py!TypeOK
<1>2. Py!SpansStayHome
  BY RunningIsCurrent DEF PyInv, SpansByCall, Py!SpansStayHome
<1>3. ASSUME NEW k \in Py!Contexts, base[k] # None
      PROVE  current_span[k] = IF stack[k] = <<>> THEN base[k].span ELSE Py!Last(stack[k]).span
  <2>1. Py!Now(k).span = current_span[k] /\ Py!Now(k) = After(k, Len(stack[k]))
    BY <1>3 DEF PyInv, ContextNests, Py!Now, Py!Values
  <2>2. CASE stack[k] = <<>>
    BY <2>1, <2>2 DEF After
  <2>3. CASE stack[k] # <<>>
    <3>1. Len(stack[k]) # 0 /\ Py!Last(stack[k]) = stack[k][Len(stack[k])]
      BY <2>3, LastFrame DEF PyInv, PyTyped
    <3>2. QED
      BY <2>1, <2>3, <3>1 DEF After, Py!Values
  <2>4. QED
    BY <2>2, <2>3
<1>4. Py!ParentIsInnermost
  BY <1>3 DEF Py!ParentIsInnermost
<1>5. QED
  BY <1>1, <1>2, <1>4

LEMMA SamePyTree ==
    ASSUME NEW c, NEW ss, NEW tt, DOMAIN ss = DOMAIN tt,
           \A n \in DOMAIN ss : ss[n].parent = tt[n].parent
    PROVE  Py!TreeOf(c, ss) = Py!TreeOf(c, tt)
BY DEF Py!TreeOf

LEMMA PyCallBegins ==
    ASSUME TracingAssumption, PyInv, NEW k \in Py!Contexts, NEW c \in Calls, Py!Call(k, c)
    PROVE  BeginStep(c, Py!Trees, Py!SentTrees, Py!Trees', Py!SentTrees')
<1>1. /\ spans[c] = <<>> /\ spans' = [spans EXCEPT ![c] = <<Py!Span(Py!NoSpan, c)>>]
      /\ sent' = sent
  BY DEF Py!Call
<1>2. Py!Trees[c] = <<>>
  BY <1>1, NoTree DEF Py!Trees, Py!TreeOf
<1>3. /\ spans'[c] = <<Py!Span(Py!NoSpan, c)>>
      /\ \A d \in Calls : d # c => spans'[d] = spans[d]
  BY <1>1 DEF PyInv, PyTyped
<1>4. Py!TreeOf(c, spans'[c]) = <<0>>
  <2>1. Py!TreeOf(c, spans'[c]) = [n \in {1} |-> 0]
    BY <1>3, OneElement, RefType DEF Py!TreeOf, Py!Span
  <2>2. [n \in {1} |-> 0] = <<0>>
    OBVIOUS
  <2>3. QED
    BY <2>1, <2>2
<1>5. Py!Trees' = [Py!Trees EXCEPT ![c] = <<0>>]
  BY <1>3, <1>4 DEF Py!Trees
<1>6. Py!SentTrees' = Py!SentTrees
  BY <1>1 DEF Py!SentTrees
<1>7. QED
  BY <1>2, <1>5, <1>6 DEF BeginStep

LEMMA PyLeaveSends ==
    ASSUME TracingAssumption, PyInv, NEW k \in Py!Contexts, Py!Leave(k)
    PROVE  \E c \in Calls : SendStep(c, Py!Trees, Py!SentTrees, Py!Trees', Py!SentTrees')
<1>1. PICK c \in Calls :
        /\ spans[c] # <<>> /\ sent[c] = <<>>
        /\ spans' = [spans EXCEPT ![c][1].ended = TRUE] \/ spans' = spans
        /\ sent' = [sent EXCEPT ![c] = <<spans'[c]>>]
  BY LeaveEffect
<1>2. \A d \in Calls : Py!TreeOf(d, spans'[d]) = Py!TreeOf(d, spans[d])
  <2>1. CASE spans' = spans
    BY <2>1
  <2>2. CASE spans' = [spans EXCEPT ![c][1].ended = TRUE]
    <3>1. /\ DOMAIN spans'[c] = DOMAIN spans[c]
          /\ \A n \in DOMAIN spans[c] : spans'[c][n].parent = spans[c][n].parent
          /\ \A d \in Calls : d # c => spans'[d] = spans[d]
      BY <2>2, SpanMarked DEF PyInv
    <3>2. QED
      BY <3>1, SamePyTree
  <2>3. QED
    BY <2>1, <2>2, <1>1
<1>3. Py!Trees' = Py!Trees
  BY <1>2 DEF Py!Trees
<1>4. sent'[c] = <<spans'[c]>> /\ \A d \in Calls : d # c => sent'[d] = sent[d]
  BY <1>1 DEF PyInv, PyTyped
<1>5. Py!SentTrees'[c] = <<Py!Trees[c]>>
  <2>1. Py!SentTrees'[c] = [i \in {1} |-> Py!TreeOf(c, spans'[c])]
    BY <1>4, OneElement DEF Py!SentTrees
  <2>2. [i \in {1} |-> Py!TreeOf(c, spans'[c])] = <<Py!TreeOf(c, spans'[c])>>
    OBVIOUS
  <2>3. QED
    BY <2>1, <2>2, <1>2 DEF Py!Trees
<1>6. Py!SentTrees' = [Py!SentTrees EXCEPT ![c] = <<Py!Trees[c]>>]
  BY <1>4, <1>5 DEF Py!SentTrees
<1>7. Py!Trees[c] # <<>> /\ Py!SentTrees[c] = <<>>
  <2>1. DOMAIN Py!Trees[c] = DOMAIN spans[c]
    BY DEF Py!Trees, Py!TreeOf
  <2>2. DOMAIN spans[c] # {}
    <3>1. DOMAIN spans[c] = 1 .. Len(spans[c]) /\ Len(spans[c]) \in Nat /\ Len(spans[c]) # 0
      BY <1>1, EmptySeq, LenProperties DEF PyInv, PyTyped
    <3>2. 1 \in DOMAIN spans[c]
      BY <3>1
    <3>3. QED
      BY <3>2
  <2>3. Py!SentTrees[c] = <<>>
    BY <1>1, NoTree DEF Py!SentTrees
  <2>4. QED
    BY <2>1, <2>2, <2>3
<1>8. QED
  BY <1>3, <1>6, <1>7 DEF SendStep

LEMMA PyOpenGrows ==
    ASSUME TracingAssumption, PyInv, NEW k \in Py!Contexts, Py!MayOpen(k),
           spans' = Py!Recorded(k), sent' = sent
    PROVE  TreeStep(Py!Trees, Py!SentTrees, Py!Trees', Py!SentTrees')
<1>1. Py!SentTrees' = Py!SentTrees
  BY DEF Py!SentTrees
<1>2. CASE current_trace[k] = None
  <2>1. Py!Trees' = Py!Trees
    BY <1>2 DEF Py!Recorded, Py!Trees
  <2>2. QED
    BY <1>1, <2>1 DEF TreeStep
<1>3. ASSUME NEW c \in Calls, c = current_trace[k], c # None
      PROVE  TreeStep(Py!Trees, Py!SentTrees, Py!Trees', Py!SentTrees')
  <2>1. base[k] # None
    BY DEF Py!MayOpen
  <2>2. Py!Running(k) = c
    BY <1>3, <2>1, RunningIsCurrent DEF PyInv
  <2>3. PICK p \in Nat : p = current_span[k].n /\ p \in 1 .. Len(spans[c])
                         /\ current_span[k].trace = c /\ current_span[k] \in Py!Refs
    <3>1. PICK n \in Nat : n = Len(stack[k]) /\ n \in 0 .. n
      BY LenProperties DEF PyInv, PyTyped
    <3>2. Py!Now(k) = After(k, n) /\ InTrace(After(k, n))
      BY <2>1, <3>1 DEF PyInv, ContextNests
    <3>3. Py!Now(k).trace = c /\ Py!Now(k).span = current_span[k]
      BY <1>3 DEF Py!Now, Py!Values
    <3>4. current_span[k].trace = c /\ current_span[k].n \in 1 .. Len(spans[c])
      BY <3>2, <3>3, <1>3 DEF InTrace
    <3>5. current_span[k] \in Py!Refs
      BY DEF PyInv, PyTyped
    <3>6. QED
      BY <3>4, <3>5, LenProperties DEF PyInv, PyTyped
  <2>4. PICK f \in PySpans : f.parent = current_span[k] /\ f.by = c /\ f = Py!Span(current_span[k], c)
    <3>1. /\ Py!Span(current_span[k], c) \in PySpans
          /\ Py!Span(current_span[k], c).parent = current_span[k]
          /\ Py!Span(current_span[k], c).by = c
      BY <2>3 DEF Py!Span, PySpans
    <3>2. QED
      BY <3>1
  <2>5. spans' = [spans EXCEPT ![c] = Append(@, f)]
    BY <1>3, <2>2, <2>4 DEF Py!Recorded
  <2>6. /\ spans'[c] = Append(spans[c], f)
        /\ \A d \in Calls : d # c => spans'[d] = spans[d]
    BY <2>4, <2>5, SpanAdded DEF PyInv
  <2>7. PICK n \in Nat :
          /\ n = Len(spans[c]) /\ DOMAIN spans[c] = 1 .. n /\ spans[c] \in Seq(PySpans)
          /\ \A i \in 1 .. n : spans[c][i] \in PySpans
    BY LenProperties, ElementOfSeq DEF PyInv, PyTyped
  <2>8. /\ DOMAIN spans'[c] = 1 .. n + 1 /\ \A i \in 1 .. n : spans'[c][i] = spans[c][i]
        /\ spans'[c][n + 1] = f
    BY <2>6, <2>7
  <2> DEFINE t == Py!TreeOf(c, spans[c])
             u == Py!TreeOf(c, spans'[c])
  <2>9. /\ t \in [1 .. n -> Nat] /\ u \in [1 .. n + 1 -> Nat]
        /\ \A i \in 1 .. n : u[i] = t[i]
        /\ u[n + 1] = p
    <3>1. \A i \in 1 .. n : spans[c][i].parent.n \in Nat
      BY <2>7 DEF PySpans, Py!Refs, TracingAssumption
    <3>2. MaxSpans + 1 \in Nat
      BY DEF TracingAssumption
    <3>3. t \in [1 .. n -> Nat]
      BY <3>1, <3>2, <2>7 DEF Py!TreeOf
    <3>4. \A i \in 1 .. n : spans'[c][i].parent = spans[c][i].parent /\ i \in 1 .. n + 1
      BY <2>7, <2>8
    <3>5. \A i \in 1 .. n : u[i] = t[i]
      BY <3>4, <2>7, <2>8 DEF Py!TreeOf
    <3>6. n + 1 \in 1 .. n + 1 /\ spans'[c][n + 1].parent.trace = c
          /\ spans'[c][n + 1].parent.n = p
      BY <2>3, <2>4, <2>7, <2>8
    <3>7. u[n + 1] = p
      BY <3>6, <2>8 DEF Py!TreeOf
    <3>8. \A i \in 1 .. n + 1 : spans'[c][i].parent.n \in Nat
      <4>1. \A i \in 1 .. n + 1 : i \in 1 .. n \/ i = n + 1
        OBVIOUS
      <4>2. \A i \in 1 .. n : spans'[c][i].parent.n \in Nat
        BY <3>1, <3>4
      <4>3. QED
        BY <2>3, <3>6, <4>1, <4>2
    <3>9. u \in [1 .. n + 1 -> Nat]
      BY <3>2, <3>8, <2>8 DEF Py!TreeOf
    <3>10. QED
      BY <3>3, <3>5, <3>7, <3>9
  <2>10. u = Append(t, p)
    BY <2>9, GrownTree
  <2>11. Py!Trees' = [Py!Trees EXCEPT ![c] = Append(@, p)]
    BY <2>6, <2>10 DEF Py!Trees
  <2>12. p \in DOMAIN Py!Trees[c]
    BY <2>3, <2>7 DEF Py!Trees, Py!TreeOf
  <2>13. QED
    BY <1>1, <2>11, <2>12 DEF TreeStep, GrowStep
<1>4. current_trace[k] \in Calls \union {None}
  BY DEF PyInv, PyTyped
<1>5. QED
  BY <1>2, <1>3, <1>4

LEMMA PyTreeStep ==
    ASSUME TracingAssumption, PyInv, [Py!Next]_(Py!vars)
    PROVE  TreeStep(Py!Trees, Py!SentTrees, Py!Trees', Py!SentTrees')
<1>1. ASSUME NEW k \in Py!Contexts, NEW c \in Calls, Py!Call(k, c)
      PROVE  TreeStep(Py!Trees, Py!SentTrees, Py!Trees', Py!SentTrees')
  BY <1>1, PyCallBegins DEF TreeStep
<1>2. ASSUME NEW k \in Py!Contexts, Py!Leave(k)
      PROVE  TreeStep(Py!Trees, Py!SentTrees, Py!Trees', Py!SentTrees')
  BY <1>2, PyLeaveSends DEF TreeStep
<1>3. ASSUME NEW k \in Py!Contexts, Py!OpenOnly(k) \/ Py!With(k)
      PROVE  TreeStep(Py!Trees, Py!SentTrees, Py!Trees', Py!SentTrees')
  BY <1>3, PyOpenGrows DEF Py!OpenOnly, Py!With
<1>4. ASSUME NEW k \in Py!Contexts, Py!Exit(k)
      PROVE  TreeStep(Py!Trees, Py!SentTrees, Py!Trees', Py!SentTrees')
  <2>1. Py!Last(stack[k]) \in PyFrames
    BY <1>4, LastFrame DEF PyInv, PyTyped, Py!Exit
  <2>2. PICK c \in Calls \union {None} : c = Py!Last(stack[k]).span.trace
    BY <2>1 DEF PyFrames, Py!Refs
  <2>3. \A d \in Calls : Py!TreeOf(d, spans'[d]) = Py!TreeOf(d, spans[d])
    <3>1. CASE c = None
      BY <1>4, <2>2, <3>1 DEF Py!Exit
    <3>2. CASE c \in Calls /\ c # None
      <4>1. PICK n : spans' = [spans EXCEPT ![c][n].ended = TRUE]
        BY <1>4, <2>2, <3>2 DEF Py!Exit
      <4>2. /\ DOMAIN spans'[c] = DOMAIN spans[c]
            /\ \A i \in DOMAIN spans[c] : spans'[c][i].parent = spans[c][i].parent
            /\ \A d \in Calls : d # c => spans'[d] = spans[d]
        BY <3>2, <4>1, SpanMarked DEF PyInv
      <4>3. QED
        BY <4>2, SamePyTree
    <3>3. QED
      BY <3>1, <3>2, <2>2
  <2>4. Py!Trees' = Py!Trees /\ Py!SentTrees' = Py!SentTrees
    BY <1>4, <2>3 DEF Py!Trees, Py!SentTrees, Py!Exit
  <2>5. QED
    BY <2>4 DEF TreeStep
<1>5. ASSUME UNCHANGED <<spans, sent>>
      PROVE  TreeStep(Py!Trees, Py!SentTrees, Py!Trees', Py!SentTrees')
  BY <1>5 DEF TreeStep, Py!Trees, Py!SentTrees
<1>6. QED
  BY <1>1, <1>2, <1>3, <1>4, <1>5
     DEF Py!Next, Py!vars, Py!StartThread, Py!StartTask, Py!Start

-----------------------------------------------------------------------------
(* The theorems about Tracing.                                            *)

(* The invariant of the SDK in use.                                        *)
IInv ==
    /\ sdk \in {"ts", "py"}
    /\ IF sdk = "ts" THEN TsInv ELSE PyInv

LEMMA InitInv == Init => IInv
<1> USE TracingAssumption
<1>1. ASSUME sdk = "ts", Ts!Init PROVE IInv
  BY <1>1, TsInitInv DEF IInv
<1>2. ASSUME sdk = "py", Py!Init PROVE IInv
  BY <1>2, PyInitInv DEF IInv
<1>3. QED
  BY <1>1, <1>2 DEF Init

(* A step is one of the SDK in use.                                        *)
LEMMA StepCases ==
    ASSUME IInv, [Next]_tracingVars
    PROVE  /\ sdk' = sdk
           /\ \/ sdk = "ts" /\ TsInv /\ [Ts!Next]_(Ts!vars)
              \/ sdk = "py" /\ PyInv /\ [Py!Next]_(Py!vars)
<1>1. CASE Next
  BY <1>1 DEF IInv, Next
<1>2. CASE UNCHANGED tracingVars
  <2>1. UNCHANGED <<sdk, stack, spans, sent, tsOnly, pyOnly>>
    BY <1>2 DEF tracingVars
  <2>2. UNCHANGED Ts!vars
    BY <2>1 DEF tsOnly, Ts!vars
  <2>3. UNCHANGED Py!vars
    BY <2>1 DEF pyOnly, Py!vars
  <2>4. QED
    BY <2>1, <2>2, <2>3 DEF IInv
<1>3. QED
  BY <1>1, <1>2

LEMMA StepInv == IInv /\ [Next]_tracingVars => IInv'
<1> SUFFICES ASSUME IInv, [Next]_tracingVars PROVE IInv'
  OBVIOUS
<1> USE TracingAssumption
<1>1. CASE sdk = "ts" /\ TsInv /\ [Ts!Next]_(Ts!vars)
  <2>1. TsInv'
    BY <1>1, TsStepInv
  <2>2. QED
    BY <1>1, <2>1, StepCases DEF IInv
<1>2. CASE sdk = "py" /\ PyInv /\ [Py!Next]_(Py!vars)
  <2>1. PyInv'
    BY <1>2, PyStepInv
  <2>2. QED
    BY <1>2, <2>1, StepCases DEF IInv
<1>3. QED
  BY <1>1, <1>2, StepCases

LEMMA InvHolds == Spec => []IInv
BY InitInv, StepInv, PTL DEF Spec

LEMMA InvImplies == IInv => TypeOK /\ SpansStayHome /\ ParentIsInnermost
<1> SUFFICES ASSUME IInv PROVE TypeOK /\ SpansStayHome /\ ParentIsInnermost
  OBVIOUS
<1>1. CASE sdk = "ts"
  BY <1>1, TsImplies DEF IInv, TypeOK, SpansStayHome, ParentIsInnermost
<1>2. CASE sdk = "py"
  BY <1>2, PyImplies DEF IInv, TypeOK, SpansStayHome, ParentIsInnermost
<1>3. QED
  BY <1>1, <1>2 DEF IInv

-----------------------------------------------------------------------------
(* The variables keep their types, the context stack of a TypeScript call  *)
(* names spans of its own trace, and no trace is posted twice, by the      *)
(* finalize of trace() or by the finally of the Python wrapper.            *)
THEOREM TypeCorrect == Spec => []TypeOK
BY InvHolds, InvImplies, PTL

(* span() records a span in the trace of the call whose code runs, or, in  *)
(* TypeScript with the global slot and after an await, nowhere: never in   *)
(* the trace of another call, thread or task.                              *)
THEOREM SpansAreHome == Spec => []SpansStayHome
BY InvHolds, InvImplies, PTL

(* span() takes the innermost open span as the parent, while TypeScript    *)
(* spans end in order; and however they end, no open one is dropped.       *)
THEOREM ParentsAreInnermost == Spec => []ParentIsInnermost
BY InvHolds, InvImplies, PTL

LEMMA TsTreesStartEmpty ==
    ASSUME Ts!Init
    PROVE  /\ Ts!Trees = [c \in Calls |-> <<>>]
           /\ Ts!SentTrees = [c \in Calls |-> <<>>]
<1>1. ASSUME NEW c \in Calls PROVE Ts!Trees[c] = <<>> /\ Ts!SentTrees[c] = <<>>
  <2>1. spans[c] = <<>> /\ sent[c] = <<>>
    BY DEF Ts!Init
  <2>2. Ts!Trees[c] = <<>>
    BY <2>1, NoTree DEF Ts!Trees, Ts!TreeOf
  <2>3. Ts!SentTrees[c] = <<>>
    BY <2>1, NoTree DEF Ts!SentTrees
  <2>4. QED
    BY <2>2, <2>3
<1>2. QED
  BY <1>1 DEF Ts!Trees, Ts!SentTrees

LEMMA PyTreesStartEmpty ==
    ASSUME Py!Init
    PROVE  /\ Py!Trees = [c \in Calls |-> <<>>]
           /\ Py!SentTrees = [c \in Calls |-> <<>>]
<1>1. ASSUME NEW c \in Calls PROVE Py!Trees[c] = <<>> /\ Py!SentTrees[c] = <<>>
  <2>1. spans[c] = <<>> /\ sent[c] = <<>>
    BY DEF Py!Init
  <2>2. Py!Trees[c] = <<>>
    BY <2>1, NoTree DEF Py!Trees, Py!TreeOf
  <2>3. Py!SentTrees[c] = <<>>
    BY <2>1, NoTree DEF Py!SentTrees
  <2>4. QED
    BY <2>2, <2>3
<1>2. QED
  BY <1>1 DEF Py!Trees, Py!SentTrees

(* Both SDKs build and send the trees of SpanTree: the root first, each    *)
(* parent in the same trace and before its children, one payload a trace.  *)
THEOREM SdksImplementSpanTree == Spec => ImplementsSpanTree
<1> USE TracingAssumption
<1> DEFINE tree == IF sdk = "ts" THEN Ts!Trees ELSE Py!Trees
           posted == IF sdk = "ts" THEN Ts!SentTrees ELSE Py!SentTrees
<1>1. Init => Tree!Init
  <2>1. ASSUME sdk = "ts", Ts!Init PROVE Tree!Init
    BY <2>1, TsTreesStartEmpty DEF Tree!Init
  <2>2. ASSUME sdk = "py", Py!Init PROVE Tree!Init
    BY <2>2, PyTreesStartEmpty DEF Tree!Init
  <2>3. QED
    BY <2>1, <2>2 DEF Init
<1>2. ASSUME IInv, [Next]_tracingVars
      PROVE  [Tree!Next]_(Tree!treeVars)
  <2>1. TreeStep(tree, posted, tree', posted')
    <3>1. CASE sdk = "ts" /\ TsInv /\ [Ts!Next]_(Ts!vars)
      BY <1>2, <3>1, TsTreeStep, StepCases
    <3>2. CASE sdk = "py" /\ PyInv /\ [Py!Next]_(Py!vars)
      BY <1>2, <3>2, PyTreeStep, StepCases
    <3>3. QED
      BY <1>2, <3>1, <3>2, StepCases
  <2>2. ASSUME NEW c \in Calls, BeginStep(c, tree, posted, tree', posted')
        PROVE  Tree!Begin(c)
    BY <2>2 DEF BeginStep, Tree!Begin
  <2>3. ASSUME NEW c \in Calls, GrowStep(c, tree, posted, tree', posted')
        PROVE  Tree!Grow(c)
    BY <2>3 DEF GrowStep, Tree!Grow
  <2>4. ASSUME NEW c \in Calls, SendStep(c, tree, posted, tree', posted')
        PROVE  Tree!Send(c)
    BY <2>4 DEF SendStep, Tree!Send
  <2>5. QED
    BY <2>1, <2>2, <2>3, <2>4 DEF TreeStep, Tree!Next, Tree!treeVars
<1>3. QED
  BY <1>1, <1>2, InvHolds, PTL DEF Spec, ImplementsSpanTree, Tree!Spec

=============================================================================
