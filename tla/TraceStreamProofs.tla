------------------------- MODULE TraceStreamProofs -------------------------
(***************************************************************************)
(* Theorems about the trace pipeline, for any requests, traces, workers,   *)
(* batch size, stream bound, number of posts and number of faults.         *)
(***************************************************************************)
EXTENDS TraceStream, SequenceTheorems, FiniteSetTheorems, TLAPS

-----------------------------------------------------------------------------
(* Sequences of distinct entries as sets                                   *)

LEMMA MaxOfTwo == ASSUME NEW a \in Int, NEW b \in Int PROVE Max({a, b}) \in {a, b}
<1>1. \E x \in {a, b} : \A y \in {a, b} : x >= y
  OBVIOUS
<1>2. QED
  BY <1>1 DEF Max

LEMMA MinOfTwo ==
    ASSUME NEW a \in Int, NEW b \in Int
    PROVE  Min({a, b}) \in {a, b} /\ Min({a, b}) <= a /\ Min({a, b}) <= b
<1>1. \E x \in {a, b} : \A y \in {a, b} : x =< y
  OBVIOUS
<1>2. Min({a, b}) \in {a, b} /\ \A y \in {a, b} : Min({a, b}) =< y
  BY <1>1 DEF Min
<1>3. QED
  BY <1>2

LEMMA EmptySet == <<>> \in Seq(Nat) /\ ToSet(<<>>) = {} /\ IsInjective(<<>>)
BY DEF ToSet, IsInjective

LEMMA AppendSet ==
    ASSUME NEW s \in Seq(Nat), NEW n \in Nat
    PROVE  /\ Append(s, n) \in Seq(Nat)
           /\ ToSet(Append(s, n)) = ToSet(s) \union {n}
           /\ IsInjective(s) /\ n \notin ToSet(s) => IsInjective(Append(s, n))
<1> DEFINE t == Append(s, n)
<1>1. /\ t \in Seq(Nat) /\ Len(t) = Len(s) + 1 /\ Len(s) \in Nat
      /\ DOMAIN s = 1 .. Len(s) /\ DOMAIN t = 1 .. Len(t)
      /\ \A i \in 1 .. Len(s) : t[i] = s[i]
      /\ t[Len(s) + 1] = n
  BY AppendProperties, LenProperties
<1> HIDE DEF t
<1>2. ToSet(t) = ToSet(s) \union {n}
  BY <1>1 DEF ToSet
<1>3. IsInjective(s) /\ n \notin ToSet(s) => IsInjective(t)
  BY <1>1, SMTT(60) DEF ToSet, IsInjective
<1>4. QED
  BY <1>1, <1>2, <1>3 DEF t

(* Cutting a sequence in two.                                              *)
LEMMA SplitSet ==
    ASSUME NEW s \in Seq(Nat), NEW k \in 0 .. Len(s)
    PROVE  LET a == SubSeq(s, 1, k)
               b == SubSeq(s, k + 1, Len(s))
           IN  /\ a \in Seq(Nat) /\ b \in Seq(Nat) /\ Len(a) = k
               /\ ToSet(a) = {s[j] : j \in 1 .. k}
               /\ ToSet(s) = ToSet(a) \union ToSet(b)
               /\ IsInjective(s) => /\ IsInjective(a) /\ IsInjective(b)
                                    /\ ToSet(a) \intersect ToSet(b) = {}
<1> DEFINE a == SubSeq(s, 1, k)
           b == SubSeq(s, k + 1, Len(s))
<1>1. /\ Len(s) \in Nat /\ DOMAIN s = 1 .. Len(s)
      /\ \A i \in 1 .. Len(s) : s[i] \in Nat
  BY LenProperties
<1>2. /\ a \in Seq(Nat) /\ Len(a) = k /\ DOMAIN a = 1 .. k
      /\ \A i \in 1 .. k : a[i] = s[i]
  <2>1. \A i \in 1 .. k : s[i] \in Nat
    BY <1>1
  <2>2. /\ a \in Seq(Nat)
        /\ Len(a) = IF 1 <= k THEN k - 1 + 1 ELSE 0
        /\ \A i \in 1 .. k - 1 + 1 : a[i] = s[1 + i - 1]
    BY <2>1, <1>1, SubSeqProperties, 1 \in Int, k \in Int
  <2>3. DOMAIN a = 1 .. Len(a)
    BY <2>2, LenProperties
  <2>4. Len(a) = k
    BY <1>1, <2>2
  <2>5. \A i \in 1 .. k : a[i] = s[i]
    BY <1>1, <2>2
  <2>6. QED
    BY <2>2, <2>3, <2>4, <2>5
<1>3. /\ b \in Seq(Nat) /\ Len(b) = Len(s) - k /\ DOMAIN b = 1 .. Len(s) - k
      /\ \A i \in 1 .. Len(s) - k : b[i] = s[k + i]
  <2>1. \A i \in k + 1 .. Len(s) : s[i] \in Nat
    BY <1>1
  <2>2. /\ b \in Seq(Nat)
        /\ Len(b) = IF k + 1 <= Len(s) THEN Len(s) - (k + 1) + 1 ELSE 0
        /\ \A i \in 1 .. Len(s) - (k + 1) + 1 : b[i] = s[(k + 1) + i - 1]
    BY <2>1, <1>1, SubSeqProperties, k + 1 \in Int, Len(s) \in Int
  <2>3. DOMAIN b = 1 .. Len(b)
    BY <2>2, LenProperties
  <2>4. Len(b) = Len(s) - k
    <3>1. Len(s) \in Int /\ k \in Int /\ k <= Len(s)
      BY LenProperties
    <3>2. CASE k + 1 <= Len(s)
      BY <2>2, <3>1, <3>2
    <3>3. CASE ~ k + 1 <= Len(s)
      BY <2>2, <3>1, <3>3
    <3>4. QED
      BY <3>2, <3>3
  <2>5. \A i \in 1 .. Len(s) - k : b[i] = s[k + i]
    BY <1>1, <2>2
  <2>6. QED
    BY <2>2, <2>3, <2>4, <2>5
<1> HIDE DEF a, b
<1>4. ToSet(a) = {s[j] : j \in 1 .. k}
  BY <1>2 DEF ToSet
<1>5. ToSet(s) = ToSet(a) \union ToSet(b)
  <2>1. ASSUME NEW i \in 1 .. Len(s) PROVE s[i] \in ToSet(a) \union ToSet(b)
    <3>1. CASE i <= k
      BY <3>1, <1>1, <1>2 DEF ToSet
    <3>2. CASE i > k
      <4>1. i - k \in 1 .. Len(s) - k /\ s[i] = b[i - k]
        BY <3>2, <1>1, <1>3
      <4>2. QED
        BY <4>1, <1>3 DEF ToSet
    <3>3. QED
      BY <3>1, <3>2, <1>1
  <2>2. ToSet(a) \subseteq ToSet(s)
    BY <1>1, <1>2 DEF ToSet
  <2>3. ASSUME NEW i \in 1 .. Len(s) - k PROVE b[i] \in ToSet(s)
    <3>1. k + i \in 1 .. Len(s)
      BY <1>1
    <3>2. QED
      BY <3>1, <1>1, <1>3 DEF ToSet
  <2>4. ToSet(b) \subseteq ToSet(s)
    BY <1>3, <2>3 DEF ToSet
  <2>5. ToSet(s) \subseteq ToSet(a) \union ToSet(b)
    BY <1>1, <2>1 DEF ToSet
  <2>6. QED
    BY <2>2, <2>4, <2>5
<1>6. ASSUME IsInjective(s)
      PROVE  IsInjective(a) /\ IsInjective(b) /\ ToSet(a) \intersect ToSet(b) = {}
  <2>1. IsInjective(a)
    BY <1>1, <1>2, <1>6 DEF IsInjective
  <2>2. \A i \in 1 .. Len(s) - k : k + i \in 1 .. Len(s)
    BY <1>1
  <2>3. IsInjective(b)
    <3>1. SUFFICES ASSUME NEW i \in 1 .. Len(s) - k, NEW j \in 1 .. Len(s) - k, b[i] = b[j]
                   PROVE  i = j
      BY <1>3 DEF IsInjective
    <3>2. k + i = k + j
      BY <1>1, <1>3, <1>6, <2>2, <3>1 DEF IsInjective
    <3>3. QED
      BY <1>1, <3>2
  <2>4. ASSUME NEW i \in 1 .. k, NEW j \in 1 .. Len(s) - k PROVE a[i] # b[j]
    <3>1. i \in 1 .. Len(s) /\ i # k + j
      BY <1>1
    <3>2. QED
      BY <1>1, <1>2, <1>3, <1>6, <2>2, <3>1, ZenonT(60) DEF IsInjective
  <2>5. QED
    BY <1>2, <1>3, <2>1, <2>3, <2>4 DEF ToSet
<1>7. QED
  BY <1>2, <1>3, <1>4, <1>5, <1>6 DEF a, b

LEMMA TailSet ==
    ASSUME NEW s \in Seq(Nat), s # <<>>
    PROVE  /\ Tail(s) \in Seq(Nat)
           /\ Head(s) \in Nat
           /\ ToSet(s) = {Head(s)} \union ToSet(Tail(s))
           /\ Len(s) = 1 <=> Tail(s) = <<>>
           /\ IsInjective(s) => IsInjective(Tail(s)) /\ Head(s) \notin ToSet(Tail(s))
<1>1. /\ Tail(s) \in Seq(Nat) /\ Len(Tail(s)) = Len(s) - 1 /\ Len(s) \in Nat \ {0}
      /\ DOMAIN s = 1 .. Len(s) /\ DOMAIN Tail(s) = 1 .. Len(Tail(s))
      /\ \A i \in 1 .. Len(Tail(s)) : Tail(s)[i] = s[i + 1]
      /\ Head(s) = s[1] /\ Head(s) \in Nat
  BY HeadTailProperties, LenProperties, EmptySeq
<1>2. ToSet(s) = {Head(s)} \union ToSet(Tail(s))
  <2>1. ASSUME NEW i \in 1 .. Len(s) PROVE s[i] \in {Head(s)} \union ToSet(Tail(s))
    <3>1. CASE i = 1
      BY <3>1, <1>1
    <3>2. CASE i # 1
      <4>1. i - 1 \in 1 .. Len(Tail(s)) /\ Tail(s)[i - 1] = s[i]
        BY <3>2, <1>1
      <4>2. QED
        BY <4>1, <1>1 DEF ToSet
    <3>3. QED
      BY <3>1, <3>2
  <2>2. {Head(s)} \union ToSet(Tail(s)) \subseteq ToSet(s)
    BY <1>1 DEF ToSet
  <2>3. QED
    BY <1>1, <2>1, <2>2, ZenonT(60) DEF ToSet
<1>3. Len(s) = 1 <=> Tail(s) = <<>>
  <2>1. Tail(s) = <<>> => Len(Tail(s)) = 0
    BY EmptySeq
  <2>2. Tail(s) # <<>> => Len(Tail(s)) \in Nat \ {0}
    BY <1>1, EmptySeq
  <2>3. QED
    BY <1>1, <2>1, <2>2, SMTT(60)
<1>4. ASSUME IsInjective(s)
      PROVE  IsInjective(Tail(s)) /\ Head(s) \notin ToSet(Tail(s))
  <2>1. \A i \in 1 .. Len(Tail(s)) : i + 1 \in 1 .. Len(s) /\ i + 1 # 1
    BY <1>1
  <2>2. 1 \in 1 .. Len(s)
    BY <1>1
  <2>3. ASSUME NEW i \in 1 .. Len(Tail(s)) PROVE Head(s) # Tail(s)[i]
    BY <1>1, <1>4, <2>1, <2>2 DEF IsInjective
  <2>4. IsInjective(Tail(s))
    <3>1. SUFFICES ASSUME NEW i \in 1 .. Len(Tail(s)), NEW j \in 1 .. Len(Tail(s)),
                          Tail(s)[i] = Tail(s)[j]
                   PROVE  i = j
      BY <1>1 DEF IsInjective
    <3>2. i + 1 = j + 1
      BY <1>1, <1>4, <2>1, <3>1 DEF IsInjective
    <3>3. QED
      BY <1>1, <3>2
  <2>5. QED
    BY <1>1, <2>3, <2>4 DEF ToSet
<1>5. QED
  BY <1>1, <1>2, <1>3, <1>4

-----------------------------------------------------------------------------
(* The inductive invariant                                                 *)

AllTraces  == UNION {Traces[q] : q \in Requests}
LogEntries == UNION {{q} \X Traces[q] : q \in Requests}

PostStates   == {"idle", "publishing"} \union Answers
WorkerStates == {"down", "starting", "polling", "writing", "acking"}

RequestType ==
    /\ post \in [Requests -> PostStates]
    /\ posts \in [Requests -> 0 .. MaxPosts]
    /\ todo \in [Requests -> SUBSET AllTraces]
    /\ \A q \in Requests : /\ todo[q] \subseteq Traces[q]
                           /\ todo[q] # {} <=> post[q] = "publishing"

StreamType ==
    /\ log \in Seq(LogEntries) /\ unread \in Seq(Nat) /\ stored \in Seq(Nat)
    /\ ToSet(unread) \union evicted \union pel \union ToSet(stored) \subseteq DOMAIN log

LoopType ==
    /\ worker \in [Workers -> WorkerStates]
    /\ batch \in [Workers -> Seq(Nat)]
    /\ \A w \in Workers : /\ batch[w] # <<>> <=> worker[w] \in {"writing", "acking"}
                          /\ ToSet(batch[w]) \subseteq DOMAIN log

FlagType == group \in BOOLEAN /\ running \in [Workers -> BOOLEAN] /\ faults \in Nat

TypeInv == RequestType /\ StreamType /\ LoopType /\ FlagType

(* What a request has published is in the log, also after it was posted    *)
(* again: the log only grows.                                              *)
PublishedInLog ==
    \A q \in Requests : post[q] \in {"publishing", "202"} =>
        \A t \in Traces[q] \ todo[q] : \E n \in DOMAIN log : log[n] = <<q, t>>

Done(n) == Stored(n) \/ KindOf(n) = "empty"

(* An entry is written before the worker turns to its acknowledgement.     *)
AckingIsDone == \A w \in Workers : worker[w] = "acking" => Done(Head(batch[w]))

(* The entries of its batch that w has not tried to write.                 *)
Left(w) ==
    IF worker[w] = "writing" THEN ToSet(batch[w])
    ELSE IF worker[w] = "acking" THEN ToSet(Tail(batch[w]))
    ELSE {}

(* An entry is in one place: in the stream, in one batch at one position,  *)
(* and stored only when its worker has gone past writing it.               *)
OnePlace ==
    /\ IsInjective(unread) /\ IsInjective(stored)
    /\ ToSet(unread) \intersect ToSet(stored) = {}
    /\ \A w \in Workers : /\ IsInjective(batch[w])
                          /\ ToSet(batch[w]) \intersect ToSet(unread) = {}
                          /\ Left(w) \intersect ToSet(stored) = {}
    /\ \A v, w \in Workers : v # w => ToSet(batch[v]) \intersect ToSet(batch[w]) = {}

IInv == TypeInv /\ PublishedInLog /\ AckedIsStored /\ AckingIsDone /\ OnePlace

-----------------------------------------------------------------------------
(* What the operations do                                                  *)

LEMMA LogType ==
    ASSUME TypeInv
    PROVE  /\ Len(log) \in Nat /\ DOMAIN log = 1 .. Len(log)
           /\ ToSet(unread) \subseteq DOMAIN log /\ ToSet(stored) \subseteq DOMAIN log
           /\ evicted \subseteq DOMAIN log /\ pel \subseteq DOMAIN log
BY LenProperties DEF TypeInv, StreamType

LEMMA FaultType == TypeInv /\ (Fault \/ NoFault) => faults' \in Nat
BY DEF TypeInv, FlagType, Fault, NoFault

(* An XADD makes a new entry; what it trims is moved to evicted.           *)
LEMMA XAddEffect ==
    ASSUME TraceStreamAssumption, TypeInv, NEW q \in Requests, NEW t \in Traces[q], XAdd(q, t)
    PROVE  \E n \in Nat :
             /\ n \notin DOMAIN log
             /\ log' \in Seq(LogEntries)
             /\ DOMAIN log' = DOMAIN log \union {n}
             /\ log'[n] = <<q, t>>
             /\ \A m \in DOMAIN log : log'[m] = log[m]
             /\ unread' \in Seq(Nat)
             /\ ToSet(unread') \union evicted' = ToSet(unread) \union evicted \union {n}
             /\ ToSet(unread') \subseteq ToSet(unread) \union {n}
             /\ IsInjective(unread) => IsInjective(unread')
<1> DEFINE n == Len(log) + 1
           stream == Append(unread, n)
<1>1. /\ Len(log) \in Nat /\ n \in Nat /\ DOMAIN log = 1 .. Len(log)
      /\ n \notin DOMAIN log /\ n \notin ToSet(unread)
  BY LogType
<1>2. <<q, t>> \in LogEntries
  BY DEF LogEntries
<1>3. /\ log' = Append(log, <<q, t>>)
      /\ log' \in Seq(LogEntries) /\ Len(log') = n /\ DOMAIN log' = 1 .. n
      /\ log'[n] = <<q, t>>
      /\ \A m \in DOMAIN log : log'[m] = log[m]
  <2>1. log' = Append(log, <<q, t>>) /\ log \in Seq(LogEntries)
    BY DEF XAdd, TypeInv, StreamType
  <2>2. log' \in Seq(LogEntries) /\ Len(log') = n
    BY <1>2, <2>1, AppendProperties
  <2>3. DOMAIN log' = 1 .. n
    BY <2>2, LenProperties
  <2>4. log'[n] = <<q, t>> /\ \A m \in DOMAIN log : log'[m] = log[m]
    BY <1>1, <1>2, <2>1, AppendProperties
  <2>5. QED
    BY <2>1, <2>2, <2>3, <2>4
<1>4. DOMAIN log' = DOMAIN log \union {n}
  BY <1>1, <1>3
<1>5. /\ stream \in Seq(Nat)
      /\ ToSet(stream) = ToSet(unread) \union {n}
      /\ IsInjective(unread) => IsInjective(stream)
      /\ Len(stream) \in Nat
  BY <1>1, AppendSet, LenProperties DEF TypeInv, StreamType
<1> HIDE DEF n
<1>6. PICK k \in 0 .. Max({0, Len(stream) - MaxLen}) :
          /\ unread' = SubSeq(stream, k + 1, Len(stream))
          /\ evicted' = evicted \union {stream[j] : j \in 1 .. k}
  BY DEF XAdd, n
<1> HIDE DEF stream
<1>7. k \in 0 .. Len(stream)
  <2>1. Max({0, Len(stream) - MaxLen}) \in {0, Len(stream) - MaxLen}
    BY <1>5, MaxOfTwo DEF TraceStreamAssumption
  <2>2. QED
    BY <1>5, <2>1 DEF TraceStreamAssumption
<1>8. /\ unread' \in Seq(Nat)
      /\ ToSet(stream) = {stream[j] : j \in 1 .. k} \union ToSet(unread')
      /\ IsInjective(stream) => IsInjective(unread')
  BY <1>5, <1>6, <1>7, SplitSet
<1>9. QED
  BY <1>1, <1>3, <1>4, <1>5, <1>6, <1>8

(* A read takes a prefix of the stream into the pending list.              *)
LEMMA DeliverEffect ==
    ASSUME TraceStreamAssumption, TypeInv, Deliver
    PROVE  /\ Delivery \in Seq(Nat) /\ Delivery # <<>>
           /\ unread' \in Seq(Nat)
           /\ ToSet(unread) = ToSet(Delivery) \union ToSet(unread')
           /\ pel' = pel \union ToSet(Delivery)
           /\ IsInjective(unread) => /\ IsInjective(Delivery) /\ IsInjective(unread')
                                     /\ ToSet(Delivery) \intersect ToSet(unread') = {}
<1> DEFINE k == Min({BatchSize, Len(unread)})
<1>1. /\ unread \in Seq(Nat) /\ unread # <<>> /\ Len(unread) \in Nat \ {0}
      /\ BatchSize \in Nat \ {0}
  BY EmptySeq DEF TypeInv, StreamType, Deliver, TraceStreamAssumption
<1>2. k \in 1 .. Len(unread)
  <2>1. BatchSize \in Int /\ Len(unread) \in Int
    BY <1>1
  <2>2. k \in {BatchSize, Len(unread)} /\ k <= BatchSize /\ k <= Len(unread)
    BY <2>1, MinOfTwo
  <2>3. QED
    BY <1>1, <2>2
<1> HIDE DEF k
<1>3. Delivery = SubSeq(unread, 1, k)
  BY DEF Delivery, k
<1>4. /\ Delivery \in Seq(Nat) /\ Len(Delivery) = k
      /\ ToSet(unread) = ToSet(Delivery) \union ToSet(SubSeq(unread, k + 1, Len(unread)))
      /\ SubSeq(unread, k + 1, Len(unread)) \in Seq(Nat)
      /\ IsInjective(unread) =>
            /\ IsInjective(Delivery) /\ IsInjective(SubSeq(unread, k + 1, Len(unread)))
            /\ ToSet(Delivery) \intersect ToSet(SubSeq(unread, k + 1, Len(unread))) = {}
  BY <1>1, <1>2, <1>3, SplitSet, k \in 0 .. Len(unread)
<1>5. unread' = SubSeq(unread, k + 1, Len(unread)) /\ pel' = pel \union ToSet(Delivery)
  BY <1>4 DEF Deliver
<1>6. Delivery # <<>>
  BY <1>2, <1>4, EmptySeq
<1>7. QED
  BY <1>4, <1>5, <1>6

HasBatch(w)  == worker[w] \in {"writing", "acking"}

LEMMA BatchHead ==
    ASSUME TypeInv, NEW w \in Workers, HasBatch(w)
    PROVE  /\ batch[w] \in Seq(Nat) /\ batch[w] # <<>>
           /\ Tail(batch[w]) \in Seq(Nat)
           /\ ToSet(batch[w]) = {Head(batch[w])} \union ToSet(Tail(batch[w]))
           /\ Head(batch[w]) \in Nat /\ Head(batch[w]) \in DOMAIN log
           /\ IsInjective(batch[w]) => /\ IsInjective(Tail(batch[w]))
                                       /\ Head(batch[w]) \notin ToSet(Tail(batch[w]))
<1>1. batch[w] \in Seq(Nat) /\ batch[w] # <<>> /\ ToSet(batch[w]) \subseteq DOMAIN log
  BY DEF TypeInv, LoopType, HasBatch
<1>2. QED
  BY <1>1, TailSet

(* An insert of the head of a batch.                                       *)
LEMMA AppendStored ==
    ASSUME TypeInv, NEW w \in Workers, HasBatch(w)
    PROVE  LET after == Append(stored, Head(batch[w]))
           IN  /\ after \in Seq(Nat)
               /\ ToSet(after) = ToSet(stored) \union {Head(batch[w])}
               /\ ToSet(after) \subseteq DOMAIN log
               /\ IsInjective(stored) /\ Head(batch[w]) \notin ToSet(stored) =>
                      IsInjective(after)
<1>1. Head(batch[w]) \in Nat /\ Head(batch[w]) \in DOMAIN log
  BY BatchHead
<1>2. stored \in Seq(Nat) /\ ToSet(stored) \subseteq DOMAIN log
  BY DEF TypeInv, StreamType
<1>3. QED
  BY <1>1, <1>2, AppendSet

(* NextMessage drops the head of the batch of w and leaves the rest of it  *)
(* to write.                                                               *)
LEMMA NextMessageEffect ==
    ASSUME TypeInv, NEW w \in Workers, HasBatch(w), NextMessage(w)
    PROVE  /\ batch' = [batch EXCEPT ![w] = Tail(batch[w])]
           /\ batch' \in [Workers -> Seq(Nat)]
           /\ \A v \in Workers : ToSet(batch'[v]) \subseteq ToSet(batch[v])
           /\ worker' \in [Workers -> WorkerStates]
           /\ worker'[w] # "acking"
           /\ batch'[w] # <<>> <=> worker'[w] = "writing"
           /\ \A v \in Workers \ {w} : worker'[v] = worker[v] /\ batch'[v] = batch[v]
           /\ Left(w)' = ToSet(Tail(batch[w]))
<1>1. /\ batch \in [Workers -> Seq(Nat)]
      /\ worker \in [Workers -> WorkerStates]
  BY DEF TypeInv, LoopType
<1>2. /\ batch' = [batch EXCEPT ![w] = Tail(batch[w])]
      /\ worker' = [worker EXCEPT ![w] =
                       IF Len(batch[w]) = 1 THEN LoopTop(w) ELSE "writing"]
  BY DEF NextMessage, At
<1>3. /\ Tail(batch[w]) \in Seq(Nat)
      /\ ToSet(batch[w]) = {Head(batch[w])} \union ToSet(Tail(batch[w]))
      /\ Len(batch[w]) = 1 <=> Tail(batch[w]) = <<>>
  BY BatchHead, TailSet
<1>4. LoopTop(w) \in {"polling", "down"}
  BY DEF LoopTop
<1>5. /\ batch' \in [Workers -> Seq(Nat)] /\ batch'[w] = Tail(batch[w])
      /\ worker' \in [Workers -> WorkerStates]
      /\ worker'[w] = IF Tail(batch[w]) = <<>> THEN LoopTop(w) ELSE "writing"
      /\ \A v \in Workers \ {w} : worker'[v] = worker[v] /\ batch'[v] = batch[v]
  BY <1>1, <1>2, <1>3, <1>4 DEF WorkerStates
<1>6. \A v \in Workers : ToSet(batch'[v]) \subseteq ToSet(batch[v])
  BY <1>3, <1>5
<1>7. Left(w)' = ToSet(Tail(batch[w]))
  <2>1. CASE Tail(batch[w]) = <<>>
    BY <1>4, <1>5, <2>1, EmptySet DEF Left
  <2>2. CASE Tail(batch[w]) # <<>>
    BY <1>5, <2>2 DEF Left
  <2>3. QED
    BY <2>1, <2>2
<1>8. QED
  BY <1>2, <1>4, <1>5, <1>6, <1>7

-----------------------------------------------------------------------------
(* Type correctness                                                        *)

LEMMA TypeIsTyped == TypeInv => TypeOK
<1> SUFFICES ASSUME TypeInv PROVE TypeOK
  OBVIOUS
<1>1. /\ post \in [Requests -> {"idle", "publishing"} \union Answers]
      /\ posts \in [Requests -> 0 .. MaxPosts]
      /\ \A q \in Requests : todo[q] \subseteq Traces[q] /\ (todo[q] # {} <=> post[q] = "publishing")
  BY DEF TypeInv, RequestType, PostStates
<1>2. ToSet(unread) \union evicted \union pel \union ToSet(stored) \subseteq DOMAIN log
  BY DEF TypeInv, StreamType
<1>3. /\ worker \in [Workers -> {"down", "starting", "polling", "writing", "acking"}]
      /\ \A w \in Workers : batch[w] # <<>> <=> worker[w] \in {"writing", "acking"}
  BY DEF TypeInv, LoopType, WorkerStates
<1>4. group \in BOOLEAN /\ running \in [Workers -> BOOLEAN] /\ faults \in Nat
  BY DEF TypeInv, FlagType
<1>5. QED
  BY <1>1, <1>2, <1>3, <1>4 DEF TypeOK

LEMMA InitType == ASSUME TraceStreamAssumption, Init PROVE TypeInv
<1>1. /\ <<>> \in Seq(LogEntries) /\ <<>> \in Seq(Nat) /\ ToSet(<<>>) = {}
  BY EmptySet, EmptySeq
<1>2. /\ post \in [Requests -> PostStates]
      /\ posts \in [Requests -> 0 .. MaxPosts]
      /\ todo \in [Requests -> SUBSET AllTraces]
      /\ \A q \in Requests : todo[q] \subseteq Traces[q]
                            /\ (todo[q] # {} <=> post[q] = "publishing")
  BY DEF Init, PostStates, TraceStreamAssumption
<1>3. /\ worker \in [Workers -> WorkerStates]
      /\ batch \in [Workers -> Seq(Nat)]
      /\ \A w \in Workers : batch[w] = <<>> /\ worker[w] = "down"
  BY <1>1 DEF Init, WorkerStates
<1>4. group \in BOOLEAN /\ running \in [Workers -> BOOLEAN] /\ faults \in Nat
  BY DEF Init
<1>5. QED
  BY <1>1, <1>2, <1>3, <1>4 DEF Init, TypeInv, RequestType, StreamType, LoopType, FlagType

LEMMA TypeStep == ASSUME TraceStreamAssumption, TypeInv, [Next]_vars PROVE TypeInv'
<1> USE DEF TypeInv, RequestType, StreamType, LoopType, FlagType
<1>1. ASSUME NEW q \in Requests, Post(q) \/ RequestLost(q)
      PROVE  TypeInv'
  <2>1. /\ post' \in [Requests -> PostStates]
        /\ posts' \in [Requests -> 0 .. MaxPosts]
    <3>1. CASE Post(q)
      <4>1. posts[q] + 1 \in 0 .. MaxPosts
        BY <3>1 DEF Post, TraceStreamAssumption
      <4>2. QED
        BY <3>1, <4>1 DEF Post, Reply, PostStates, Answers
    <3>2. CASE RequestLost(q)
      BY <3>2 DEF RequestLost, Reply, PostStates, Answers
    <3>3. QED
      BY <1>1, <3>1, <3>2
  <2>2. Traces[q] \subseteq AllTraces
    BY DEF AllTraces
  <2>3. todo' = [todo EXCEPT ![q] = Traces[q]] \/ todo' = [todo EXCEPT ![q] = {}]
    BY <1>1 DEF Post, RequestLost
  <2>a. todo' \in [Requests -> SUBSET AllTraces] /\ todo'[q] \subseteq Traces[q]
    BY <2>2, <2>3
  <2>b. todo'[q] # {} <=> post'[q] = "publishing"
    BY <1>1 DEF Post, RequestLost, Reply
  <2>4. \A p \in Requests : /\ todo'[p] \subseteq Traces[p]
                            /\ todo'[p] # {} <=> post'[p] = "publishing"
    <3>1. \A p \in Requests \ {q} : todo'[p] = todo[p] /\ post'[p] = post[p]
      BY <1>1 DEF Post, RequestLost, Reply
    <3>2. QED
      BY <2>a, <2>b, <3>1
  <2>5. faults' \in Nat
    BY <1>1, FaultType DEF Post, RequestLost
  <2>6. UNCHANGED <<log, evicted, readVars, stored, loopVars>>
    BY <1>1 DEF Post, RequestLost
  <2>7. QED
    BY <2>1, <2>a, <2>4, <2>5, <2>6 DEF readVars, loopVars
<1>2. ASSUME NEW q \in Requests, Publish(q) \/ PublishFails(q)
      PROVE  TypeInv'
  <2>1. PICK t \in todo[q] :
          /\ XAdd(q, t) \/ UNCHANGED <<log, unread, evicted>>
          /\ Published(q, t) \/ Refused(q, t) \/ UNCHANGED <<post, todo>>
    BY <1>2 DEF Publish, PublishFails
  <2>2. t \in Traces[q] /\ todo[q] \subseteq AllTraces
    BY <2>1
  <2>3. /\ post' \in [Requests -> PostStates]
        /\ todo' \in [Requests -> SUBSET AllTraces]
        /\ \A p \in Requests : /\ todo'[p] \subseteq Traces[p]
                               /\ todo'[p] # {} <=> post'[p] = "publishing"
    <3>1. post[q] = "publishing"
      BY <1>2 DEF Publish, PublishFails
    <3>2. CASE Published(q, t)
      BY <3>1, <3>2, <2>2 DEF Published, Reply, PostStates, Answers
    <3>3. CASE Refused(q, t)
      BY <3>1, <3>3, <2>2 DEF Refused, Reply, PostStates, Answers
    <3>4. CASE UNCHANGED <<post, todo>>
      BY <3>4
    <3>5. QED
      BY <2>1, <3>2, <3>3, <3>4
  <2>4. /\ log' \in Seq(LogEntries) /\ unread' \in Seq(Nat)
        /\ DOMAIN log \subseteq DOMAIN log'
        /\ ToSet(unread') \union evicted' \subseteq DOMAIN log'
    <3>1. CASE XAdd(q, t)
      <4>1. PICK n \in Nat :
              /\ log' \in Seq(LogEntries) /\ unread' \in Seq(Nat)
              /\ DOMAIN log' = DOMAIN log \union {n}
              /\ ToSet(unread') \union evicted' = ToSet(unread) \union evicted \union {n}
        BY <3>1, <2>2, XAddEffect
      <4>2. QED
        BY <4>1, LogType
    <3>2. CASE UNCHANGED <<log, unread, evicted>>
      BY <3>2
    <3>3. QED
      BY <2>1, <3>1, <3>2
  <2>5. faults' \in Nat
    BY <1>2, FaultType DEF Publish, PublishFails
  <2>6. UNCHANGED <<posts, group, pel, stored, loopVars>>
    BY <1>2 DEF Publish, PublishFails
  <2>7. QED
    BY <2>3, <2>4, <2>5, <2>6 DEF loopVars
<1>3. ASSUME NEW w \in Workers, StartWorker(w) \/ EnsureGroup(w) \/ Stop(w) \/ ExitIdle(w)
      PROVE  TypeInv'
  <2>1. /\ UNCHANGED <<post, posts, todo, log, unread, evicted, pel, stored, batch>>
        /\ group' \in BOOLEAN
    BY <1>3 DEF StartWorker, EnsureGroup, Stop, ExitIdle, GroupStart, apiVars, readVars
  <2>2. /\ worker' \in [Workers -> WorkerStates]
        /\ running' \in [Workers -> BOOLEAN]
        /\ \A v \in Workers : worker'[v] \in {"writing", "acking"}
                                <=> worker[v] \in {"writing", "acking"}
    BY <1>3 DEF StartWorker, EnsureGroup, Stop, ExitIdle, At, WorkerStates
  <2>3. faults' \in Nat
    BY <1>3, FaultType DEF StartWorker, EnsureGroup, Stop, ExitIdle
  <2>4. QED
    BY <2>1, <2>2, <2>3
<1>4. ASSUME NEW w \in Workers, ReadBatch(w)
      PROVE  TypeInv'
  <2>1. /\ Delivery \in Seq(Nat) /\ Delivery # <<>>
        /\ unread' \in Seq(Nat)
        /\ ToSet(unread) = ToSet(Delivery) \union ToSet(unread')
        /\ pel' = pel \union ToSet(Delivery)
    BY <1>4, DeliverEffect DEF ReadBatch
  <2>2. /\ batch' = [batch EXCEPT ![w] = Delivery]
        /\ worker' = [worker EXCEPT ![w] = "writing"]
        /\ UNCHANGED <<apiVars, log, evicted, group, stored, running>>
    BY <1>4 DEF ReadBatch, At
  <2>3. faults' \in Nat
    BY <1>4, FaultType DEF ReadBatch
  <2>4. QED
    BY <2>1, <2>2, <2>3 DEF apiVars, WorkerStates
<1>5. ASSUME NEW w \in Workers, ReadFails(w)
      PROVE  TypeInv'
  <2>1. /\ unread' \in Seq(Nat)
        /\ ToSet(unread') \union pel' \subseteq DOMAIN log
    BY <1>5, DeliverEffect DEF ReadFails
  <2>2. /\ worker[w] = "polling"
        /\ worker' = [worker EXCEPT ![w] = LoopTop(w)]
        /\ UNCHANGED <<apiVars, log, evicted, group, stored, running, batch>>
    BY <1>5 DEF ReadFails, At
  <2>3. faults' \in Nat
    BY <1>5, FaultType DEF ReadFails
  <2>4. QED
    BY <2>1, <2>2, <2>3 DEF apiVars, WorkerStates, LoopTop
<1>6. ASSUME NEW w \in Workers, WriteTrace(w) \/ WriteFails(w)
      PROVE  TypeInv'
  <2>1. worker[w] = "writing" /\ HasBatch(w)
    BY <1>6 DEF WriteTrace, WriteFails, HasBatch
  <2>2. stored' \in Seq(Nat) /\ ToSet(stored') \subseteq DOMAIN log
    <3>1. stored' \in {stored, Append(stored, Head(batch[w]))}
      BY <1>6 DEF WriteTrace, WriteFails
    <3>2. QED
      BY <2>1, <3>1, AppendStored
  <2>3. /\ worker' \in [Workers -> WorkerStates]
        /\ batch' \in [Workers -> Seq(Nat)]
        /\ \A v \in Workers : batch'[v] # <<>> <=> worker'[v] \in {"writing", "acking"}
        /\ \A v \in Workers : ToSet(batch'[v]) \subseteq ToSet(batch[v])
    <3>1. CASE NextMessage(w)
      BY <2>1, <3>1, NextMessageEffect, ZenonT(60) DEF WorkerStates
    <3>2. CASE At(w, "acking") /\ UNCHANGED batch
      BY <2>1, <3>2 DEF At, WorkerStates
    <3>3. QED
      BY <1>6, <3>1, <3>2 DEF WriteTrace, WriteFails, Skipped
  <2>4. faults' \in Nat
    BY <1>6, FaultType DEF WriteTrace, WriteFails
  <2>5. UNCHANGED <<apiVars, log, evicted, readVars, running>>
    BY <1>6 DEF WriteTrace, WriteFails, PendingWhileWriting, readVars
  <2>6. QED
    BY <2>2, <2>3, <2>4, <2>5 DEF apiVars, readVars
<1>7. ASSUME NEW w \in Workers, Ack(w) \/ AckFails(w)
      PROVE  TypeInv'
  <2>1. HasBatch(w) /\ NextMessage(w)
    BY <1>7 DEF Ack, AckFails, Skipped, HasBatch
  <2>2. pel' \subseteq pel
    BY <1>7 DEF Ack, AckFails
  <2>3. /\ worker' \in [Workers -> WorkerStates]
        /\ batch' \in [Workers -> Seq(Nat)]
        /\ \A v \in Workers : batch'[v] # <<>> <=> worker'[v] \in {"writing", "acking"}
        /\ \A v \in Workers : ToSet(batch'[v]) \subseteq ToSet(batch[v])
    BY <2>1, NextMessageEffect, ZenonT(60) DEF WorkerStates
  <2>4. faults' \in Nat
    BY <1>7, FaultType DEF Ack, AckFails
  <2>5. UNCHANGED <<apiVars, log, evicted, unread, group, stored, running>>
    BY <1>7 DEF Ack, AckFails
  <2>6. QED
    BY <2>2, <2>3, <2>4, <2>5 DEF apiVars
<1>8. ASSUME NEW w \in Workers, Crash(w)
      PROVE  TypeInv'
  <2>1. stored' \in Seq(Nat) /\ ToSet(stored') \subseteq DOMAIN log
    <3>1. stored' = stored \/ (HasBatch(w) /\ stored' = Append(stored, Head(batch[w])))
      BY <1>8 DEF Crash, HasBatch
    <3>2. QED
      BY <3>1, AppendStored
  <2>2. /\ worker' = [worker EXCEPT ![w] = "down"]
        /\ running' = [running EXCEPT ![w] = FALSE]
        /\ batch' = [batch EXCEPT ![w] = <<>>]
        /\ UNCHANGED <<apiVars, log, evicted, readVars>>
    BY <1>8 DEF Crash, At
  <2>3. faults' \in Nat
    BY <1>8, FaultType DEF Crash
  <2>4. QED
    BY <2>1, <2>2, <2>3, EmptySet DEF apiVars, readVars, WorkerStates
<1>9. CASE UNCHANGED vars
  BY <1>9 DEF vars
<1>10. QED
  BY <1>1, <1>2, <1>3, <1>4, <1>5, <1>6, <1>7, <1>8, <1>9
  DEF Next, ApiStep, LoopStep, MessageStep

-----------------------------------------------------------------------------
(* What was published, and what became of it                               *)

(* Whatever happens, the log only grows, and nothing stored is taken back. *)
LEMMA HistoryGrows ==
    ASSUME TraceStreamAssumption, TypeInv, [Next]_vars
    PROVE  /\ \A n \in DOMAIN log : n \in DOMAIN log' /\ log'[n] = log[n]
           /\ ToSet(stored) \subseteq ToSet(stored')
<1>1. ASSUME NEW q \in Requests, ApiStep(q)
      PROVE  \A n \in DOMAIN log : n \in DOMAIN log' /\ log'[n] = log[n]
  <2>1. CASE UNCHANGED log
    BY <2>1
  <2>2. ASSUME NEW t \in todo[q], XAdd(q, t)
        PROVE  \A n \in DOMAIN log : n \in DOMAIN log' /\ log'[n] = log[n]
    <3>1. t \in Traces[q]
      BY DEF TypeInv, RequestType
    <3>2. QED
      BY <2>2, <3>1, XAddEffect
  <2>3. QED
    BY <1>1, <2>1, <2>2 DEF ApiStep, Post, Publish, PublishFails, RequestLost
<1>2. ASSUME NEW w \in Workers, LoopStep(w)
      PROVE  ToSet(stored) \subseteq ToSet(stored')
  <2>1. \/ UNCHANGED stored
        \/ HasBatch(w) /\ stored' = Append(stored, Head(batch[w]))
    BY <1>2 DEF LoopStep, MessageStep, StartWorker, EnsureGroup, ReadBatch, ReadFails,
                WriteTrace, WriteFails, Ack, AckFails, Stop, ExitIdle, Crash, HasBatch
  <2>2. QED
    BY <2>1, AppendStored
<1>3. ASSUME NEW q \in Requests, ApiStep(q) PROVE UNCHANGED stored
  BY <1>3 DEF ApiStep, Post, Publish, PublishFails, RequestLost
<1>4. ASSUME NEW w \in Workers, LoopStep(w) PROVE UNCHANGED log
  BY <1>4 DEF LoopStep, MessageStep, StartWorker, EnsureGroup, ReadBatch, ReadFails,
              WriteTrace, WriteFails, Ack, AckFails, Stop, ExitIdle, Crash
<1>5. CASE UNCHANGED vars
  BY <1>5 DEF vars
<1>6. QED
  BY <1>1, <1>2, <1>3, <1>4, <1>5 DEF Next

LEMMA DoneStays ==
    ASSUME TraceStreamAssumption, TypeInv, [Next]_vars, NEW n \in DOMAIN log, Done(n)
    PROVE  Done(n)'
BY HistoryGrows DEF Done, Stored, KindOf

LEMMA KindRange ==
    ASSUME TraceStreamAssumption, TypeInv, NEW n \in DOMAIN log
    PROVE  KindOf(n) \in {"rows", "empty", "bad"}
<1>1. log[n] \in LogEntries
  BY LogType, ElementOfSeq DEF TypeInv, StreamType
<1>2. PICK q \in Requests : log[n] \in {q} \X Traces[q]
  BY <1>1 DEF LogEntries
<1>3. log[n][2] \in Traces[q]
  BY <1>2
<1>4. QED
  BY <1>3 DEF KindOf, TraceStreamAssumption

(* A request has an entry for each trace it has dealt with.                *)
LEMMA PublishedStep ==
    ASSUME TraceStreamAssumption, TypeInv, PublishedInLog, [Next]_vars
    PROVE  PublishedInLog'
<1> SUFFICES ASSUME NEW q \in Requests, post'[q] \in {"publishing", "202"},
                    NEW t \in Traces[q] \ todo'[q]
             PROVE  \E n \in DOMAIN log' : log'[n] = <<q, t>>
  BY DEF PublishedInLog
<1>1. CASE post[q] \in {"publishing", "202"} /\ t \notin todo[q]
  <2>1. PICK n \in DOMAIN log : log[n] = <<q, t>>
    BY <1>1 DEF PublishedInLog
  <2>2. QED
    BY <2>1, HistoryGrows
<1>2. ASSUME NEW p \in Requests, ApiStep(p), ~ (post[q] \in {"publishing", "202"} /\ t \notin todo[q])
      PROVE  \E n \in DOMAIN log' : log'[n] = <<q, t>>
  <2>1. post \in [Requests -> PostStates] /\ todo \in [Requests -> SUBSET AllTraces]
    BY DEF TypeInv, RequestType
  <2>2. p = q
    BY <1>2, <2>1 DEF ApiStep, Post, Publish, PublishFails, RequestLost, Published, Refused, Reply
  <2>3. ~ Post(q)
    BY <2>1 DEF Post, Reply
  <2>4. ~ RequestLost(q) /\ ~ PublishFails(q)
    BY <1>2, <2>1 DEF RequestLost, PublishFails, Refused, Reply
  <2>5. PICK u \in todo[q] : XAdd(q, u) /\ Published(q, u) /\ post[q] = "publishing"
    BY <1>2, <2>2, <2>3, <2>4 DEF ApiStep, Publish
  <2>6. u = t
    BY <1>2, <2>1, <2>5 DEF Published
  <2>7. QED
    BY <2>5, <2>6, XAddEffect
<1>3. ASSUME NEW w \in Workers, LoopStep(w) PROVE UNCHANGED <<post, todo>>
  BY <1>3 DEF LoopStep, MessageStep, StartWorker, EnsureGroup, ReadBatch, ReadFails,
              WriteTrace, WriteFails, Ack, AckFails, Stop, ExitIdle, Crash, apiVars
<1>4. QED
  BY <1>1, <1>2, <1>3 DEF Next, vars

(* The entry that a worker acknowledges is dealt with.                     *)
LEMMA AckingStep ==
    ASSUME TraceStreamAssumption, TypeInv, AckingIsDone, [Next]_vars
    PROVE  AckingIsDone'
<1> SUFFICES ASSUME NEW w \in Workers, worker'[w] = "acking"
             PROVE  Done(Head(batch[w]))'
  BY DEF AckingIsDone
<1>1. CASE worker[w] = "acking" /\ batch'[w] = batch[w]
  <2>1. Head(batch[w]) \in DOMAIN log /\ Done(Head(batch[w]))
    BY <1>1, BatchHead DEF HasBatch, AckingIsDone
  <2>2. Head(batch[w])' = Head(batch[w])
    BY <1>1
  <2>3. QED
    BY <2>1, <2>2, DoneStays
<1>2. CASE WriteTrace(w)
  <2>1. HasBatch(w)
    BY <1>2 DEF WriteTrace, HasBatch
  <2>2. KindOf(Head(batch[w])) # "bad"
    <3>1. SUFFICES ASSUME Skipped(w) PROVE FALSE
      BY <1>2 DEF WriteTrace
    <3>2. QED
      BY <2>1, <3>1, NextMessageEffect DEF Skipped
  <2>3. batch' = batch /\ log' = log
    BY <1>2, <2>2 DEF WriteTrace
  <2>4. CASE KindOf(Head(batch[w])) = "rows"
    BY <1>2, <2>1, <2>3, <2>4, AppendStored DEF WriteTrace, Done, Stored
  <2>5. CASE KindOf(Head(batch[w])) = "empty"
    BY <2>3, <2>5 DEF Done, KindOf
  <2>6. QED
    BY <2>1, <2>2, <2>4, <2>5, BatchHead, KindRange
<1>3. ASSUME NEW v \in Workers, LoopStep(v), ~ WriteTrace(w)
      PROVE  worker[w] = "acking" /\ batch'[w] = batch[w]
  <2>1. worker \in [Workers -> WorkerStates] /\ batch \in [Workers -> Seq(Nat)]
    BY DEF TypeInv, LoopType
  <2>2. CASE MessageStep(v)
    <3>1. CASE v = w
      <4>1. HasBatch(w) /\ NextMessage(w)
        BY <1>3, <2>2, <3>1
        DEF MessageStep, WriteFails, Ack, AckFails, Skipped, HasBatch
      <4>2. QED
        BY <4>1, NextMessageEffect
    <3>2. CASE v # w
      BY <2>1, <2>2, <3>2
      DEF MessageStep, WriteTrace, WriteFails, Ack, AckFails, Skipped, NextMessage, At
    <3>3. QED
      BY <3>1, <3>2
  <2>3. CASE ~ MessageStep(v)
    BY <1>3, <2>1, <2>3
    DEF LoopStep, StartWorker, EnsureGroup, ReadBatch, ReadFails, Stop, ExitIdle, Crash,
        At, LoopTop
  <2>4. QED
    BY <2>2, <2>3
<1>4. ASSUME NEW q \in Requests, ApiStep(q) PROVE UNCHANGED <<worker, batch>>
  BY <1>4 DEF ApiStep, Post, Publish, PublishFails, RequestLost, loopVars
<1>5. QED
  BY <1>1, <1>2, <1>3, <1>4 DEF Next, vars

(* Nothing leaves the stream and the pending list without being dealt with.*)
LEMMA AckedStep ==
    ASSUME TraceStreamAssumption, TypeInv, AckedIsStored, AckingIsDone, [Next]_vars
    PROVE  AckedIsStored'
<1> SUFFICES ASSUME NEW n \in DOMAIN log',
                    n \notin ToSet(unread') \union evicted' \union pel'
             PROVE  Done(n)'
  BY DEF AckedIsStored, Done
<1>1. CASE n \in DOMAIN log /\ n \notin ToSet(unread) \union evicted \union pel
  BY <1>1, DoneStays DEF AckedIsStored, Done
<1>2. ASSUME NEW q \in Requests, ApiStep(q)
      PROVE  n \in DOMAIN log /\ n \notin ToSet(unread) \union evicted \union pel
  <2>1. pel' = pel
    BY <1>2 DEF ApiStep, Post, Publish, PublishFails, RequestLost, readVars
  <2>2. CASE UNCHANGED <<log, unread, evicted>>
    BY <2>1, <2>2
  <2>3. ASSUME NEW t \in todo[q], XAdd(q, t)
        PROVE  n \in DOMAIN log /\ n \notin ToSet(unread) \union evicted
    <3>1. t \in Traces[q]
      BY DEF TypeInv, RequestType
    <3>2. PICK m \in Nat :
            /\ DOMAIN log' = DOMAIN log \union {m}
            /\ ToSet(unread') \union evicted' = ToSet(unread) \union evicted \union {m}
      BY <2>3, <3>1, XAddEffect
    <3>3. QED
      BY <3>2
  <2>4. QED
    BY <1>2, <2>1, <2>2, <2>3
    DEF ApiStep, Post, Publish, PublishFails, RequestLost, readVars
<1>3. ASSUME NEW w \in Workers, ReadBatch(w) \/ ReadFails(w)
      PROVE  n \in DOMAIN log /\ n \notin ToSet(unread) \union evicted \union pel
  <2>1. log' = log /\ evicted' = evicted /\ (Deliver \/ UNCHANGED <<unread, pel>>)
    BY <1>3 DEF ReadBatch, ReadFails
  <2>2. QED
    BY <2>1, DeliverEffect
<1>4. ASSUME NEW w \in Workers, Ack(w) \/ AckFails(w)
      PROVE  Done(n)'
  <2>1. /\ worker[w] = "acking" /\ UNCHANGED <<log, unread, evicted>>
        /\ pel \ {Head(batch[w])} \subseteq pel'
    BY <1>4 DEF Ack, AckFails
  <2>2. CASE n = Head(batch[w])
    BY <2>1, <2>2, DoneStays DEF AckingIsDone
  <2>3. CASE n # Head(batch[w])
    BY <1>1, <2>1, <2>3
  <2>4. QED
    BY <2>2, <2>3
<1>5. ASSUME NEW w \in Workers, LoopStep(w),
             ~ ReadBatch(w), ~ ReadFails(w), ~ Ack(w), ~ AckFails(w)
      PROVE  UNCHANGED <<log, unread, evicted, pel>>
  BY <1>5 DEF LoopStep, MessageStep, StartWorker, EnsureGroup, GroupStart, WriteTrace,
              WriteFails, PendingWhileWriting, Stop, ExitIdle, Crash, readVars
<1>6. QED
  BY <1>1, <1>2, <1>3, <1>4, <1>5 DEF Next, vars

-----------------------------------------------------------------------------
(* Where an entry is                                                       *)

(* A step that leaves batches and inserts alone and brings into the stream *)
(* at most an entry that was never there.                                  *)
LEMMA StreamOnly ==
    ASSUME TypeInv, OnePlace, NEW fresh, fresh \notin DOMAIN log,
           IsInjective(unread'), ToSet(unread') \subseteq ToSet(unread) \union {fresh},
           UNCHANGED <<stored, batch>>,
           \A w \in Workers : Left(w)' \subseteq Left(w)
    PROVE  OnePlace'
<1>1. /\ fresh \notin ToSet(stored)
      /\ \A w \in Workers : fresh \notin ToSet(batch[w])
  BY LogType DEF TypeInv, LoopType
<1>2. /\ IsInjective(unread') /\ IsInjective(stored')
      /\ ToSet(unread') \intersect ToSet(stored') = {}
  BY <1>1 DEF OnePlace
<1>3. ASSUME NEW w \in Workers
      PROVE  /\ IsInjective(batch'[w])
             /\ ToSet(batch'[w]) \intersect ToSet(unread') = {}
             /\ Left(w)' \intersect ToSet(stored') = {}
  BY <1>1 DEF OnePlace
<1>4. \A v, w \in Workers : v # w => ToSet(batch'[v]) \intersect ToSet(batch'[w]) = {}
  BY DEF OnePlace
<1>5. QED
  BY <1>2, <1>3, <1>4 DEF OnePlace

(* A step of w that drops entries of its batch, and may insert one that it *)
(* had not tried to write and will not write again.                        *)
LEMMA BatchShrinks ==
    ASSUME TypeInv, OnePlace, NEW w \in Workers,
           UNCHANGED unread,
           \/ UNCHANGED stored
           \/ /\ worker[w] = "writing"
              /\ stored' = Append(stored, Head(batch[w]))
              /\ Head(batch[w]) \notin Left(w)',
           IsInjective(batch'[w]),
           ToSet(batch'[w]) \subseteq ToSet(batch[w]),
           Left(w)' \subseteq Left(w),
           \A v \in Workers \ {w} : batch'[v] = batch[v] /\ worker'[v] = worker[v]
    PROVE  OnePlace'
<1>1. \A v \in Workers \ {w} : Left(v)' = Left(v) /\ Left(v) \subseteq ToSet(batch[v])
  <2>1. SUFFICES ASSUME NEW v \in Workers \ {w}
                 PROVE  Left(v)' = Left(v) /\ Left(v) \subseteq ToSet(batch[v])
    OBVIOUS
  <2>2. Left(v)' = Left(v)
    BY DEF Left
  <2>3. Left(v) \subseteq ToSet(batch[v])
    BY BatchHead DEF Left, HasBatch
  <2>4. QED
    BY <2>2, <2>3
<1>2. \/ UNCHANGED stored
      \/ /\ Head(batch[w]) \in ToSet(batch[w]) /\ Head(batch[w]) \in Left(w)
         /\ Head(batch[w]) \notin Left(w)'
         /\ ToSet(stored') = ToSet(stored) \union {Head(batch[w])}
         /\ IsInjective(stored')
  <2>1. SUFFICES ASSUME worker[w] = "writing", stored' = Append(stored, Head(batch[w])),
                        Head(batch[w]) \notin Left(w)'
                 PROVE  /\ Head(batch[w]) \in ToSet(batch[w]) /\ Head(batch[w]) \in Left(w)
                        /\ Head(batch[w]) \notin Left(w)'
                        /\ ToSet(stored') = ToSet(stored) \union {Head(batch[w])}
                        /\ IsInjective(stored')
    OBVIOUS
  <2>2. HasBatch(w) /\ Left(w) = ToSet(batch[w])
    BY <2>1 DEF HasBatch, Left
  <2>3. Head(batch[w]) \in ToSet(batch[w])
    BY <2>2, BatchHead
  <2>4. Head(batch[w]) \notin ToSet(stored) /\ IsInjective(stored)
    BY <2>2, <2>3 DEF OnePlace
  <2>5. QED
    BY <2>1, <2>2, <2>3, <2>4, AppendStored
<1>3. /\ IsInjective(unread') /\ IsInjective(stored')
      /\ ToSet(unread') \intersect ToSet(stored') = {}
  BY <1>2 DEF OnePlace
<1>4. ASSUME NEW v \in Workers
      PROVE  /\ IsInjective(batch'[v])
             /\ ToSet(batch'[v]) \intersect ToSet(unread') = {}
             /\ Left(v)' \intersect ToSet(stored') = {}
  <2>1. CASE v = w
    BY <1>2, <2>1 DEF OnePlace
  <2>2. CASE v # w
    BY <1>1, <1>2, <2>2 DEF OnePlace
  <2>3. QED
    BY <2>1, <2>2
<1>5. ASSUME NEW u \in Workers, NEW v \in Workers, u # v
      PROVE  ToSet(batch'[u]) \intersect ToSet(batch'[v]) = {}
  <2>1. ToSet(batch[u]) \intersect ToSet(batch[v]) = {}
    BY <1>5 DEF OnePlace
  <2>2. ToSet(batch'[u]) \subseteq ToSet(batch[u]) /\ ToSet(batch'[v]) \subseteq ToSet(batch[v])
    OBVIOUS
  <2>3. QED
    BY <2>1, <2>2
<1>6. QED
  BY <1>3, <1>4, <1>5 DEF OnePlace

LEMMA OnePlaceStep ==
    ASSUME TraceStreamAssumption, TypeInv, OnePlace, [Next]_vars
    PROVE  OnePlace'
<1>1. /\ worker \in [Workers -> WorkerStates] /\ batch \in [Workers -> Seq(Nat)]
      /\ \A w \in Workers : batch[w] # <<>> <=> worker[w] \in {"writing", "acking"}
  BY DEF TypeInv, LoopType
<1>2. ASSUME NEW q \in Requests, ApiStep(q) PROVE OnePlace'
  <2>1. /\ UNCHANGED <<stored, batch>>
        /\ \A w \in Workers : Left(w)' \subseteq Left(w)
    BY <1>2 DEF ApiStep, Post, Publish, PublishFails, RequestLost, loopVars, Left
  <2>2. PICK fresh \in Nat :
            /\ fresh \notin DOMAIN log
            /\ IsInjective(unread')
            /\ ToSet(unread') \subseteq ToSet(unread) \union {fresh}
    <3>1. CASE UNCHANGED unread
      <4>1. Len(log) + 1 \in Nat /\ Len(log) + 1 \notin DOMAIN log
        BY LogType
      <4>2. QED
        BY <3>1, <4>1 DEF OnePlace
    <3>2. ASSUME NEW t \in todo[q], XAdd(q, t)
          PROVE  \E fresh \in Nat :
                    /\ fresh \notin DOMAIN log
                    /\ IsInjective(unread')
                    /\ ToSet(unread') \subseteq ToSet(unread) \union {fresh}
      <4>1. t \in Traces[q]
        BY DEF TypeInv, RequestType
      <4>2. QED
        BY <3>2, <4>1, XAddEffect DEF OnePlace
    <3>3. QED
      BY <1>2, <3>1, <3>2
      DEF ApiStep, Post, Publish, PublishFails, RequestLost, readVars
  <2>3. QED
    BY <2>1, <2>2, StreamOnly
<1>3. ASSUME NEW w \in Workers,
             StartWorker(w) \/ EnsureGroup(w) \/ ReadFails(w) \/ Stop(w) \/ ExitIdle(w)
      PROVE  OnePlace'
  <2>1. UNCHANGED <<log, stored, batch>>
    BY <1>3 DEF StartWorker, EnsureGroup, ReadFails, Stop, ExitIdle
  <2>2. \A v \in Workers : Left(v)' \subseteq Left(v)
    BY <1>1, <1>3, <2>1
    DEF StartWorker, EnsureGroup, ReadFails, Stop, ExitIdle, At, LoopTop, Left
  <2>3. IsInjective(unread') /\ ToSet(unread') \subseteq ToSet(unread)
    <3>1. Deliver \/ UNCHANGED unread
      BY <1>3 DEF StartWorker, EnsureGroup, GroupStart, ReadFails, Stop, ExitIdle, readVars
    <3>2. QED
      BY <3>1, DeliverEffect DEF OnePlace
  <2>4. Len(log) + 1 \notin DOMAIN log
    BY LogType
  <2>5. QED
    BY <2>1, <2>2, <2>3, <2>4, StreamOnly
<1>4. ASSUME NEW w \in Workers, ReadBatch(w)
      PROVE  OnePlace'
  <2>1. /\ Delivery \in Seq(Nat) /\ IsInjective(Delivery) /\ IsInjective(unread')
        /\ ToSet(unread) = ToSet(Delivery) \union ToSet(unread')
        /\ ToSet(Delivery) \intersect ToSet(unread') = {}
    BY <1>4, DeliverEffect DEF ReadBatch, OnePlace
  <2>2. /\ batch'[w] = Delivery /\ worker'[w] = "writing"
        /\ \A v \in Workers \ {w} : batch'[v] = batch[v] /\ worker'[v] = worker[v]
        /\ stored' = stored
    BY <1>1, <1>4 DEF ReadBatch, At
  <2>3. Left(w)' = ToSet(Delivery) /\ \A v \in Workers \ {w} : Left(v)' = Left(v)
    BY <2>2 DEF Left
  <2>4. /\ IsInjective(stored') /\ ToSet(unread') \intersect ToSet(stored') = {}
    BY <2>1, <2>2 DEF OnePlace
  <2>5. ASSUME NEW v \in Workers
        PROVE  /\ IsInjective(batch'[v])
               /\ ToSet(batch'[v]) \intersect ToSet(unread') = {}
               /\ Left(v)' \intersect ToSet(stored') = {}
    <3>1. CASE v = w
      BY <2>1, <2>2, <2>3, <3>1 DEF OnePlace
    <3>2. CASE v # w
      BY <2>1, <2>2, <2>3, <3>2 DEF OnePlace
    <3>3. QED
      BY <3>1, <3>2
  <2>6. ASSUME NEW u \in Workers, NEW v \in Workers, u # v
        PROVE  ToSet(batch'[u]) \intersect ToSet(batch'[v]) = {}
    <3>1. \A x \in Workers : ToSet(batch[x]) \intersect ToSet(Delivery) = {}
      BY <2>1 DEF OnePlace
    <3>2. ToSet(batch[u]) \intersect ToSet(batch[v]) = {}
      BY <2>6 DEF OnePlace
    <3>3. CASE u = w
      BY <2>2, <2>6, <3>1, <3>3
    <3>4. CASE v = w
      BY <2>2, <2>6, <3>1, <3>4
    <3>5. CASE u # w /\ v # w
      BY <2>2, <3>2, <3>5
    <3>6. QED
      BY <3>3, <3>4, <3>5
  <2>7. QED
    BY <2>1, <2>4, <2>5, <2>6 DEF OnePlace
<1>5. ASSUME NEW w \in Workers, WriteTrace(w) /\ KindOf(Head(batch[w])) # "bad"
      PROVE  OnePlace'
  <2>1. HasBatch(w) /\ worker[w] = "writing" /\ UNCHANGED <<batch, unread>>
    BY <1>5 DEF WriteTrace, HasBatch
  <2>2. /\ worker'[w] = "acking"
        /\ \A v \in Workers \ {w} : worker'[v] = worker[v]
    BY <1>1, <1>5 DEF WriteTrace, At
  <2>3. /\ Left(w) = ToSet(batch[w]) /\ Left(w)' = ToSet(Tail(batch[w]))
        /\ IsInjective(batch[w])
    BY <2>1, <2>2 DEF Left, OnePlace
  <2>4. Left(w)' \subseteq Left(w) /\ Head(batch[w]) \notin Left(w)'
    BY <2>1, <2>3, BatchHead
  <2>5. \/ UNCHANGED stored
        \/ stored' = Append(stored, Head(batch[w]))
    BY <1>5 DEF WriteTrace
  <2>6. QED
    BY <2>1, <2>2, <2>3, <2>4, <2>5, BatchShrinks
<1>6. ASSUME NEW w \in Workers,
             \/ WriteTrace(w) /\ KindOf(Head(batch[w])) = "bad"
             \/ WriteFails(w) \/ Ack(w) \/ AckFails(w)
      PROVE  OnePlace'
  <2>1. HasBatch(w) /\ NextMessage(w) /\ UNCHANGED unread
    BY <1>6 DEF WriteTrace, WriteFails, Ack, AckFails, Skipped, HasBatch
  <2>2. /\ batch'[w] = Tail(batch[w]) /\ Left(w)' = ToSet(Tail(batch[w]))
        /\ \A v \in Workers \ {w} : batch'[v] = batch[v] /\ worker'[v] = worker[v]
    BY <1>1, <2>1, NextMessageEffect
  <2>3. /\ IsInjective(batch'[w]) /\ ToSet(batch'[w]) \subseteq ToSet(batch[w])
        /\ Head(batch[w]) \notin Left(w)'
    BY <2>1, <2>2, BatchHead DEF OnePlace
  <2>4. Left(w)' \subseteq Left(w)
    <3>1. ToSet(Tail(batch[w])) \subseteq ToSet(batch[w])
      BY <2>1, BatchHead
    <3>2. QED
      BY <2>1, <2>2, <3>1 DEF Left, HasBatch
  <2>5. \/ UNCHANGED stored
        \/ worker[w] = "writing" /\ stored' = Append(stored, Head(batch[w]))
    BY <1>6 DEF WriteTrace, WriteFails, Ack, AckFails
  <2>6. QED
    BY <2>1, <2>2, <2>3, <2>4, <2>5, BatchShrinks
<1>7. ASSUME NEW w \in Workers, Crash(w)
      PROVE  OnePlace'
  <2>1. /\ batch'[w] = <<>> /\ worker'[w] = "down" /\ UNCHANGED unread
        /\ \A v \in Workers \ {w} : batch'[v] = batch[v] /\ worker'[v] = worker[v]
    BY <1>1, <1>7 DEF Crash, At, readVars
  <2>2. /\ IsInjective(batch'[w]) /\ ToSet(batch'[w]) \subseteq ToSet(batch[w])
        /\ Left(w)' = {}
    BY <2>1, EmptySet DEF Left
  <2>3. \/ UNCHANGED stored
        \/ worker[w] = "writing" /\ stored' = Append(stored, Head(batch[w]))
    BY <1>7 DEF Crash
  <2>4. QED
    BY <2>1, <2>2, <2>3, BatchShrinks
<1>8. CASE UNCHANGED vars
  BY <1>8 DEF vars, OnePlace, Left
<1>9. QED
  BY <1>2, <1>3, <1>4, <1>5, <1>6, <1>7, <1>8 DEF Next, LoopStep, MessageStep

-----------------------------------------------------------------------------
(* The theorems                                                            *)

LEMMA InvInit == ASSUME TraceStreamAssumption, Init PROVE IInv
<1>1. TypeInv
  BY InitType
<1>2. PublishedInLog /\ AckedIsStored /\ AckingIsDone
  BY EmptySeq DEF Init, PublishedInLog, AckedIsStored, AckingIsDone
<1>3. OnePlace
  BY EmptySet DEF Init, OnePlace, Left
<1>4. QED
  BY <1>1, <1>2, <1>3 DEF IInv

LEMMA InvStep == ASSUME TraceStreamAssumption, IInv, [Next]_vars PROVE IInv'
BY TypeStep, PublishedStep, AckedStep, AckingStep, OnePlaceStep DEF IInv

LEMMA InvHolds == Spec => []IInv
<1> USE TraceStreamAssumption
<1>1. Init => IInv
  BY InvInit
<1>2. IInv /\ [Next]_vars => IInv'
  BY InvStep
<1>3. QED
  BY <1>1, <1>2, PTL DEF Spec

(* In every reachable state of the pipeline each variable has its type, in *)
(* particular a request is publishing just as long as traces are left, and *)
(* a consumer has a batch just as long as it works on it.                  *)
THEOREM TypeCorrect == Spec => []TypeOK
<1>1. IInv => TypeOK
  BY TypeIsTyped DEF IInv
<1>2. QED
  BY <1>1, InvHolds, PTL

(* What the group delivered and nobody has pending was stored, or had      *)
(* nothing to store: the acknowledgement of StreamConsumer._handle comes   *)
(* after the insert.                                                       *)
THEOREM AckedEntriesAreStored == Spec => []AckedIsStored
<1>1. IInv => AckedIsStored
  BY DEF IInv
<1>2. QED
  BY <1>1, InvHolds, PTL

(* A trace answered with 202 is stored, or waits in the stream or in the   *)
(* pending list, or was trimmed, or had nothing to store.                  *)
THEOREM AcceptedTracesAreKept == Spec => []AcceptedIsKept
<1>1. ASSUME IInv PROVE AcceptedIsKept
  <2>1. SUFFICES ASSUME NEW q \in Requests, post[q] = "202", NEW t \in Traces[q]
                 PROVE  \E n \in DOMAIN log :
                          /\ log[n] = <<q, t>>
                          /\ \/ Stored(n) \/ n \in ToSet(unread) \/ n \in pel
                             \/ n \in evicted \/ Kind[t] = "empty"
    BY DEF AcceptedIsKept
  <2>2. t \notin todo[q]
    BY <1>1, <2>1 DEF IInv, TypeInv, RequestType
  <2>3. PICK n \in DOMAIN log : log[n] = <<q, t>>
    BY <1>1, <2>1, <2>2 DEF IInv, PublishedInLog
  <2>4. KindOf(n) = Kind[t]
    BY <2>3 DEF KindOf
  <2>5. n \in ToSet(unread) \union evicted \union pel \/ Stored(n) \/ KindOf(n) = "empty"
    BY <1>1 DEF IInv, AckedIsStored
  <2>6. QED
    BY <2>3, <2>4, <2>5
<1>2. QED
  BY <1>1, InvHolds, PTL

(* No entry is inserted twice or worked on by two consumers, however calls *)
(* fail and workers die and start again: nothing is ever read a second     *)
(* time, and a consumer goes on to the next message after any failure.     *)
THEOREM EntriesAreStoredOnce == Spec => []StoredOnce
<1>1. IInv => StoredOnce
  BY DEF IInv, OnePlace, StoredOnce
<1>2. QED
  BY <1>1, InvHolds, PTL

-----------------------------------------------------------------------------
(* Copies                                                                  *)

Entries(q, t) == {n \in DOMAIN log : log[n] = <<q, t>>}

\* The handler of q, or one that a client still may start, can publish t.
MayPublish(q, t) == post[q] \in {"idle", "503", "lost"} \/ t \in todo[q]

(* A fault pays for every entry but the first, the one to come included: a *)
(* repeated post follows a request that failed, an unseen copy a lost      *)
(* answer.                                                                 *)
Accounted ==
    \A q \in Requests : \A t \in Traces[q] :
        Cardinality(Entries(q, t)) + (IF MayPublish(q, t) THEN 1 ELSE 0) <= 1 + faults

LEMMA EntriesFinite ==
    ASSUME TypeInv, NEW q, NEW t
    PROVE  IsFiniteSet(Entries(q, t)) /\ Cardinality(Entries(q, t)) \in Nat
<1>1. IsFiniteSet(DOMAIN log)
  BY LogType, FS_Interval
<1>2. Entries(q, t) \in SUBSET DOMAIN log
  BY DEF Entries
<1>3. QED
  BY <1>1, <1>2, FS_Subset, FS_CardinalityType

(* An XADD adds one entry of its trace and none of any other.              *)
LEMMA EntriesAdded ==
    ASSUME TraceStreamAssumption, TypeInv, NEW p \in Requests, NEW u \in Traces[p], XAdd(p, u),
           NEW q \in Requests, NEW t \in Traces[q]
    PROVE  Cardinality(Entries(q, t))'
               = Cardinality(Entries(q, t)) + (IF q = p /\ t = u THEN 1 ELSE 0)
<1>1. PICK n \in Nat : /\ n \notin DOMAIN log
                       /\ DOMAIN log' = DOMAIN log \union {n}
                       /\ log'[n] = <<p, u>>
                       /\ \A m \in DOMAIN log : log'[m] = log[m]
  BY XAddEffect
<1>2. CASE q = p /\ t = u
  <2>1. Entries(q, t)' = Entries(q, t) \union {n} /\ n \notin Entries(q, t)
    BY <1>1, <1>2 DEF Entries
  <2>2. Cardinality(Entries(q, t) \union {n}) = Cardinality(Entries(q, t)) + 1
    BY <2>1, EntriesFinite, FS_AddElement
  <2>3. QED
    BY <1>2, <2>1, <2>2
<1>3. CASE ~ (q = p /\ t = u)
  <2>1. Entries(q, t)' = Entries(q, t)
    BY <1>1, <1>3 DEF Entries
  <2>2. QED
    BY <1>3, <2>1, EntriesFinite
<1>4. QED
  BY <1>2, <1>3

LEMMA AccountedStep ==
    ASSUME TraceStreamAssumption, TypeInv, Accounted, [Next]_vars
    PROVE  Accounted'
<1> SUFFICES ASSUME NEW q \in Requests, NEW t \in Traces[q]
             PROVE  Cardinality(Entries(q, t))' + (IF MayPublish(q, t)' THEN 1 ELSE 0)
                        <= 1 + faults'
  BY DEF Accounted
<1> DEFINE k == Cardinality(Entries(q, t))
<1>1. /\ k \in Nat /\ faults \in Nat
      /\ k + (IF MayPublish(q, t) THEN 1 ELSE 0) <= 1 + faults
  BY EntriesFinite DEF Accounted, TypeInv, FlagType
<1>2. /\ post \in [Requests -> PostStates] /\ todo \in [Requests -> SUBSET AllTraces]
      /\ \A p \in Requests : todo[p] # {} <=> post[p] = "publishing"
      /\ \A p \in Requests : todo[p] \subseteq Traces[p]
  BY DEF TypeInv, RequestType
(* Nothing is published: no new chance to do so without a fault.           *)
<1>3. ASSUME UNCHANGED log, NEW extra \in {0, 1}, faults' = faults + extra,
             MayPublish(q, t)' => MayPublish(q, t) \/ extra = 1
      PROVE  k' + (IF MayPublish(q, t)' THEN 1 ELSE 0) <= 1 + faults'
  <2>1. k' = k
    BY <1>3 DEF Entries
  <2>2. QED
    BY <1>1, <1>3, <2>1
<1>4. ASSUME NEW p \in Requests, Post(p)
      PROVE  k' + (IF MayPublish(q, t)' THEN 1 ELSE 0) <= 1 + faults'
  <2>1. UNCHANGED log /\ faults' = faults + 0
    BY <1>1, <1>4 DEF Post, NoFault
  <2>2. MayPublish(q, t)' => MayPublish(q, t)
    <3>1. CASE p = q
      BY <1>4, <3>1 DEF Post, MayPublish
    <3>2. CASE p # q
      BY <1>2, <1>4, <3>2 DEF Post, Reply, MayPublish
    <3>3. QED
      BY <3>1, <3>2
  <2>3. QED
    BY <1>3, <2>1, <2>2
<1>5. ASSUME NEW p \in Requests, Publish(p)
      PROVE  k' + (IF MayPublish(q, t)' THEN 1 ELSE 0) <= 1 + faults'
  <2>1. PICK u \in todo[p] : XAdd(p, u) /\ Published(p, u)
    BY <1>5 DEF Publish
  <2>2. u \in Traces[p] /\ faults' = faults /\ post[p] = "publishing"
    BY <1>2, <1>5 DEF Publish, NoFault
  <2>3. k' = k + (IF q = p /\ t = u THEN 1 ELSE 0)
    BY <2>1, <2>2, EntriesAdded
  <2>4. CASE q = p /\ t = u
    <3>1. MayPublish(q, t) /\ ~ MayPublish(q, t)'
      BY <1>2, <2>1, <2>4 DEF MayPublish, Published, Reply
    <3>2. QED
      BY <1>1, <2>2, <2>3, <2>4, <3>1
  <2>5. CASE ~ (q = p /\ t = u)
    <3>1. MayPublish(q, t)' => MayPublish(q, t)
      BY <1>2, <2>1, <2>5 DEF MayPublish, Published, Reply
    <3>2. QED
      BY <1>1, <2>2, <2>3, <2>5, <3>1
  <2>6. QED
    BY <2>4, <2>5
<1>6. ASSUME NEW p \in Requests, PublishFails(p)
      PROVE  k' + (IF MayPublish(q, t)' THEN 1 ELSE 0) <= 1 + faults'
  <2>1. PICK u \in todo[p] :
          \/ Refused(p, u) /\ UNCHANGED <<log, unread, evicted>>
          \/ Refused(p, u) /\ XAdd(p, u)
          \/ UNCHANGED <<post, todo>> /\ XAdd(p, u)
    BY <1>6 DEF PublishFails
  <2>2. u \in Traces[p] /\ faults' = faults + 1 /\ post[p] = "publishing"
    BY <1>2, <1>6 DEF PublishFails, Fault
  <2>3. q # p => (MayPublish(q, t)' <=> MayPublish(q, t))
    BY <1>2, <2>1 DEF MayPublish, Refused, Reply
  <2>4. q = p /\ t = u => MayPublish(q, t)
    BY <2>1 DEF MayPublish
  <2>5. CASE UNCHANGED log
    BY <1>3, <2>2, <2>5
  <2>6. CASE XAdd(p, u)
    <3>1. k' = k + (IF q = p /\ t = u THEN 1 ELSE 0)
      BY <2>2, <2>6, EntriesAdded
    <3>2. QED
      BY <1>1, <2>2, <2>3, <2>4, <3>1
  <2>7. QED
    BY <2>1, <2>5, <2>6
<1>7. ASSUME NEW p \in Requests, RequestLost(p)
      PROVE  k' + (IF MayPublish(q, t)' THEN 1 ELSE 0) <= 1 + faults'
  BY <1>3, <1>7 DEF RequestLost, Fault
<1>8. ASSUME NEW w \in Workers, LoopStep(w)
      PROVE  k' + (IF MayPublish(q, t)' THEN 1 ELSE 0) <= 1 + faults'
  <2>1. UNCHANGED <<post, todo, log>>
    BY <1>8 DEF LoopStep, MessageStep, StartWorker, EnsureGroup, ReadBatch, ReadFails,
                WriteTrace, WriteFails, Ack, AckFails, Stop, ExitIdle, Crash, apiVars
  <2>2. faults' = faults + 0 \/ faults' = faults + 1
    BY <1>1, <1>8 DEF LoopStep, MessageStep, StartWorker, EnsureGroup, ReadBatch, ReadFails,
                WriteTrace, WriteFails, Ack, AckFails, Stop, ExitIdle, Crash, NoFault, Fault
  <2>3. MayPublish(q, t)' <=> MayPublish(q, t)
    BY <2>1 DEF MayPublish
  <2>4. QED
    BY <1>3, <2>1, <2>2, <2>3
<1>9. CASE UNCHANGED vars
  <2>1. UNCHANGED <<post, todo, log>> /\ faults' = faults + 0
    BY <1>1, <1>9 DEF vars
  <2>2. MayPublish(q, t)' <=> MayPublish(q, t)
    BY <2>1 DEF MayPublish
  <2>3. QED
    BY <1>3, <2>1, <2>2
<1>10. QED
  BY <1>4, <1>5, <1>6, <1>7, <1>8, <1>9 DEF Next, ApiStep

(* A trace has one row set more than it should for every fault at most:    *)
(* an entry of the log is stored once, and all entries of a trace but one  *)
(* come from a publication that failed or seemed to fail.                  *)
THEOREM CopiesAreAccountedFor == Spec => []CopiesHaveCauses
<1> USE TraceStreamAssumption
<1>1. Init => Accounted
  <2>1. SUFFICES ASSUME Init, NEW q \in Requests, NEW t \in Traces[q]
                 PROVE  Cardinality(Entries(q, t)) + (IF MayPublish(q, t) THEN 1 ELSE 0)
                            <= 1 + faults
    BY DEF Accounted
  <2>2. Entries(q, t) = {} /\ faults = 0
    BY <2>1, EmptySeq DEF Init, Entries
  <2>3. QED
    BY <2>2, FS_EmptySet
<1>2. IInv /\ Accounted /\ [Next]_vars => Accounted'
  BY AccountedStep DEF IInv
<1>3. ASSUME IInv, Accounted PROVE CopiesHaveCauses
  <2>1. SUFFICES ASSUME NEW q \in Requests, NEW t \in Traces[q]
                 PROVE  Cardinality({i \in DOMAIN stored : log[stored[i]] = <<q, t>>})
                            <= 1 + faults
    BY DEF CopiesHaveCauses
  <2> DEFINE S == {i \in DOMAIN stored : log[stored[i]] = <<q, t>>}
             f == [i \in S |-> stored[i]]
  <2>2. f \in Injection(S, Entries(q, t))
    <3>1. \A i \in DOMAIN stored : stored[i] \in DOMAIN log
      BY <1>3, LogType DEF IInv, ToSet
    <3>2. f \in [S -> Entries(q, t)]
      BY <3>1 DEF Entries
    <3>3. \A i, j \in S : f[i] = f[j] => i = j
      BY <1>3 DEF IInv, OnePlace, IsInjective
    <3>4. QED
      BY <3>2, <3>3 DEF Injection, IsInjective
  <2>3. Cardinality(S) <= Cardinality(Entries(q, t)) /\ IsFiniteSet(S)
    BY <1>3, <2>2, EntriesFinite, FS_Injection DEF IInv
  <2>4. Cardinality(S) \in Nat /\ Cardinality(Entries(q, t)) \in Nat /\ faults \in Nat
    BY <1>3, <2>3, EntriesFinite, FS_CardinalityType DEF IInv, TypeInv, FlagType
  <2>5. Cardinality(Entries(q, t)) + (IF MayPublish(q, t) THEN 1 ELSE 0) <= 1 + faults
    BY <1>3 DEF Accounted
  <2>6. QED
    BY <2>3, <2>4, <2>5
<1>4. QED
  BY <1>1, <1>2, <1>3, InvHolds, PTL DEF Spec

=============================================================================
