--------------------------- MODULE EvalRunProofs ---------------------------
(***************************************************************************)
(* Theorems about the eval run engine, for any runs, dataset sizes,        *)
(* workers, concurrency, stream bound and number of faults.                *)
(***************************************************************************)
EXTENDS EvalRun, FiniteSetTheorems, SequenceTheorems, TLAPS

(* The entries are the pairs of a run and one of its record indices.       *)
LEMMA EntryPairs ==
    /\ \A r \in Runs : \A i \in 1 .. Size[r] : <<r, i>> \in Entries
    /\ \A e \in Entries : /\ e[1] \in Runs
                          /\ e[2] \in 1 .. Size[e[1]]
                          /\ e = <<e[1], e[2]>>
BY DEF Entries

(* Cutting the first k elements off a sequence.                            *)
LEMMA DropPrefix ==
    ASSUME NEW S, NEW s \in Seq(S), NEW k \in 0 .. Len(s)
    PROVE  LET t == SubSeq(s, k + 1, Len(s))
           IN  /\ t \in Seq(S)
               /\ Len(t) = Len(s) - k
               /\ \A j \in 1 .. Len(t) : t[j] = s[k + j]
<1> DEFINE t == SubSeq(s, k + 1, Len(s))
<1>1. Len(s) \in Nat /\ \A j \in k + 1 .. Len(s) : s[j] \in S
  BY LenProperties
<1>2. /\ t \in Seq(S)
      /\ Len(t) = IF k + 1 <= Len(s) THEN Len(s) - (k + 1) + 1 ELSE 0
      /\ \A j \in 1 .. Len(s) - (k + 1) + 1 : t[j] = s[(k + 1) + j - 1]
  BY <1>1, SubSeqProperties, k + 1 \in Int, Len(s) \in Int
<1>3. QED
  BY <1>1, <1>2

LEMMA MessagesType ==
    ASSUME EvalRunAssumption, NEW r \in Runs
    PROVE  /\ Messages(r) \in Seq(Entries)
           /\ Len(Messages(r)) = Size[r]
           /\ \A j \in 1 .. Size[r] : Messages(r)[j] = <<r, j>>
<1>1. Size[r] \in Nat
  BY DEF EvalRunAssumption
<1>2. Messages(r) \in [1 .. Size[r] -> Entries]
  BY EntryPairs DEF Messages
<1>3. Messages(r) \in Seq(Entries)
  <2>1. \E n \in Nat : Messages(r) \in [1 .. n -> Entries]
    BY <1>1, <1>2
  <2>2. Messages(r) \in UNION {[1 .. n -> Entries] : n \in Nat}
    BY <2>1
  <2>3. Seq(Entries) = UNION {[1 .. n -> Entries] : n \in Nat}
    BY SeqDef
  <2>4. QED
    BY <2>2, <2>3
<1>4. Len(Messages(r)) \in Nat /\ DOMAIN Messages(r) = 1 .. Len(Messages(r))
  BY <1>3, LenProperties
<1>5. DOMAIN Messages(r) = 1 .. Size[r]
  BY DEF Messages
<1>6. Len(Messages(r)) = Size[r]
  BY <1>1, <1>4, <1>5
<1>7. QED
  BY <1>3, <1>6 DEF Messages

(* What Publish does to the stream: it loses a prefix of what was there    *)
(* followed by the run's own messages.                                     *)
LEMMA PublishEffect ==
    ASSUME EvalRunAssumption, TypeOK, NEW r \in Runs, Publish(r)
    PROVE  \E k \in Nat :
             LET log == unread \o Messages(r)
             IN  /\ k <= Len(log)
                 /\ log \in Seq(Entries)
                 /\ Len(log) = Len(unread) + Size[r]
                 /\ \A j \in 1 .. Len(unread) : log[j] = unread[j]
                 /\ \A j \in 1 .. Size[r] : log[Len(unread) + j] = <<r, j>>
                 /\ unread' \in Seq(Entries)
                 /\ Len(unread') = Len(log) - k
                 /\ \A j \in 1 .. Len(unread') : unread'[j] = log[k + j]
                 /\ task' = [e \in Entries |->
                                IF \E j \in 1 .. k : log[j] = e THEN "evicted"
                                ELSE IF e[1] = r THEN "unread" ELSE task[e]]
<1> DEFINE log == unread \o Messages(r)
<1>1. /\ unread \in Seq(Entries)
      /\ Len(unread) \in Nat
      /\ Size[r] \in Nat
  BY LenProperties DEF TypeOK, EvalRunAssumption
<1>2. /\ log \in Seq(Entries)
      /\ Len(log) = Len(unread) + Size[r]
      /\ \A j \in 1 .. Len(unread) + Size[r] :
            log[j] = IF j <= Len(unread) THEN unread[j] ELSE Messages(r)[j - Len(unread)]
  <2>1. /\ Messages(r) \in Seq(Entries)
        /\ Len(Messages(r)) = Size[r]
    BY MessagesType
  <2>2. QED
    BY <1>1, <2>1, ConcatProperties, ZenonT(60)
<1>3. PICK k \in 0 .. Evictable(Len(log)) :
        /\ unread' = SubSeq(log, k + 1, Len(log))
        /\ task' = [e \in Entries |->
                        IF \E j \in 1 .. k : log[j] = e THEN "evicted"
                        ELSE IF e[1] = r THEN "unread" ELSE task[e]]
  BY DEF Publish
<1>4. k \in 0 .. Len(log)
  BY <1>1, <1>2, <1>3 DEF Evictable, EvalRunAssumption
<1>5. /\ unread' \in Seq(Entries)
      /\ Len(unread') = Len(log) - k
      /\ \A j \in 1 .. Len(unread') : unread'[j] = log[k + j]
  BY <1>2, <1>3, <1>4, DropPrefix, ZenonT(60)
<1>6. \A j \in 1 .. Size[r] : log[Len(unread) + j] = <<r, j>>
  BY <1>1, <1>2, MessagesType
<1>7. \A j \in 1 .. Len(unread) : log[j] = unread[j]
  BY <1>1, <1>2
<1>8. k \in Nat /\ k <= Len(log)
  BY <1>1, <1>2, <1>4
<1>9. QED
  BY <1>2, <1>3, <1>5, <1>6, <1>7, <1>8

LEMMA PublishType ==
    ASSUME EvalRunAssumption, TypeOK, NEW r \in Runs, Publish(r)
    PROVE  unread' \in Seq(Entries) /\ task' \in [Entries -> TaskState]
<1>1. PICK k \in Nat :
          /\ unread' \in Seq(Entries)
          /\ task' = [e \in Entries |->
                         IF \E j \in 1 .. k : (unread \o Messages(r))[j] = e THEN "evicted"
                         ELSE IF e[1] = r THEN "unread" ELSE task[e]]
  BY PublishEffect, ZenonT(60)
<1>2. QED
  BY <1>1 DEF TypeOK, TaskState

(* What a read takes off the stream.                                       *)
LEMMA ReadCountRange ==
    ASSUME EvalRunAssumption, TypeOK, unread # <<>>
    PROVE  /\ ReadCount \in 1 .. Len(unread)
           /\ Len(unread) \in Nat
           /\ ReadCount <= Concurrency
<1>1. Len(unread) \in Nat \ {0}
  BY EmptySeq DEF TypeOK
<1>2. QED
  BY <1>1 DEF ReadCount, EvalRunAssumption

LEMMA DeliverEffect ==
    ASSUME EvalRunAssumption, TypeOK, NEW state \in TaskState, Deliver(state)
    PROVE  /\ Delivery \subseteq Entries
           /\ unread' \in Seq(Entries)
           /\ Len(unread') = Len(unread) - ReadCount
           /\ \A j \in 1 .. Len(unread') : unread'[j] = unread[ReadCount + j]
           /\ pel' \subseteq Entries
           /\ task' \in [Entries -> TaskState]
<1>1. ReadCount \in 1 .. Len(unread) /\ Len(unread) \in Nat
  BY ReadCountRange DEF Deliver
<1>2. Delivery \subseteq Entries
  BY <1>1, ElementOfSeq DEF Delivery, TypeOK
<1>3. /\ unread' \in Seq(Entries)
      /\ Len(unread') = Len(unread) - ReadCount
      /\ \A j \in 1 .. Len(unread') : unread'[j] = unread[ReadCount + j]
  BY <1>1, DropPrefix, ReadCount \in 0 .. Len(unread) DEF Deliver, TypeOK
<1>4. QED
  BY <1>2, <1>3 DEF Deliver, TypeOK

-----------------------------------------------------------------------------
(* Type correctness                                                        *)

(* A handler's step moves its own entry to another state of the table.     *)
LEMMA GotoType ==
    ASSUME TypeOK, NEW e \in Entries, NEW state \in TaskState, Goto(e, state)
    PROVE  task' \in [Entries -> TaskState]
BY DEF TypeOK, Goto

LEMMA BumpRowType ==
    ASSUME EvalRunAssumption, TypeOK, NEW e \in Entries, BumpRow(e)
    PROVE  /\ completed' \in [Runs -> Nat]
           /\ errors' \in [Runs -> Nat]
           /\ status' \in [Runs -> Statuses]
<1>1. e[1] \in Runs
  BY EntryPairs
<1>2. ErrInc(e) \in Nat /\ StatusAfter(e[1]) \in Statuses
  BY DEF ErrInc, StatusAfter, Statuses
<1>3. QED
  BY <1>1, <1>2 DEF TypeOK, BumpRow

LEMMA FaultType == TypeOK /\ (Fault \/ NoFault) => faults' \in Nat
BY DEF TypeOK, Fault, NoFault

(* Every variable keeps its type, in particular the stream stays a         *)
(* sequence of entries whatever prefix a trim or a read cuts off.          *)
LEMMA TypeStep == TypeOK /\ [Next]_vars => TypeOK'
<1> SUFFICES ASSUME TypeOK, [Next]_vars
             PROVE  TypeOK'
  OBVIOUS
<1> USE EvalRunAssumption
<1>1. ASSUME NEW r \in Runs, CreateRun(r) \/ CommitFails(r)
      PROVE  TypeOK'
  <2>1. faults' \in Nat
    BY <1>1, FaultType DEF CreateRun, CommitFails
  <2>2. request' \in [Runs -> RequestStates] /\ status' \in [Runs -> Statuses]
    BY <1>1 DEF CreateRun, CommitFails, TypeOK, RequestStates, Statuses
  <2>3. QED
    BY <1>1, <2>1, <2>2 DEF CreateRun, CommitFails, TypeOK, streamVars, loopVars
<1>2. ASSUME NEW r \in Runs, FanOut(r) \/ FanOutFails(r)
      PROVE  TypeOK'
  <2>1. faults' \in Nat
    BY <1>2, FaultType DEF FanOut, FanOutFails
  <2>2. request' \in [Runs -> RequestStates]
    BY <1>2 DEF FanOut, FanOutFails, TypeOK, RequestStates
  <2>3. unread' \in Seq(Entries) /\ task' \in [Entries -> TaskState]
    BY <1>2, PublishType DEF FanOut, FanOutFails, TypeOK
  <2>4. QED
    BY <1>2, <2>1, <2>2, <2>3 DEF FanOut, FanOutFails, TypeOK, rowVars, loopVars
<1>3. ASSUME NEW w \in Workers,
             StartWorker(w) \/ EnsureGroup(w) \/ EndBatch(w) \/ Stop(w) \/ ExitIdle(w)
      PROVE  TypeOK'
  <2>1. faults' \in Nat
    BY <1>3, FaultType DEF StartWorker, EnsureGroup, EndBatch, Stop, ExitIdle
  <2>2. /\ worker' \in [Workers -> WorkerStates]
        /\ running' \in [Workers -> BOOLEAN]
        /\ batch' \in [Workers -> SUBSET Entries]
    BY <1>3 DEF StartWorker, EnsureGroup, EndBatch, Stop, ExitIdle, LoopTop, TypeOK,
                WorkerStates
  <2>3. unread' \in Seq(Entries) /\ group' \in BOOLEAN /\ pel' \subseteq Entries
    BY <1>3 DEF StartWorker, EnsureGroup, EndBatch, Stop, ExitIdle, GroupStart, TypeOK,
                streamVars
  <2>4. QED
    BY <1>3, <2>1, <2>2, <2>3
    DEF StartWorker, EnsureGroup, EndBatch, Stop, ExitIdle, TypeOK, apiVars
<1>4. ASSUME NEW w \in Workers, ReadBatch(w)
      PROVE  TypeOK'
  <2>1. "loading" \in TaskState
    BY DEF TaskState, Active
  <2>2. /\ Delivery \subseteq Entries
        /\ unread' \in Seq(Entries)
        /\ pel' \subseteq Entries
        /\ task' \in [Entries -> TaskState]
    BY <1>4, <2>1, DeliverEffect DEF ReadBatch
  <2>3. /\ worker' \in [Workers -> WorkerStates]
        /\ batch' \in [Workers -> SUBSET Entries]
    BY <1>4, <2>2 DEF ReadBatch, TypeOK, WorkerStates
  <2>4. QED
    BY <1>4, <2>2, <2>3, FaultType DEF ReadBatch, TypeOK, apiVars
<1>5. ASSUME NEW w \in Workers, ReadFails(w)
      PROVE  TypeOK'
  <2>1. "stranded" \in TaskState
    BY DEF TaskState, Settled
  <2>2. /\ unread' \in Seq(Entries)
        /\ pel' \subseteq Entries
        /\ task' \in [Entries -> TaskState]
    BY <1>5, <2>1, DeliverEffect DEF ReadFails, TypeOK
  <2>3. worker' \in [Workers -> WorkerStates]
    BY <1>5 DEF ReadFails, LoopTop, TypeOK, WorkerStates
  <2>4. QED
    BY <1>5, <2>2, <2>3, FaultType DEF ReadFails, TypeOK, apiVars
<1>6. ASSUME NEW w \in Workers, Crash(w)
      PROVE  TypeOK'
  <2>1. \A e \in Entries : Killed(task[e]) \in TaskState
    BY DEF Killed, TypeOK, TaskState, Active, Settled
  <2>2. task' \in [Entries -> TaskState]
    BY <1>6, <2>1 DEF Crash, TypeOK
  <2>3. /\ worker' \in [Workers -> WorkerStates]
        /\ running' \in [Workers -> BOOLEAN]
        /\ batch' \in [Workers -> SUBSET Entries]
    BY <1>6 DEF Crash, TypeOK, WorkerStates
  <2>4. QED
    BY <1>6, <2>2, <2>3, FaultType DEF Crash, TypeOK, apiVars, streamVars
<1>7. ASSUME NEW e \in Entries,
             LoadContext(e) \/ LoadFails(e) \/ Judge(e) \/ WriteScore(e) \/ WriteFails(e)
      PROVE  TypeOK'
  <2>1. faults' \in Nat
    BY <1>7, FaultType DEF LoadContext, LoadFails, Judge, WriteScore, WriteFails
  <2>2. task' \in [Entries -> TaskState]
    BY <1>7 DEF LoadContext, LoadFails, Judge, WriteScore, WriteFails, Loaded, Goto,
                TypeOK, TaskState, Active, Settled
  <2>3. verdict' \in [Entries -> Verdicts]
    BY <1>7 DEF LoadContext, LoadFails, Judge, WriteScore, WriteFails, TypeOK, Verdicts
  <2>a. scores' \in {scores, scores \union {<<e, verdict[e]>>}}
    BY <1>7 DEF LoadContext, LoadFails, Judge, WriteScore, WriteFails
  <2>b. scores' \subseteq Entries \X Verdicts
    BY <2>a DEF TypeOK
  <2>4. QED
    BY <1>7, <2>1, <2>2, <2>3, <2>b
    DEF LoadContext, LoadFails, Judge, WriteScore, WriteFails, TypeOK, apiVars,
        streamVars, loopVars
<1>8. ASSUME NEW e \in Entries, BumpProgress(e) \/ BumpFails(e)
      PROVE  TypeOK'
  <2>1. faults' \in Nat
    BY <1>8, FaultType DEF BumpProgress, BumpFails
  <2>2. task' \in [Entries -> TaskState]
    BY <1>8 DEF BumpProgress, BumpFails, Goto, TypeOK, TaskState, Active, Settled
  <2>3. /\ completed' \in [Runs -> Nat]
        /\ errors' \in [Runs -> Nat]
        /\ status' \in [Runs -> Statuses]
    BY <1>8, BumpRowType DEF BumpProgress, BumpFails, rowVars, TypeOK
  <2>4. QED
    BY <1>8, <2>1, <2>2, <2>3
    DEF BumpProgress, BumpFails, TypeOK, streamVars, loopVars
<1>9. ASSUME NEW e \in Entries, Ack(e) \/ AckFails(e)
      PROVE  TypeOK'
  <2>1. faults' \in Nat
    BY <1>9, FaultType DEF Ack, AckFails
  <2>2. task' \in [Entries -> TaskState]
    BY <1>9 DEF Ack, AckFails, Goto, TypeOK, TaskState, Settled
  <2>3. QED
    BY <1>9, <2>1, <2>2 DEF Ack, AckFails, TypeOK, apiVars, loopVars
<1>10. CASE UNCHANGED vars
  BY <1>10 DEF TypeOK, vars
<1>11. QED
  BY <1>1, <1>2, <1>3, <1>4, <1>5, <1>6, <1>7, <1>8, <1>9, <1>10
  DEF Next, ApiStep, LoopStep, HandleStep, HandleFails

(* Initially each variable has its type.                                   *)
LEMMA InitType == ASSUME Init PROVE TypeOK
<1>1. unread \in Seq(Entries)
  BY EmptySeq DEF Init
<1>2. request \in [Runs -> RequestStates] /\ status \in [Runs -> Statuses]
  BY DEF Init, RequestStates, Statuses
<1>3. task \in [Entries -> TaskState] /\ verdict \in [Entries -> Verdicts]
  BY DEF Init, TaskState, Verdicts
<1>4. /\ worker \in [Workers -> WorkerStates]
      /\ running \in [Workers -> BOOLEAN]
      /\ batch \in [Workers -> SUBSET Entries]
  BY DEF Init, WorkerStates
<1>5. /\ completed \in [Runs -> Nat]
      /\ errors \in [Runs -> Nat]
      /\ group \in BOOLEAN
      /\ pel \subseteq Entries
      /\ scores \subseteq Entries \X Verdicts
      /\ faults \in Nat
  BY DEF Init
<1>6. QED
  BY <1>1, <1>2, <1>3, <1>4, <1>5 DEF TypeOK

(* In every reachable state of the engine each variable has its type.      *)
THEOREM TypeCorrect == Spec => []TypeOK
BY InitType, TypeStep, PTL DEF Spec

-----------------------------------------------------------------------------
(* The inductive invariant                                                 *)

CountedStates == {"acking", "finished"}

\* Nothing is in the stream for a run that is not published yet, and there
\* is a row from the commit on.
RequestInv ==
    \A r \in Runs :
        /\ request[r] \in {"idle", "committed"} =>
               \A i \in 1 .. Size[r] : task[<<r, i>>] = "absent"
        /\ request[r] \in {"idle", "rejected"} => status[r] = "none"
        /\ request[r] = "committed" => status[r] # "none"

\* Whatever is in the stream belongs to a committed run.
HasRow == \A e \in Entries : task[e] # "absent" => status[e[1]] # "none"

\* What is counted is in ClickHouse, as the verdict it is counted with.
RowWritten ==
    \A e \in Entries :
        task[e] \in {"bumping"} \union CountedStates => <<e, verdict[e]>> \in scores

\* An entry whose handler has not judged it has no row, and one with an
\* error row is not counted as a success.
RowsAgree ==
    \A e \in Entries :
        /\ task[e] \in {"absent", "unread", "evicted", "loading", "judging"} =>
               \A v \in Verdicts : <<e, v>> \notin scores
        /\ verdict[e] = "ok" => /\ <<e, "flagged">> \notin scores
                                /\ <<e, "error">> \notin scores

IInv ==
    /\ TypeOK
    /\ CountersExact
    /\ StatusMatchesCount
    /\ DeliveredOnce
    /\ UncountedStaysPending
    /\ RequestInv
    /\ HasRow
    /\ RowWritten
    /\ RowsAgree

(* The counted records of a run are among its records.                     *)
LEMMA CountedFinite ==
    ASSUME EvalRunAssumption, NEW r \in Runs
    PROVE  /\ IsFiniteSet(1 .. Size[r]) /\ Cardinality(1 .. Size[r]) = Size[r]
           /\ Counted(r) \subseteq 1 .. Size[r]
           /\ IsFiniteSet(Counted(r))
           /\ Cardinality(Counted(r)) \in Nat
           /\ Cardinality(Counted(r)) <= Size[r]
           /\ Cardinality(Counted(r)) = Size[r] => Counted(r) = 1 .. Size[r]
           /\ IsFiniteSet(Flagged(r))
<1>1. Size[r] \in Nat
  BY DEF EvalRunAssumption
<1>2. IsFiniteSet(1 .. Size[r]) /\ Cardinality(1 .. Size[r]) = Size[r]
  BY <1>1, FS_Interval, 1 \in Int, Size[r] \in Int
<1>3. Counted(r) \in SUBSET (1 .. Size[r]) /\ Flagged(r) \in SUBSET Counted(r)
  BY DEF Counted, Flagged
<1>4. /\ IsFiniteSet(Counted(r))
      /\ Cardinality(Counted(r)) <= Size[r]
      /\ Cardinality(Counted(r)) = Size[r] => Counted(r) = 1 .. Size[r]
  BY <1>2, <1>3, FS_Subset
<1>5. Cardinality(Counted(r)) \in Nat
  BY <1>4, FS_CardinalityType
<1>6. IsFiniteSet(Flagged(r))
  BY <1>3, <1>4, FS_Subset
<1>7. QED
  BY <1>2, <1>3, <1>4, <1>5, <1>6

\* A step that counts nothing and forgets nothing.
SameCounts ==
    /\ UNCHANGED <<completed, errors>>
    /\ \A e \in Entries : /\ task'[e] \in CountedStates <=> task[e] \in CountedStates
                          /\ task[e] \in CountedStates => verdict'[e] = verdict[e]

LEMMA SameCountsKeepsCounters ==
    ASSUME CountersExact, SameCounts
    PROVE  /\ CountersExact'
           /\ \A r \in Runs : Counted(r)' = Counted(r) /\ Flagged(r)' = Flagged(r)
<1>1. \A r \in Runs : Counted(r)' = Counted(r) /\ Flagged(r)' = Flagged(r)
  BY EntryPairs DEF SameCounts, Counted, Flagged, CountedStates
<1>2. QED
  BY <1>1 DEF CountersExact, SameCounts

\* A step that neither adds to the stream nor takes from it.
SameStream ==
    /\ UNCHANGED unread
    /\ \A e \in Entries : task'[e] = "unread" <=> task[e] = "unread"

LEMMA SameStreamKeepsDelivery == DeliveredOnce /\ SameStream => DeliveredOnce'
BY DEF DeliveredOnce, SameStream

(* Publishing an unpublished run keeps the stream free of duplicates, and  *)
(* moves messages only into it or, by a trim, out of it.                   *)
LEMMA PublishStream ==
    ASSUME EvalRunAssumption, TypeOK, DeliveredOnce, NEW r \in Runs, Publish(r),
           \A i \in 1 .. Size[r] : task[<<r, i>>] = "absent"
    PROVE  /\ DeliveredOnce'
           /\ \A e \in Entries :
                 \/ task'[e] = task[e]
                 \/ /\ task'[e] \in {"unread", "evicted"}
                    /\ task[e] = "unread" \/ e[1] = r
<1> DEFINE n == Len(unread)
           log == unread \o Messages(r)
<1>1. PICK k \in Nat :
          /\ k <= Len(log)
          /\ Len(log) = n + Size[r]
          /\ \A j \in 1 .. n : log[j] = unread[j]
          /\ \A j \in 1 .. Size[r] : log[n + j] = <<r, j>>
          /\ unread' \in Seq(Entries)
          /\ Len(unread') = Len(log) - k
          /\ \A j \in 1 .. Len(unread') : unread'[j] = log[k + j]
          /\ task' = [e \in Entries |->
                         IF \E j \in 1 .. k : log[j] = e THEN "evicted"
                         ELSE IF e[1] = r THEN "unread" ELSE task[e]]
  BY PublishEffect, ZenonT(60)
<1>2. n \in Nat /\ Size[r] \in Nat /\ \A j \in 1 .. n : unread[j] \in Entries
  BY LenProperties, ElementOfSeq DEF TypeOK, EvalRunAssumption
<1> HIDE DEF log, n
<1>a. \A j \in 1 .. n : task[unread[j]] = "unread"
  BY <1>2 DEF DeliveredOnce, n
<1>b. \A j \in 1 .. Len(log) : \/ j \in 1 .. n /\ log[j] = unread[j]
                               \/ j - n \in 1 .. Size[r] /\ log[j] = <<r, j - n>>
  <2> TAKE j \in 1 .. Len(log)
  <2>1. CASE j <= n
    BY <2>1, <1>1, <1>2, SMTT(60)
  <2>2. CASE j > n
    <3>1. j - n \in 1 .. Size[r] /\ j = n + (j - n)
      BY <2>2, <1>1, <1>2
    <3>2. QED
      BY <3>1, <1>1
  <2>3. QED
    BY <2>1, <2>2, <1>2
<1>c. \A a, b \in 1 .. n : unread[a] = unread[b] => a = b
  BY DEF DeliveredOnce, n
<1>3. \A a, b \in 1 .. Len(log) : log[a] = log[b] => a = b
  <2> SUFFICES ASSUME NEW a \in 1 .. Len(log), NEW b \in 1 .. Len(log), log[a] = log[b]
               PROVE  a = b
    OBVIOUS
  <2>1. CASE a \in 1 .. n /\ log[a] = unread[a]
    <3>1. task[log[a]] = "unread"
      BY <2>1, <1>a
    <3>2. b \in 1 .. n /\ log[b] = unread[b]
      BY <3>1, <1>b
    <3>3. QED
      BY <2>1, <3>2, <1>c
  <2>2. CASE a - n \in 1 .. Size[r] /\ log[a] = <<r, a - n>>
    <3>1. task[log[a]] = "absent"
      BY <2>2
    <3>2. b - n \in 1 .. Size[r] /\ log[b] = <<r, b - n>>
      BY <3>1, <1>a, <1>b
    <3>a. <<r, a - n>> = <<r, b - n>>
      BY <2>2, <3>2
    <3>3. a - n = b - n
      BY <3>a
    <3>4. QED
      BY <3>3, <1>1, <1>2
  <2>3. QED
    BY <2>1, <2>2, <1>b
<1>4. \A e \in Entries :
         (task[e] = "unread" \/ e[1] = r) <=> \E j \in 1 .. Len(log) : log[j] = e
  <2> TAKE e \in Entries
  <2>1. ASSUME task[e] = "unread" PROVE \E j \in 1 .. Len(log) : log[j] = e
    <3>1. PICK j \in 1 .. n : unread[j] = e
      BY <2>1 DEF DeliveredOnce, n
    <3>2. QED
      BY <3>1, <1>1, <1>2
  <2>2. ASSUME e[1] = r PROVE \E j \in 1 .. Len(log) : log[j] = e
    <3>1. e[2] \in 1 .. Size[r] /\ e = <<r, e[2]>>
      BY <2>2, EntryPairs
    <3>2. PICK m \in 1 .. Size[r] : e = <<r, m>>
      BY <3>1
    <3>3. log[n + m] = <<r, m>> /\ n + m \in 1 .. Len(log)
      BY <3>2, <1>1, <1>2
    <3>4. QED
      BY <3>2, <3>3
  <2>3. ASSUME NEW j \in 1 .. Len(log), log[j] = e PROVE task[e] = "unread" \/ e[1] = r
    BY <2>3, <1>a, <1>b
  <2>4. QED
    BY <2>1, <2>2, <2>3
<1>5. \A e \in Entries : task'[e] = "unread" <=> \E j \in 1 .. Len(unread') : unread'[j] = e
  <2> TAKE e \in Entries
  <2>1. ASSUME task'[e] = "unread" PROVE \E j \in 1 .. Len(unread') : unread'[j] = e
    <3>1. (task[e] = "unread" \/ e[1] = r) /\ ~ \E j \in 1 .. k : log[j] = e
      BY <2>1, <1>1
    <3>2. PICK m \in 1 .. Len(log) : log[m] = e
      BY <3>1, <1>4
    <3>3. m - k \in 1 .. Len(unread') /\ k + (m - k) = m
      BY <3>1, <3>2, <1>1, <1>2
    <3>4. QED
      BY <3>2, <3>3, <1>1
  <2>2. ASSUME NEW j \in 1 .. Len(unread'), unread'[j] = e PROVE task'[e] = "unread"
    <3>1. log[k + j] = e /\ k + j \in 1 .. Len(log)
      BY <2>2, <1>1, <1>2
    <3>2. ~ \E m \in 1 .. k : log[m] = e
      BY <3>1, <1>1, <1>2, <1>3
    <3>3. task[e] = "unread" \/ e[1] = r
      BY <3>1, <1>4
    <3>4. QED
      BY <3>2, <3>3, <1>1
  <2>3. QED
    BY <2>1, <2>2
<1>6. \A a, b \in 1 .. Len(unread') : unread'[a] = unread'[b] => a = b
  <2> SUFFICES ASSUME NEW a \in 1 .. Len(unread'), NEW b \in 1 .. Len(unread'),
                      unread'[a] = unread'[b]
               PROVE  a = b
    OBVIOUS
  <2>1. k + a \in 1 .. Len(log) /\ k + b \in 1 .. Len(log) /\ log[k + a] = log[k + b]
    BY <1>1, <1>2
  <2>2. k + a = k + b
    BY <2>1, <1>3
  <2>3. QED
    BY <2>2, <1>1
<1>7. \A e \in Entries :
         \/ task'[e] = task[e]
         \/ /\ task'[e] \in {"unread", "evicted"}
            /\ task[e] = "unread" \/ e[1] = r
  <2> TAKE e \in Entries
  <2>1. CASE \E j \in 1 .. k : log[j] = e
    <3>1. task'[e] = "evicted"
      BY <2>1, <1>1
    <3>2. \E j \in 1 .. Len(log) : log[j] = e
      BY <2>1, <1>1, <1>2
    <3>3. QED
      BY <3>1, <3>2, <1>4
  <2>2. CASE ~ \E j \in 1 .. k : log[j] = e
    BY <2>2, <1>1
  <2>3. QED
    BY <2>1, <2>2
<1>8. QED
  BY <1>5, <1>6, <1>7 DEF DeliveredOnce

(* A read takes messages off the stream that were unread, and leaves every *)
(* other one there once.                                                   *)
LEMMA DeliverStream ==
    ASSUME EvalRunAssumption, TypeOK, DeliveredOnce,
           NEW state \in TaskState \ {"unread"}, Deliver(state)
    PROVE  /\ DeliveredOnce'
           /\ \A e \in Entries :
                 \/ e \notin Delivery /\ task'[e] = task[e]
                 \/ e \in Delivery /\ task[e] = "unread" /\ task'[e] = state /\ e \in pel'
<1> DEFINE n == Len(unread)
<1>1. ReadCount \in 1 .. n /\ n \in Nat
  BY ReadCountRange DEF Deliver
<1>2. /\ Delivery \subseteq Entries
      /\ unread' \in Seq(Entries)
      /\ Len(unread') = n - ReadCount
      /\ \A j \in 1 .. Len(unread') : unread'[j] = unread[ReadCount + j]
  BY DeliverEffect
<1>3. \A e \in Entries : task'[e] = IF e \in Delivery THEN state ELSE task[e]
  BY DEF Deliver
<1> HIDE DEF n
<1>a. \A a, b \in 1 .. n : unread[a] = unread[b] => a = b
  BY DEF DeliveredOnce, n
<1>b. \A e \in Entries : task[e] = "unread" <=> \E j \in 1 .. n : unread[j] = e
  BY DEF DeliveredOnce, n
<1>4. \A e \in Delivery : task[e] = "unread" /\ e \in pel'
  BY <1>1, <1>2, <1>b DEF Delivery, Deliver
<1>5. \A a, b \in 1 .. Len(unread') : unread'[a] = unread'[b] => a = b
  <2> SUFFICES ASSUME NEW a \in 1 .. Len(unread'), NEW b \in 1 .. Len(unread'),
                      unread'[a] = unread'[b]
               PROVE  a = b
    OBVIOUS
  <2>1. /\ ReadCount + a \in 1 .. n
        /\ ReadCount + b \in 1 .. n
        /\ unread[ReadCount + a] = unread[ReadCount + b]
    BY <1>1, <1>2
  <2>2. ReadCount + a = ReadCount + b
    BY <2>1, <1>a
  <2>3. QED
    BY <2>2, <1>1
<1>6. \A e \in Entries : task'[e] = "unread" <=> \E j \in 1 .. Len(unread') : unread'[j] = e
  <2> TAKE e \in Entries
  <2>1. ASSUME task'[e] = "unread" PROVE \E j \in 1 .. Len(unread') : unread'[j] = e
    <3>1. e \notin Delivery /\ task[e] = "unread"
      BY <2>1, <1>3
    <3>2. PICK m \in 1 .. n : unread[m] = e
      BY <3>1, <1>b
    <3>3. m \notin 1 .. ReadCount
      BY <3>1, <3>2 DEF Delivery
    <3>4. m - ReadCount \in 1 .. Len(unread') /\ ReadCount + (m - ReadCount) = m
      BY <3>2, <3>3, <1>1, <1>2
    <3>5. QED
      BY <3>2, <3>4, <1>2
  <2>2. ASSUME NEW j \in 1 .. Len(unread'), unread'[j] = e PROVE task'[e] = "unread"
    <3>1. unread[ReadCount + j] = e /\ ReadCount + j \in 1 .. n
      BY <2>2, <1>1, <1>2
    <3>2. task[e] = "unread"
      BY <3>1, <1>b
    <3>3. e \notin Delivery
      BY <3>1, <1>a, <1>1 DEF Delivery
    <3>4. QED
      BY <3>2, <3>3, <1>3
  <2>3. QED
    BY <2>1, <2>2
<1>7. QED
  BY <1>3, <1>4, <1>5, <1>6 DEF DeliveredOnce

(* One step that changes what the loop of a worker or nothing at all is    *)
(* doing, and leaves messages, rows and requests alone.                    *)
LEMMA LoopOnly ==
    ASSUME IInv, TypeOK',
           UNCHANGED <<request, status, completed, errors, unread, pel, task, verdict, scores>>
    PROVE  IInv'
<1>1. SameCounts /\ SameStream
  BY DEF SameCounts, SameStream
<1>2. CountersExact' /\ DeliveredOnce' /\ \A r \in Runs : Counted(r)' = Counted(r)
  BY <1>1, SameCountsKeepsCounters, SameStreamKeepsDelivery DEF IInv
<1>3. StatusMatchesCount'
  BY DEF IInv, StatusMatchesCount
<1>4. UncountedStaysPending'
  BY <1>2, EntryPairs DEF IInv, UncountedStaysPending
<1>5. RequestInv' /\ HasRow' /\ RowWritten' /\ RowsAgree'
  BY DEF IInv, RequestInv, HasRow, RowWritten, RowsAgree
<1>6. QED
  BY <1>2, <1>3, <1>4, <1>5 DEF IInv

(* One step of the handler of e that does not count it: a move between     *)
(* states of which neither is counted, or both are.                        *)
LEMMA HandlerOnly ==
    ASSUME IInv, TypeOK', NEW e \in Entries,
           task[e] \in Active, task'[e] \in Active \union Settled,
           task'[e] \in CountedStates <=> task[e] \in CountedStates,
           task[e] \in CountedStates => verdict'[e] = verdict[e],
           \A f \in Entries \ {e} : task'[f] = task[f] /\ verdict'[f] = verdict[f],
           UNCHANGED <<request, status, completed, errors, unread>>,
           pel' = pel \/ (task'[e] \in CountedStates /\ pel' = pel \ {e})
    PROVE  /\ CountersExact'
           /\ DeliveredOnce'
           /\ StatusMatchesCount'
           /\ UncountedStaysPending'
           /\ RequestInv'
           /\ HasRow'
<1> USE DEF Active, Settled, CountedStates
<1>1. SameCounts
  BY DEF SameCounts
<1>2. CountersExact' /\ \A r \in Runs : Counted(r)' = Counted(r)
  BY <1>1, SameCountsKeepsCounters DEF IInv
<1>3. \A f \in Entries : task'[f] = "unread" <=> task[f] = "unread"
  OBVIOUS
<1>4. DeliveredOnce'
  BY <1>3, SameStreamKeepsDelivery DEF IInv, SameStream
<1>5. StatusMatchesCount'
  BY DEF IInv, StatusMatchesCount
<1>6. UncountedStaysPending'
  <2>1. \A f \in Entries : f[2] \in Counted(f[1]) <=> task[f] \in CountedStates
    BY EntryPairs DEF Counted
  <2>2. SUFFICES ASSUME NEW f \in Entries, task'[f] \in Active \union Settled,
                        f[2] \notin Counted(f[1])'
                 PROVE  f \in pel'
    BY DEF UncountedStaysPending
  <2>3. f[2] \notin Counted(f[1]) /\ task[f] \notin CountedStates
    BY <2>1, <2>2, <1>2, EntryPairs
  <2>4. f \in pel
    BY <2>2, <2>3 DEF IInv, UncountedStaysPending
  <2>5. QED
    BY <2>3, <2>4
<1>7. RequestInv'
  <2>1. \A f \in Entries : task[f] = "absent" => task'[f] = "absent"
    OBVIOUS
  <2>2. QED
    BY <2>1, EntryPairs DEF IInv, RequestInv
<1>8. HasRow'
  BY DEF IInv, HasRow
<1>9. QED
  BY <1>2, <1>4, <1>5, <1>6, <1>7, <1>8

(* Counting one more record: the counters grow with the sets they stand    *)
(* for, and the status becomes "done" with the last one only.              *)
LEMMA BumpCounts ==
    ASSUME EvalRunAssumption, IInv, NEW e \in Entries,
           task[e] = "bumping", BumpRow(e), UNCHANGED verdict,
           \E state \in CountedStates : Goto(e, state)
    PROVE  /\ CountersExact'
           /\ StatusMatchesCount'
           /\ Counted(e[1])' = Counted(e[1]) \union {e[2]}
           /\ e[2] \in (1 .. Size[e[1]]) \ Counted(e[1])
           /\ Flagged(e[1])' = IF verdict[e] = "ok" THEN Flagged(e[1])
                                                    ELSE Flagged(e[1]) \union {e[2]}
           /\ \A r \in Runs \ {e[1]} : Counted(r)' = Counted(r) /\ Flagged(r)' = Flagged(r)
           /\ status[e[1]] \in {"queued", "running"}
           /\ status'[e[1]] = IF Counted(e[1])' = 1 .. Size[e[1]] THEN "done" ELSE "running"
<1> DEFINE r == e[1]
           i == e[2]
<1> USE DEF CountedStates
<1>1. r \in Runs /\ i \in 1 .. Size[r] /\ e = <<r, i>> /\ Size[r] \in Nat
  BY EntryPairs DEF EvalRunAssumption
<1>2. \A f \in Entries : task'[f] \in CountedStates <=> f = e \/ task[f] \in CountedStates
  BY DEF Goto, IInv, TypeOK
<1>3. i \notin Counted(r)
  BY <1>1 DEF Counted
<1>4. Counted(r)' = Counted(r) \union {i}
  BY <1>1, <1>2, EntryPairs DEF Counted
<1>5. Flagged(r)' = IF verdict[e] = "ok" THEN Flagged(r) ELSE Flagged(r) \union {i}
  BY <1>1, <1>4 DEF Flagged
<1>6. \A q \in Runs \ {r} : Counted(q)' = Counted(q) /\ Flagged(q)' = Flagged(q)
  <2> TAKE q \in Runs \ {r}
  <2>1. \A j \in 1 .. Size[q] : task'[<<q, j>>] \in CountedStates <=> task[<<q, j>>] \in CountedStates
    BY <1>1, <1>2, EntryPairs
  <2>2. Counted(q)' = Counted(q)
    BY <2>1 DEF Counted
  <2>3. QED
    BY <2>2 DEF Flagged
<1>7. /\ completed' = [completed EXCEPT ![r] = @ + 1]
      /\ errors' = [errors EXCEPT ![r] = @ + ErrInc(e)]
      /\ status' = [status EXCEPT ![r] = StatusAfter(r)]
  BY DEF BumpRow
<1>8. /\ completed[r] = Cardinality(Counted(r)) /\ completed[r] \in Nat
      /\ errors[r] = Cardinality(Flagged(r)) /\ errors[r] \in Nat
  BY <1>1 DEF IInv, CountersExact, TypeOK
<1>9. Cardinality(Counted(r)') = Cardinality(Counted(r)) + 1
  BY <1>1, <1>3, <1>4, CountedFinite, FS_AddElement
<1>10. Cardinality(Flagged(r)') = Cardinality(Flagged(r)) + ErrInc(e)
  <2>1. i \notin Flagged(r)
    BY <1>3 DEF Flagged
  <2>2. IsFiniteSet(Flagged(r))
    BY <1>1, CountedFinite
  <2>3. CASE verdict[e] = "ok"
    BY <2>3, <1>5, <1>8 DEF ErrInc
  <2>4. CASE verdict[e] # "ok"
    <3>1. Cardinality(Flagged(r) \union {i}) = Cardinality(Flagged(r)) + 1
      BY <2>1, <2>2, FS_AddElement
    <3>2. QED
      BY <2>4, <3>1, <1>5 DEF ErrInc
  <2>5. QED
    BY <2>3, <2>4
<1>11. CountersExact'
  <2> SUFFICES ASSUME NEW q \in Runs
               PROVE  completed'[q] = Cardinality(Counted(q)') /\ errors'[q] = Cardinality(Flagged(q)')
    BY DEF CountersExact
  <2>1. CASE q = r
    BY <2>1, <1>1, <1>7, <1>8, <1>9, <1>10 DEF IInv, TypeOK
  <2>2. CASE q # r
    BY <2>2, <1>1, <1>6, <1>7 DEF IInv, TypeOK, CountersExact
  <2>3. QED
    BY <2>1, <2>2
<1>12. /\ Counted(r)' \in SUBSET (1 .. Size[r])
       /\ IsFiniteSet(1 .. Size[r]) /\ Cardinality(1 .. Size[r]) = Size[r]
  BY <1>1, <1>4, CountedFinite
<1>13. /\ Cardinality(Counted(r)') <= Size[r]
       /\ Cardinality(Counted(r)') = Size[r] => Counted(r)' = 1 .. Size[r]
  BY <1>12, FS_Subset
<1>14. completed[r] + 1 = Cardinality(Counted(r)')
  BY <1>8, <1>9
<1>15. completed[r] + 1 <= Size[r]
  BY <1>13, <1>14
<1>16. status'[r] = StatusAfter(r)
  BY <1>1, <1>7 DEF IInv, TypeOK
<1>17. status[r] \in {"queued", "running"}
  <2>1. status[r] # "none"
    BY <1>1 DEF IInv, HasRow
  <2>2. status[r] = "done" => completed[r] = Size[r]
    BY <1>1 DEF IInv, StatusMatchesCount
  <2>3. QED
    BY <2>1, <2>2, <1>1, <1>8, <1>15 DEF IInv, TypeOK, Statuses
<1>18. status'[r] = IF Counted(r)' = 1 .. Size[r] THEN "done" ELSE "running"
  <2>1. Counted(r)' = 1 .. Size[r] <=> completed[r] + 1 = Size[r]
    BY <1>12, <1>13, <1>14
  <2>2. QED
    BY <2>1, <1>1, <1>8, <1>15, <1>16 DEF StatusAfter
<1>19. StatusMatchesCount'
  <2> SUFFICES ASSUME NEW q \in Runs
               PROVE  /\ status'[q] \in {"none", "queued"} => completed'[q] = 0
                      /\ status'[q] = "running" => completed'[q] \in 1 .. (Size[q] - 1)
                      /\ status'[q] = "done" => completed'[q] = Size[q]
                      /\ status'[q] # "none" => Size[q] > 0
    BY DEF StatusMatchesCount
  <2>1. CASE q = r
    <3>1. completed'[r] = completed[r] + 1
      BY <1>1, <1>7 DEF IInv, TypeOK
    <3>2. QED
      BY <2>1, <3>1, <1>1, <1>8, <1>15, <1>16 DEF StatusAfter
  <2>2. CASE q # r
    BY <2>2, <1>1, <1>7 DEF IInv, TypeOK, StatusMatchesCount
  <2>3. QED
    BY <2>1, <2>2
<1>20. QED
  BY <1>1, <1>3, <1>4, <1>5, <1>6, <1>11, <1>17, <1>18, <1>19

(* The invariant holds initially.                                          *)
LEMMA IInvInit == ASSUME Init PROVE IInv
<1> USE EvalRunAssumption
<1>1. TypeOK
  BY InitType
<1>2. \A r \in Runs : Counted(r) = {} /\ Flagged(r) = {}
  BY EntryPairs DEF Init, Counted, Flagged
<1>3. CountersExact
  BY <1>2, FS_EmptySet DEF CountersExact, Init
<1>4. Len(unread) = 0
  BY EmptySeq DEF Init
<1>5. DeliveredOnce
  BY <1>4 DEF DeliveredOnce, Init
<1>6. StatusMatchesCount /\ UncountedStaysPending
  BY DEF StatusMatchesCount, UncountedStaysPending, Init, Active, Settled
<1>7. RequestInv /\ HasRow /\ RowWritten /\ RowsAgree
  BY EntryPairs DEF RequestInv, HasRow, RowWritten, RowsAgree, Init, CountedStates
<1>8. QED
  BY <1>1, <1>3, <1>5, <1>6, <1>7 DEF IInv

(* Every step preserves it.                                                *)
LEMMA IInvStep == IInv /\ [Next]_vars => IInv'
<1> SUFFICES ASSUME IInv, [Next]_vars
             PROVE  IInv'
  OBVIOUS
<1> USE EvalRunAssumption
<1>0. TypeOK /\ TypeOK'
  BY TypeStep DEF IInv
<1>1. ASSUME NEW r \in Runs, CreateRun(r) \/ CommitFails(r)
      PROVE  IInv'
  <2>1. UNCHANGED <<completed, errors, unread, pel, task, verdict, scores>>
    BY <1>1 DEF CreateRun, CommitFails, streamVars
  <2>2. SameCounts /\ SameStream
    BY <2>1 DEF SameCounts, SameStream
  <2>3. CountersExact' /\ DeliveredOnce' /\ \A q \in Runs : Counted(q)' = Counted(q)
    BY <2>2, SameCountsKeepsCounters, SameStreamKeepsDelivery DEF IInv
  <2>4. UncountedStaysPending'
    BY <2>1, <2>3, EntryPairs DEF IInv, UncountedStaysPending
  <2>5. /\ request[r] = "idle"
        /\ status[r] = "none"
        /\ \A q \in Runs \ {r} : request'[q] = request[q] /\ status'[q] = status[q]
        /\ \/ request'[r] = "rejected" /\ status'[r] = "none"
           \/ request'[r] = "failed" /\ status'[r] = "none"
           \/ request'[r] \in {"committed", "failed"} /\ status'[r] = "queued" /\ Size[r] # 0
    BY <1>0, <1>1 DEF CreateRun, CommitFails, IInv, RequestInv, TypeOK
  <2>6. completed[r] = 0 /\ completed' = completed
    BY <2>1, <2>5 DEF IInv, StatusMatchesCount
  <2>7. StatusMatchesCount'
    <3>1. Size[r] \in Nat
      BY DEF EvalRunAssumption
    <3>2. QED
      BY <2>5, <2>6, <3>1 DEF IInv, StatusMatchesCount
  <2>8. RequestInv'
    BY <2>1, <2>5 DEF IInv, RequestInv
  <2>9. HasRow'
    BY <2>1, <2>5, EntryPairs DEF IInv, HasRow
  <2>10. RowWritten' /\ RowsAgree'
    BY <2>1 DEF IInv, RowWritten, RowsAgree
  <2>11. QED
    BY <1>0, <2>3, <2>4, <2>7, <2>8, <2>9, <2>10 DEF IInv
<1>2. ASSUME NEW r \in Runs, FanOut(r) \/ FanOutFails(r)
      PROVE  IInv'
  <2>1. /\ UNCHANGED <<status, completed, errors, pel, verdict, scores>>
        /\ request[r] = "committed"
        /\ request' = [request EXCEPT ![r] = "replied"] \/ request' = [request EXCEPT ![r] = "failed"]
        /\ Publish(r) \/ UNCHANGED <<unread, task>>
    BY <1>2 DEF FanOut, FanOutFails, rowVars
  <2>2. status[r] # "none" /\ \A i \in 1 .. Size[r] : task[<<r, i>>] = "absent"
    BY <2>1 DEF IInv, RequestInv
  <2>3. /\ DeliveredOnce'
        /\ \A e \in Entries : \/ task'[e] = task[e]
                              \/ /\ task'[e] \in {"unread", "evicted"}
                                 /\ task[e] = "unread" \/ e[1] = r
    BY <1>0, <2>1, <2>2, PublishStream, SameStreamKeepsDelivery DEF IInv, SameStream
  <2>4. \A e \in Entries : task'[e] # task[e] => /\ task'[e] \in {"unread", "evicted"}
                                                 /\ task[e] \in {"unread", "absent"}
                                                 /\ status[e[1]] # "none"
    <3>1. \A e \in Entries : e[1] = r => task[e] = "absent"
      BY <2>2, EntryPairs
    <3>2. QED
      BY <2>2, <2>3, <3>1 DEF IInv, HasRow
  <2>5. SameCounts
    BY <2>1, <2>4 DEF SameCounts, CountedStates
  <2>6. CountersExact' /\ \A q \in Runs : Counted(q)' = Counted(q)
    BY <2>5, SameCountsKeepsCounters DEF IInv
  <2>7. UncountedStaysPending'
    BY <2>1, <2>4, <2>6, EntryPairs DEF IInv, UncountedStaysPending, Active, Settled
  <2>8. StatusMatchesCount'
    BY <2>1 DEF IInv, StatusMatchesCount
  <2>9. RequestInv'
    <3>1. /\ request'[r] \in {"replied", "failed"}
          /\ \A q \in Runs \ {r} : request'[q] = request[q]
      BY <1>0, <2>1 DEF TypeOK
    <3>2. \A q \in Runs \ {r} : (\A i \in 1 .. Size[q] : task[<<q, i>>] = "absent") =>
                                \A i \in 1 .. Size[q] : task'[<<q, i>>] = "absent"
      BY <2>3, EntryPairs
    <3>3. QED
      BY <2>1, <3>1, <3>2 DEF IInv, RequestInv
  <2>10. HasRow'
    BY <2>1, <2>4 DEF IInv, HasRow
  <2>11. RowWritten' /\ RowsAgree'
    BY <2>1, <2>4 DEF IInv, RowWritten, RowsAgree, CountedStates
  <2>12. QED
    BY <1>0, <2>3, <2>6, <2>7, <2>8, <2>9, <2>10, <2>11 DEF IInv
<1>3. ASSUME NEW w \in Workers,
             StartWorker(w) \/ EnsureGroup(w) \/ EndBatch(w) \/ Stop(w) \/ ExitIdle(w)
      PROVE  IInv'
  <2>1. UNCHANGED <<request, status, completed, errors, unread, pel, task, verdict, scores>>
    BY <1>3 DEF StartWorker, EnsureGroup, EndBatch, Stop, ExitIdle, GroupStart, apiVars,
                streamVars
  <2>2. QED
    BY <1>0, <2>1, LoopOnly
<1>4. ASSUME NEW w \in Workers, ReadBatch(w) \/ ReadFails(w)
      PROVE  IInv'
  <2>1. /\ UNCHANGED <<request, status, completed, errors, verdict, scores>>
        /\ \/ \E state \in {"loading", "stranded"} : Deliver(state)
           \/ UNCHANGED <<unread, pel, task>>
    BY <1>4 DEF ReadBatch, ReadFails, apiVars
  <2>2. CASE UNCHANGED <<unread, pel, task>>
    BY <1>0, <2>1, <2>2, LoopOnly
  <2>3. ASSUME NEW state \in {"loading", "stranded"}, Deliver(state)
        PROVE  IInv'
    <3>1. state \in TaskState \ {"unread"}
      BY DEF TaskState, Active, Settled
    <3>2. /\ DeliveredOnce'
          /\ \A e \in Entries :
                \/ e \notin Delivery /\ task'[e] = task[e]
                \/ e \in Delivery /\ task[e] = "unread" /\ task'[e] = state /\ e \in pel'
      BY <1>0, <2>3, <3>1, DeliverStream DEF IInv
    <3>3. SameCounts
      BY <2>1, <3>2 DEF SameCounts, CountedStates
    <3>4. CountersExact' /\ \A q \in Runs : Counted(q)' = Counted(q)
      BY <3>3, SameCountsKeepsCounters DEF IInv
    <3>5. UncountedStaysPending'
      <4>1. pel \subseteq pel'
        BY <2>3 DEF Deliver
      <4>2. QED
        BY <3>2, <3>4, <4>1, EntryPairs DEF IInv, UncountedStaysPending
    <3>6. StatusMatchesCount'
      BY <2>1 DEF IInv, StatusMatchesCount
    <3>7. RequestInv'
      BY <2>1, <3>2, EntryPairs DEF IInv, RequestInv
    <3>8. HasRow'
      BY <2>1, <3>2 DEF IInv, HasRow
    <3>9. RowWritten' /\ RowsAgree'
      BY <2>1, <3>2 DEF IInv, RowWritten, RowsAgree, CountedStates
    <3>10. QED
      BY <1>0, <3>2, <3>4, <3>5, <3>6, <3>7, <3>8, <3>9 DEF IInv
  <2>4. QED
    BY <2>1, <2>2, <2>3
<1>5. ASSUME NEW w \in Workers, Crash(w)
      PROVE  IInv'
  <2>1. UNCHANGED <<request, status, completed, errors, unread, pel, verdict, scores>>
    BY <1>5 DEF Crash, apiVars, streamVars
  <2>2. \A e \in Entries : \/ task'[e] = task[e]
                           \/ task[e] = "acking" /\ task'[e] = "finished"
                           \/ task[e] \in Active \ {"acking"} /\ task'[e] = "stranded"
    BY <1>5 DEF Crash, Killed
  <2>3. SameCounts /\ SameStream
    BY <2>1, <2>2 DEF SameCounts, SameStream, CountedStates, Active
  <2>4. CountersExact' /\ DeliveredOnce' /\ \A q \in Runs : Counted(q)' = Counted(q)
    BY <2>3, SameCountsKeepsCounters, SameStreamKeepsDelivery DEF IInv
  <2>5. UncountedStaysPending'
    BY <2>1, <2>2, <2>4, EntryPairs DEF IInv, UncountedStaysPending, Active, Settled
  <2>6. StatusMatchesCount'
    BY <2>1 DEF IInv, StatusMatchesCount
  <2>7. RequestInv' /\ HasRow'
    BY <2>1, <2>2, EntryPairs DEF IInv, RequestInv, HasRow, Active
  <2>8. RowWritten' /\ RowsAgree'
    BY <2>1, <2>2 DEF IInv, RowWritten, RowsAgree, CountedStates, Active
  <2>9. QED
    BY <1>0, <2>4, <2>5, <2>6, <2>7, <2>8 DEF IInv
<1>6. ASSUME NEW e \in Entries,
             LoadContext(e) \/ LoadFails(e) \/ Judge(e) \/ WriteScore(e) \/ WriteFails(e)
      PROVE  IInv'
  <2>1. status[e[1]] # "none"
    BY <1>6 DEF IInv, HasRow, LoadContext, LoadFails, Judge, WriteScore, WriteFails
  <2>2. /\ task[e] \in Active \ CountedStates
        /\ task'[e] \in (Active \union Settled) \ CountedStates
        /\ \A f \in Entries \ {e} : task'[f] = task[f] /\ verdict'[f] = verdict[f]
        /\ UNCHANGED <<request, status, completed, errors, unread, pel>>
    BY <1>0, <1>6, <2>1
    DEF LoadContext, LoadFails, Judge, WriteScore, WriteFails, Loaded, Goto, TypeOK,
        CountedStates, Active, Settled, apiVars, streamVars
  <2>3. /\ CountersExact' /\ DeliveredOnce' /\ StatusMatchesCount'
        /\ UncountedStaysPending' /\ RequestInv' /\ HasRow'
    BY <1>0, <2>2, HandlerOnly
  <2>4. RowWritten'
    BY <1>0, <1>6, <2>2
    DEF IInv, RowWritten, LoadContext, LoadFails, Judge, WriteScore, WriteFails, Loaded,
        Goto, TypeOK, CountedStates
  <2>5. RowsAgree'
    <3>1. CASE LoadContext(e) \/ LoadFails(e)
      BY <1>0, <2>1, <3>1
      DEF IInv, RowsAgree, LoadContext, LoadFails, Loaded, Goto, TypeOK
    <3>2. CASE Judge(e)
      BY <1>0, <3>2 DEF IInv, RowsAgree, Judge, Goto, TypeOK, Verdicts
    <3>3. CASE WriteScore(e)
      BY <1>0, <3>3 DEF IInv, RowsAgree, WriteScore, Goto, TypeOK, Verdicts
    <3>4. CASE WriteFails(e)
      <4>1. /\ scores \subseteq scores'
            /\ scores' \subseteq scores \union {<<e, verdict[e]>>}
            /\ task[e] = "writing" /\ task'[e] \in {"writing", "stranded"}
            /\ verdict'[e] = "error"
            /\ \A f \in Entries \ {e} : task'[f] = task[f] /\ verdict'[f] = verdict[f]
        BY <1>0, <3>4 DEF WriteFails, Goto, TypeOK
      <4>2. \A f \in Entries \ {e}, v \in Verdicts : <<f, v>> \in scores' => <<f, v>> \in scores
        BY <4>1
      <4>3. QED
        BY <4>1, <4>2 DEF IInv, RowsAgree, Verdicts
    <3>5. QED
      BY <1>6, <3>1, <3>2, <3>3, <3>4
  <2>6. QED
    BY <1>0, <2>3, <2>4, <2>5 DEF IInv
<1>7. ASSUME NEW e \in Entries, Ack(e) \/ AckFails(e)
      PROVE  IInv'
  <2>1. /\ task[e] = "acking" /\ task'[e] = "finished"
        /\ \A f \in Entries \ {e} : task'[f] = task[f]
        /\ UNCHANGED <<request, status, completed, errors, unread, verdict, scores>>
        /\ pel' = pel \/ pel' = pel \ {e}
    BY <1>0, <1>7 DEF Ack, AckFails, Goto, TypeOK, apiVars
  <2>2. /\ CountersExact' /\ DeliveredOnce' /\ StatusMatchesCount'
        /\ UncountedStaysPending' /\ RequestInv' /\ HasRow'
    BY <1>0, <2>1, HandlerOnly DEF Active, Settled, CountedStates
  <2>3. RowWritten' /\ RowsAgree'
    BY <2>1 DEF IInv, RowWritten, RowsAgree, CountedStates
  <2>4. QED
    BY <1>0, <2>2, <2>3 DEF IInv
<1>8. ASSUME NEW e \in Entries, BumpProgress(e) \/ BumpFails(e)
      PROVE  IInv'
  <2>1. CASE UNCHANGED rowVars /\ Goto(e, "stranded")
    <3>1. /\ task[e] = "bumping" /\ task'[e] = "stranded"
          /\ \A f \in Entries \ {e} : task'[f] = task[f]
          /\ UNCHANGED <<request, status, completed, errors, unread, pel, verdict, scores>>
      BY <1>0, <1>8, <2>1 DEF BumpProgress, BumpFails, Goto, TypeOK, rowVars, streamVars
    <3>2. /\ CountersExact' /\ DeliveredOnce' /\ StatusMatchesCount'
          /\ UncountedStaysPending' /\ RequestInv' /\ HasRow'
      BY <1>0, <3>1, HandlerOnly DEF Active, Settled, CountedStates
    <3>3. RowWritten' /\ RowsAgree'
      BY <3>1 DEF IInv, RowWritten, RowsAgree, CountedStates
    <3>4. QED
      BY <1>0, <3>2, <3>3 DEF IInv
  <2>2. ASSUME NEW state \in CountedStates, BumpRow(e), Goto(e, state)
        PROVE  IInv'
    <3>1. /\ task[e] = "bumping" /\ task'[e] = state
          /\ \A f \in Entries \ {e} : task'[f] = task[f]
          /\ UNCHANGED <<request, unread, pel, verdict, scores>>
      BY <1>0, <1>8, <2>2 DEF BumpProgress, BumpFails, Goto, TypeOK, streamVars
    <3>2. /\ CountersExact' /\ StatusMatchesCount'
          /\ Counted(e[1])' = Counted(e[1]) \union {e[2]}
          /\ \A r \in Runs \ {e[1]} : Counted(r)' = Counted(r)
          /\ status[e[1]] \in {"queued", "running"}
          /\ status'[e[1]] # "none"
      BY <2>2, <3>1, BumpCounts
    <3>3. DeliveredOnce'
      BY <3>1, SameStreamKeepsDelivery DEF IInv, SameStream, CountedStates
    <3>4. UncountedStaysPending'
      <4>1. \A f \in Entries : f[2] \notin Counted(f[1])' => f # e /\ f[2] \notin Counted(f[1])
        BY <3>2, EntryPairs
      <4>2. QED
        BY <3>1, <4>1 DEF IInv, UncountedStaysPending
    <3>5. \A r \in Runs : status'[r] = "none" <=> status[r] = "none"
      <4>1. \A r \in Runs \ {e[1]} : status'[r] = status[r]
        BY <1>0, <2>2 DEF BumpRow, TypeOK
      <4>2. QED
        BY <3>2, <4>1
    <3>6. RequestInv' /\ HasRow'
      BY <3>1, <3>5, EntryPairs DEF IInv, RequestInv, HasRow, CountedStates
    <3>7. RowWritten' /\ RowsAgree'
      BY <3>1 DEF IInv, RowWritten, RowsAgree, CountedStates
    <3>8. QED
      BY <1>0, <3>2, <3>3, <3>4, <3>6, <3>7 DEF IInv
  <2>3. QED
    BY <1>8, <2>1, <2>2 DEF BumpProgress, BumpFails, CountedStates
<1>9. CASE UNCHANGED vars
  BY <1>0, <1>9, LoopOnly DEF vars
<1>10. QED
  BY <1>1, <1>2, <1>3, <1>4, <1>5, <1>6, <1>7, <1>8, <1>9
  DEF Next, ApiStep, LoopStep, HandleStep, HandleFails

THEOREM InductiveInvariant == Spec => []IInv
BY IInvInit, IInvStep, PTL DEF Spec

-----------------------------------------------------------------------------
(* What follows for the client and for whoever repairs a stuck run         *)

(* completed_count and error_count are exact at every moment, however the  *)
(* handlers interleave and whichever of their calls fail.                  *)
THEOREM CountersAreExact == Spec => []CountersExact
<1>1. IInv => CountersExact
  BY DEF IInv
<1>2. QED
  BY <1>1, InductiveInvariant, PTL

(* The stream delivers each message once.                                  *)
THEOREM DeliveryIsOnce == Spec => []DeliveredOnce
<1>1. IInv => DeliveredOnce
  BY DEF IInv
<1>2. QED
  BY <1>1, InductiveInvariant, PTL

(* No failure takes an entry that still needs work off the pending list.   *)
THEOREM UncountedIsPending == Spec => []UncountedStaysPending
<1>1. IInv => UncountedStaysPending
  BY DEF IInv
<1>2. QED
  BY <1>1, InductiveInvariant, PTL

(* A run that shows "done" has a score row for each of its records, and    *)
(* exactly error_count of them have an error row.                          *)
THEOREM DoneIsScored == Spec => []DoneMeansScored
<1>1. ASSUME IInv PROVE DoneMeansScored
  <2> SUFFICES ASSUME NEW r \in Runs, status[r] = "done"
               PROVE  /\ \A i \in 1 .. Size[r] : \E v \in Verdicts : <<<<r, i>>, v>> \in scores
                      /\ errors[r] = Cardinality({i \in 1 .. Size[r] :
                            \E v \in {"flagged", "error"} : <<<<r, i>>, v>> \in scores})
    BY DEF DoneMeansScored
  <2>1. Counted(r) = 1 .. Size[r]
    BY EvalRunAssumption, <1>1, CountedFinite DEF IInv, CountersExact, StatusMatchesCount
  <2>2. \A i \in 1 .. Size[r] : /\ <<r, i>> \in Entries
                                /\ verdict[<<r, i>>] \in Verdicts
                                /\ <<<<r, i>>, verdict[<<r, i>>]>> \in scores
    BY <1>1, <2>1, EntryPairs DEF IInv, TypeOK, RowWritten, Counted, CountedStates
  <2>3. \A i \in 1 .. Size[r] : verdict[<<r, i>>] # "ok" <=>
            \E v \in {"flagged", "error"} : <<<<r, i>>, v>> \in scores
    BY <1>1, <2>2 DEF IInv, RowsAgree, Verdicts
  <2>4. Flagged(r) = {i \in 1 .. Size[r] :
                          \E v \in {"flagged", "error"} : <<<<r, i>>, v>> \in scores}
    BY <2>1, <2>3 DEF Flagged
  <2>5. QED
    BY <1>1, <2>2, <2>4 DEF IInv, CountersExact
<1>2. QED
  BY <1>1, InductiveInvariant, PTL

(* The status column always agrees with the counters of its row.           *)
THEOREM StatusIsConsistent == Spec => []StatusMatchesCount
<1>1. IInv => StatusMatchesCount
  BY DEF IInv
<1>2. QED
  BY <1>1, InductiveInvariant, PTL

-----------------------------------------------------------------------------
(* The engine implements the run ledger                                    *)

\* The step that counts entry e.
Counting(e) ==
    /\ task[e] = "bumping"
    /\ BumpRow(e)
    /\ UNCHANGED verdict
    /\ \E state \in CountedStates : Goto(e, state)

(* A step of the handler of e that does not count it.                      *)
LEMMA HandlerCounts ==
    ASSUME IInv, NEW e \in Entries, NEW state \in TaskState, Goto(e, state),
           state \in CountedStates <=> task[e] \in CountedStates,
           task[e] \in CountedStates => verdict'[e] = verdict[e],
           \A f \in Entries \ {e} : verdict'[f] = verdict[f],
           UNCHANGED <<completed, errors>>
    PROVE  SameCounts
BY DEF IInv, TypeOK, Goto, SameCounts

(* Every step counts one record, or inserts one run row, or neither.       *)
LEMMA StepKinds ==
    ASSUME IInv, [Next]_vars
    PROVE  \/ SameCounts /\ UNCHANGED status
           \/ /\ SameCounts
              /\ \E r \in Runs : /\ status[r] = "none"
                                 /\ Size[r] # 0
                                 /\ status' = [status EXCEPT ![r] = "queued"]
           \/ \E e \in Entries : Counting(e)
<1> USE EvalRunAssumption
<1>0. TypeOK
  BY DEF IInv
<1>1. ASSUME NEW r \in Runs, CreateRun(r) \/ CommitFails(r)
      PROVE  /\ SameCounts
             /\ \/ UNCHANGED status
                \/ /\ status[r] = "none" /\ Size[r] # 0
                   /\ status' = [status EXCEPT ![r] = "queued"]
  <2>1. status[r] = "none"
    BY <1>1 DEF CreateRun, CommitFails, IInv, RequestInv
  <2>2. UNCHANGED <<completed, errors, task, verdict>>
    BY <1>1 DEF CreateRun, CommitFails
  <2>3. QED
    BY <1>1, <2>1, <2>2 DEF CreateRun, CommitFails, SameCounts
<1>2. ASSUME NEW r \in Runs, FanOut(r) \/ FanOutFails(r)
      PROVE  SameCounts /\ UNCHANGED status
  <2>1. /\ UNCHANGED <<status, completed, errors, verdict>>
        /\ request[r] = "committed"
        /\ Publish(r) \/ UNCHANGED <<unread, task>>
    BY <1>2 DEF FanOut, FanOutFails, rowVars
  <2>2. \A i \in 1 .. Size[r] : task[<<r, i>>] = "absent"
    BY <2>1 DEF IInv, RequestInv
  <2>3. \A e \in Entries : \/ task'[e] = task[e]
                           \/ /\ task'[e] \in {"unread", "evicted"}
                              /\ task[e] = "unread" \/ e[1] = r
    BY <1>0, <2>1, <2>2, PublishStream DEF IInv
  <2>4. \A e \in Entries : e[1] = r => task[e] = "absent"
    BY <2>2, EntryPairs
  <2>5. QED
    BY <2>1, <2>3, <2>4 DEF SameCounts, CountedStates
<1>3. ASSUME NEW w \in Workers, LoopStep(w)
      PROVE  SameCounts /\ UNCHANGED status
  <2>1. UNCHANGED <<status, completed, errors, verdict>>
    BY <1>3 DEF LoopStep, StartWorker, EnsureGroup, ReadBatch, ReadFails, EndBatch, Stop,
                ExitIdle, Crash, apiVars
  <2>2. CASE UNCHANGED task
    BY <2>1, <2>2 DEF SameCounts
  <2>3. ASSUME NEW state \in {"loading", "stranded"}, Deliver(state)
        PROVE  SameCounts
    <3>1. state \in TaskState \ {"unread"}
      BY DEF TaskState, Active, Settled
    <3>2. \A e \in Entries : \/ task'[e] = task[e]
                             \/ task[e] = "unread" /\ task'[e] = state
      BY <1>0, <2>3, <3>1, DeliverStream DEF IInv
    <3>3. QED
      BY <2>1, <3>2 DEF SameCounts, CountedStates
  <2>4. CASE Crash(w)
    <3>1. \A e \in Entries : task'[e] = task[e] \/ task'[e] = Killed(task[e])
      BY <1>0, <2>4 DEF Crash, TypeOK
    <3>2. QED
      BY <2>1, <3>1 DEF SameCounts, CountedStates, Killed, Active
  <2>5. QED
    BY <1>3, <2>1, <2>2, <2>3, <2>4
    DEF LoopStep, StartWorker, EnsureGroup, ReadBatch, ReadFails, EndBatch, Stop, ExitIdle
<1>4. ASSUME NEW e \in Entries, HandleStep(e) \/ HandleFails(e)
      PROVE  \/ SameCounts /\ UNCHANGED status
             \/ Counting(e)
  <2>1. CASE LoadContext(e) \/ LoadFails(e)
    <3>1. PICK state \in {"acking", "stranded", "judging"} : Goto(e, state)
      BY <2>1 DEF LoadContext, LoadFails, Loaded
    <3>2. task[e] = "loading" /\ UNCHANGED <<status, completed, errors, verdict>>
      BY <2>1 DEF LoadContext, LoadFails, apiVars
    <3>3. status[e[1]] # "none"
      BY <3>2 DEF IInv, HasRow
    <3>4. state \in TaskState \ CountedStates
      <4>1. CASE LoadContext(e)
        <5>1. Goto(e, Loaded(e[1])) /\ Loaded(e[1]) \in {"stranded", "judging"}
          BY <4>1, <3>3 DEF LoadContext, Loaded
        <5>2. state = Loaded(e[1])
          BY <1>0, <3>1, <5>1 DEF Goto, TypeOK
        <5>3. QED
          BY <5>1, <5>2 DEF TaskState, Active, Settled, CountedStates
      <4>2. CASE LoadFails(e)
        <5>1. state = "stranded"
          BY <1>0, <3>1, <4>2 DEF LoadFails, Goto, TypeOK
        <5>2. QED
          BY <5>1 DEF TaskState, Active, Settled, CountedStates
      <4>3. QED
        BY <2>1, <4>1, <4>2
    <3>5. QED
      BY <3>1, <3>2, <3>4, HandlerCounts DEF CountedStates
  <2>2. CASE Judge(e) \/ WriteScore(e) \/ WriteFails(e)
    <3>1. /\ task[e] \in {"judging", "writing"}
          /\ UNCHANGED <<status, completed, errors>>
          /\ \A f \in Entries \ {e} : verdict'[f] = verdict[f]
      BY <1>0, <2>2 DEF Judge, WriteScore, WriteFails, apiVars, TypeOK
    <3>2. UNCHANGED task \/ \E state \in {"writing", "bumping", "stranded"} : Goto(e, state)
      BY <2>2 DEF Judge, WriteScore, WriteFails
    <3>3. \A state \in {"writing", "bumping", "stranded"} : state \in TaskState \ CountedStates
      BY DEF TaskState, Active, Settled, CountedStates
    <3>4. CASE UNCHANGED task
      BY <3>1, <3>4 DEF SameCounts, CountedStates
    <3>5. CASE \E state \in {"writing", "bumping", "stranded"} : Goto(e, state)
      BY <3>1, <3>3, <3>5, HandlerCounts DEF CountedStates
    <3>6. QED
      BY <3>1, <3>2, <3>4, <3>5
  <2>3. CASE Ack(e) \/ AckFails(e)
    BY <2>3, HandlerCounts DEF Ack, AckFails, apiVars, TaskState, Settled, CountedStates
  <2>4. CASE BumpProgress(e) \/ BumpFails(e)
    <3>1. task[e] = "bumping" /\ UNCHANGED verdict
      BY <2>4 DEF BumpProgress, BumpFails
    <3>2. CASE UNCHANGED rowVars /\ Goto(e, "stranded")
      BY <3>1, <3>2, HandlerCounts DEF rowVars, TaskState, Settled, CountedStates
    <3>3. QED
      BY <2>4, <3>1, <3>2 DEF BumpProgress, BumpFails, Counting, CountedStates
  <2>5. QED
    BY <1>4, <2>1, <2>2, <2>3, <2>4 DEF HandleStep, HandleFails
<1>5. CASE UNCHANGED vars
  BY <1>5 DEF vars, SameCounts
<1>6. QED
  BY <1>1, <1>2, <1>3, <1>4, <1>5 DEF Next, ApiStep

(* A run that is done stays as it is.                                      *)
THEOREM DoneStaysDone == Spec => DoneIsFinal
<1> DEFINE Frozen == \A r \in Runs : status[r] = "done" =>
                         UNCHANGED <<status[r], completed[r], errors[r]>>
<1>1. ASSUME IInv, [Next]_vars PROVE Frozen
  <2>0. TypeOK
    BY <1>1 DEF IInv
  <2>1. CASE SameCounts /\ UNCHANGED status
    BY <2>1 DEF SameCounts
  <2>2. ASSUME SameCounts, NEW r \in Runs, status[r] = "none",
               status' = [status EXCEPT ![r] = "queued"]
        PROVE  Frozen
    BY <2>0, <2>2 DEF SameCounts, TypeOK
  <2>3. ASSUME NEW e \in Entries, Counting(e)
        PROVE  Frozen
    <3>1. status[e[1]] \in {"queued", "running"}
      BY <1>1, <2>3, EvalRunAssumption, BumpCounts DEF Counting
    <3>2. \A r \in Runs \ {e[1]} : UNCHANGED <<status[r], completed[r], errors[r]>>
      BY <2>0, <2>3 DEF Counting, BumpRow, TypeOK
    <3>3. QED
      BY <3>1, <3>2
  <2>4. QED
    BY <1>1, <2>1, <2>2, <2>3, StepKinds
<1>2. IInv /\ [Next]_vars => [Frozen]_vars
  BY <1>1
<1>3. QED
  BY <1>2, InductiveInvariant, PTL DEF Spec, DoneIsFinal

(* The counters of the run rows implement the ledger: a run is accepted    *)
(* once and only with records, each record is counted once, and the run is *)
(* done with the last of them.                                             *)
THEOREM EngineImplementsLedger == Spec => ImplementsLedger
<1> USE EvalRunAssumption
<1> DEFINE counted == [r \in Runs |-> Counted(r)]
           flagged == [r \in Runs |-> Flagged(r)]
<1>1. Init => Ledger!Init
  <2> SUFFICES ASSUME Init PROVE Ledger!Init
    OBVIOUS
  <2>1. \A r \in Runs : Counted(r) = {} /\ Flagged(r) = {}
    BY EntryPairs DEF Init, Counted, Flagged
  <2>2. QED
    BY <2>1 DEF Init, Ledger!Init
<1>2. ASSUME IInv, [Next]_vars PROVE [Ledger!Next]_(Ledger!ledgerVars)
  <2>0. TypeOK
    BY <1>2 DEF IInv
  <2>1. ASSUME SameCounts
        PROVE  /\ [r \in Runs |-> Counted(r)]' = [r \in Runs |-> Counted(r)]
               /\ [r \in Runs |-> Flagged(r)]' = [r \in Runs |-> Flagged(r)]
    BY <1>2, <2>1, SameCountsKeepsCounters DEF IInv
  <2>2. CASE SameCounts /\ UNCHANGED status
    BY <2>1, <2>2 DEF Ledger!ledgerVars
  <2>3. ASSUME SameCounts, NEW r \in Runs, status[r] = "none", Size[r] # 0,
               status' = [status EXCEPT ![r] = "queued"]
        PROVE  Ledger!Next
    <3>1. 1 \in Ledger!Records(r)
      BY <2>3 DEF EvalRunAssumption, Ledger!Records
    <3>2. Ledger!Accept(r)
      BY <2>1, <2>3, <3>1 DEF Ledger!Accept
    <3>3. QED
      BY <3>2 DEF Ledger!Next
  <2>4. ASSUME NEW e \in Entries, Counting(e)
        PROVE  Ledger!Next
    <3> DEFINE r == e[1]
               i == e[2]
               err == verdict[e] # "ok"
    <3>1. /\ Counted(r)' = Counted(r) \union {i}
          /\ i \in (1 .. Size[r]) \ Counted(r)
          /\ Flagged(r)' = IF verdict[e] = "ok" THEN Flagged(r) ELSE Flagged(r) \union {i}
          /\ \A q \in Runs \ {r} : Counted(q)' = Counted(q) /\ Flagged(q)' = Flagged(q)
          /\ status[r] \in {"queued", "running"}
          /\ status'[r] = IF Counted(r)' = 1 .. Size[r] THEN "done" ELSE "running"
      BY <1>2, <2>4, BumpCounts DEF Counting
    <3>2. r \in Runs
      BY EntryPairs
    <3>3. counted' = [counted EXCEPT ![r] = @ \union {i}]
      BY <3>1, <3>2
    <3>4. flagged' = [flagged EXCEPT ![r] = IF err THEN @ \union {i} ELSE @]
      BY <3>1, <3>2
    <3>5. status' = [status EXCEPT ![r] = IF counted'[r] = 1 .. Size[r] THEN "done" ELSE "running"]
      <4>1. status' = [status EXCEPT ![r] = StatusAfter(r)]
        BY <2>4 DEF Counting, BumpRow
      <4>2. counted'[r] = Counted(r)'
        BY <3>2
      <4>3. StatusAfter(r) = IF counted'[r] = 1 .. Size[r] THEN "done" ELSE "running"
        BY <2>0, <3>1, <3>2, <4>1, <4>2 DEF TypeOK
      <4>4. QED
        BY <4>1, <4>3
    <3>6. Ledger!Count(r, i, err)
      BY <3>1, <3>2, <3>3, <3>4, <3>5 DEF Ledger!Count, Ledger!Records
    <3>7. QED
      BY <3>1, <3>2, <3>6 DEF Ledger!Next, Ledger!Records
  <2>5. QED
    BY <1>2, <2>2, <2>3, <2>4, StepKinds
<1>3. QED
  BY <1>1, <1>2, InductiveInvariant, PTL DEF Spec, ImplementsLedger, Ledger!Spec

=============================================================================
