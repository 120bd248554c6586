------------------------------ MODULE EvalRun ------------------------------
(***************************************************************************)
(* The eval run engine: POST /v1/runs inserts a run row and fans out one   *)
(* Redis stream entry per dataset record; the workers of one consumer      *)
(* group read the entries, judge them, write score rows to ClickHouse and  *)
(* bump the run row in Postgres; the client follows the run row.           *)
(*                                                                         *)
(* An entry <<r, i>> is the message {run_id: r, row_index: i}.  Every      *)
(* await of the Python code ends a step, so the steps of the handlers of a *)
(* batch, of several workers and of the API interleave freely.  Each call  *)
(* to Redis, Postgres or ClickHouse may fail, before or after it took      *)
(* effect; such a failure, like the death of a worker, is a fault, and     *)
(* MaxFaults bounds how many of them a behaviour has.                      *)
(***************************************************************************)
EXTENDS Naturals, Sequences, FiniteSets

CONSTANTS
    Runs,         \* the runs clients may ask for
    Size,         \* Size[r]: record_count of the dataset version of run r
    Scaleless,    \* the runs whose metric was registered without a scale
    Workers,      \* the consumers of the group
    Concurrency,  \* eval_concurrency: entries per XREADGROUP
    MaxLen,       \* the MAXLEN the stream is trimmed to
    MaxFaults     \* bound: number of faults in a behaviour

ASSUME EvalRunAssumption ==
    /\ Size \in [Runs -> Nat]
    /\ Scaleless \subseteq Runs
    /\ Concurrency \in Nat \ {0}
    /\ MaxLen \in Nat
    /\ MaxFaults \in Nat

VARIABLES
    request,    \* request[r]: progress of the POST /v1/runs handler
    status,     \* runs.status, "none" while there is no row
    completed,  \* runs.completed_count
    errors,     \* runs.error_count
    unread,     \* the part of the stream the group has not delivered yet
    group,      \* the consumer group exists
    pel,        \* the group's pending entries: delivered, not acknowledged
    task,       \* task[e]: what has become of the message of entry e
    verdict,    \* verdict[e]: the row its handler is about to write or count
    scores,     \* the rows of the ClickHouse scores table, <<entry, verdict>>
    worker,     \* worker[w]: where the consumer loop of w is
    running,    \* running[w]: the consumer's _running flag
    batch,      \* batch[w]: the entries of the gather w awaits
    faults      \* number of faults so far

apiVars    == <<request, status>>
rowVars    == <<status, completed, errors>>
streamVars == <<unread, group, pel>>
loopVars   == <<worker, running, batch>>
vars == <<request, status, completed, errors, unread, group, pel, task, verdict,
          scores, worker, running, batch, faults>>

Entries == UNION { {<<r, i>> : i \in 1 .. Size[r]} : r \in Runs }

RequestStates == {"idle", "committed", "replied", "rejected", "failed"}
Statuses      == {"none", "queued", "running", "done"}
Verdicts      == {"ok", "flagged", "error"}
WorkerStates  == {"down", "starting", "polling", "handling"}

\* A handler that still has something to do, and one that is over: "finished"
\* once the run row counts the entry, "stranded" when it will never be counted.
Active    == {"loading", "judging", "writing", "bumping", "acking"}
Settled   == {"finished", "stranded"}
TaskState == {"absent", "unread", "evicted"} \union Active \union Settled

Counted(r) == {i \in 1 .. Size[r] : task[<<r, i>>] \in {"acking", "finished"}}
Flagged(r) == {i \in Counted(r) : verdict[<<r, i>>] # "ok"}

Init ==
    /\ request = [r \in Runs |-> "idle"]
    /\ status = [r \in Runs |-> "none"]
    /\ completed = [r \in Runs |-> 0]
    /\ errors = [r \in Runs |-> 0]
    /\ unread = <<>>
    /\ group = FALSE
    /\ pel = {}
    /\ task = [e \in Entries |-> "absent"]
    /\ verdict = [e \in Entries |-> "ok"]
    /\ scores = {}
    /\ worker = [w \in Workers |-> "down"]
    /\ running = [w \in Workers |-> FALSE]
    /\ batch = [w \in Workers |-> {}]
    /\ faults = 0

\* The definitions named Bug... are not part of the specification: each is the
\* definition after it with a plausible slip, which a property must catch.

Fault   == faults < MaxFaults /\ faults' = faults + 1
NoFault == UNCHANGED faults

-----------------------------------------------------------------------------
(* The API: POST /v1/runs                                                  *)

BugNoEmptyCheck(r) ==
    /\ request[r] = "idle"
    /\ request' = [request EXCEPT ![r] = "committed"]
    /\ status' = [status EXCEPT ![r] = "queued"]
    /\ NoFault
    /\ UNCHANGED <<completed, errors, streamVars, task, verdict, scores, loopVars>>

(* An empty dataset version is refused with a 400; otherwise the run row   *)
(* is inserted as "queued" and committed BEFORE anything is published.     *)
CreateRun(r) ==
    /\ request[r] = "idle"
    /\ IF Size[r] = 0
       THEN /\ request' = [request EXCEPT ![r] = "rejected"]
            /\ UNCHANGED status
       ELSE /\ request' = [request EXCEPT ![r] = "committed"]
            /\ status' = [status EXCEPT ![r] = "queued"]
    /\ NoFault
    /\ UNCHANGED <<completed, errors, streamVars, task, verdict, scores, loopVars>>

(* The commit raises: no row, or a row the client never hears of.          *)
CommitFails(r) ==
    /\ request[r] = "idle"
    /\ Size[r] # 0
    /\ Fault
    /\ request' = [request EXCEPT ![r] = "failed"]
    /\ status' \in {status, [status EXCEPT ![r] = "queued"]}
    /\ UNCHANGED <<completed, errors, streamVars, task, verdict, scores, loopVars>>

Messages(r) == [i \in 1 .. Size[r] |-> <<r, i>>]

(* XADD MAXLEN ~ may evict any number of the oldest entries as long as     *)
(* MaxLen of them remain; the read part of the stream goes first.          *)
Evictable(n) == IF n > MaxLen THEN n - MaxLen ELSE 0

(* The pipeline is one MULTI/EXEC: all entries of the run or none.         *)
Publish(r) ==
    LET log == unread \o Messages(r)
    IN  \E k \in 0 .. Evictable(Len(log)) :
            /\ unread' = SubSeq(log, k + 1, Len(log))
            /\ task' = [e \in Entries |->
                            IF \E j \in 1 .. k : log[j] = e THEN "evicted"
                            ELSE IF e[1] = r THEN "unread"
                            ELSE task[e]]

FanOut(r) ==
    /\ request[r] = "committed"
    /\ request' = [request EXCEPT ![r] = "replied"]
    /\ Publish(r)
    /\ NoFault
    /\ UNCHANGED <<rowVars, group, pel, verdict, scores, loopVars>>

(* The API process dies, or Redis raises, after the commit: the client     *)
(* gets an error, the row stays, the entries may or may not be published.  *)
FanOutFails(r) ==
    /\ request[r] = "committed"
    /\ Fault
    /\ request' = [request EXCEPT ![r] = "failed"]
    /\ \/ Publish(r)
       \/ UNCHANGED <<unread, task>>
    /\ UNCHANGED <<rowVars, group, pel, verdict, scores, loopVars>>

-----------------------------------------------------------------------------
(* The consumer loop of a worker process                                   *)

StartWorker(w) ==
    /\ worker[w] = "down"
    /\ worker' = [worker EXCEPT ![w] = "starting"]
    /\ NoFault
    /\ UNCHANGED <<apiVars, completed, errors, streamVars, task, verdict, scores,
                   running, batch>>

BugStartAtEnd(stream) == <<>>

(* XGROUP CREATE with id "0": a group made now delivers the whole stream.  *)
GroupStart(stream) == stream

EnsureGroup(w) ==
    /\ worker[w] = "starting"
    /\ worker' = [worker EXCEPT ![w] = "polling"]
    /\ running' = [running EXCEPT ![w] = TRUE]
    /\ group' = TRUE
    /\ unread' = IF group THEN unread ELSE GroupStart(unread)
    /\ NoFault
    /\ UNCHANGED <<apiVars, completed, errors, pel, task, verdict, scores, batch>>

(* The entries one XREADGROUP ">" returns: the next COUNT or fewer.        *)
ReadCount == IF Len(unread) < Concurrency THEN Len(unread) ELSE Concurrency
Delivery  == {unread[j] : j \in 1 .. ReadCount}

BugNoAckRead(state) ==
    /\ unread # <<>>
    /\ unread' = SubSeq(unread, ReadCount + 1, Len(unread))
    /\ task' = [e \in Entries |-> IF e \in Delivery THEN state ELSE task[e]]
    /\ UNCHANGED pel

Deliver(state) ==
    /\ unread # <<>>
    /\ unread' = SubSeq(unread, ReadCount + 1, Len(unread))
    /\ pel' = pel \union Delivery
    /\ task' = [e \in Entries |-> IF e \in Delivery THEN state ELSE task[e]]

ReadBatch(w) ==
    /\ worker[w] = "polling"
    /\ worker' = [worker EXCEPT ![w] = "handling"]
    /\ batch' = [batch EXCEPT ![w] = Delivery]
    /\ Deliver("loading")
    /\ NoFault
    /\ UNCHANGED <<apiVars, completed, errors, group, verdict, scores, running>>

(* while self._running: poll again, or leave the loop after stop().        *)
LoopTop(w) ==
    worker' = [worker EXCEPT ![w] = IF running[w] THEN "polling" ELSE "down"]

(* The read raises.  When only its reply was lost, Redis has moved the     *)
(* entries to the pending list, and the loop asks for ">" only.            *)
ReadFails(w) ==
    /\ worker[w] = "polling"
    /\ Fault
    /\ \/ Deliver("stranded")
       \/ UNCHANGED <<unread, pel, task>>
    /\ LoopTop(w)
    /\ UNCHANGED <<apiVars, completed, errors, group, verdict, scores, running, batch>>

BugWaitForFinished(w) ==
    /\ worker[w] = "handling"
    /\ \A e \in batch[w] : task[e] = "finished"
    /\ batch' = [batch EXCEPT ![w] = {}]
    /\ LoopTop(w)
    /\ NoFault
    /\ UNCHANGED <<apiVars, completed, errors, streamVars, task, verdict, scores,
                   running>>

(* gather returned: all handlers are over, whatever they raised.           *)
EndBatch(w) ==
    /\ worker[w] = "handling"
    /\ \A e \in batch[w] : task[e] \in Settled
    /\ batch' = [batch EXCEPT ![w] = {}]
    /\ LoopTop(w)
    /\ NoFault
    /\ UNCHANGED <<apiVars, completed, errors, streamVars, task, verdict, scores,
                   running>>

(* SIGTERM.  The flag is only looked at between two reads, and start()     *)
(* sets it after the group exists, whatever stop() did before.             *)
Stop(w) ==
    /\ worker[w] # "down"
    /\ running' = [running EXCEPT ![w] = FALSE]
    /\ NoFault
    /\ UNCHANGED <<apiVars, completed, errors, streamVars, task, verdict, scores,
                   worker, batch>>

BugDrainFirst(w) ==
    /\ worker[w] = "polling"
    /\ ~running[w]
    /\ unread = <<>>
    /\ pel = {}
    /\ worker' = [worker EXCEPT ![w] = "down"]
    /\ NoFault
    /\ UNCHANGED <<apiVars, completed, errors, streamVars, task, verdict, scores,
                   running, batch>>

(* A blocked read times out with nothing to deliver and the flag is down.  *)
ExitIdle(w) ==
    /\ worker[w] = "polling"
    /\ ~running[w]
    /\ unread = <<>>
    /\ worker' = [worker EXCEPT ![w] = "down"]
    /\ NoFault
    /\ UNCHANGED <<apiVars, completed, errors, streamVars, task, verdict, scores,
                   running, batch>>

(* What is left of a handler that is killed between two of its steps.      *)
Killed(state) ==
    IF state = "acking" THEN "finished"
    ELSE IF state \in Active THEN "stranded"
    ELSE state

(* The process dies, or the other consumer's exception cancels this one.   *)
Crash(w) ==
    /\ worker[w] # "down"
    /\ Fault
    /\ task' = [e \in Entries |-> IF e \in batch[w] THEN Killed(task[e]) ELSE task[e]]
    /\ batch' = [batch EXCEPT ![w] = {}]
    /\ worker' = [worker EXCEPT ![w] = "down"]
    /\ running' = [running EXCEPT ![w] = FALSE]
    /\ UNCHANGED <<apiVars, completed, errors, streamVars, verdict, scores>>

-----------------------------------------------------------------------------
(* The handler of one entry: _handle, _process, _bump_progress, _ack       *)

Goto(e, state) == task' = [task EXCEPT ![e] = state]

(* Postgres reads of the run, its metric and the record.  No run: the      *)
(* message is acknowledged and forgotten.  A metric without a scale has    *)
(* min = None, and float(None) raises outside the try that writes error    *)
(* rows.                                                                   *)
Loaded(r) ==
    IF status[r] = "none" THEN "acking"
    ELSE IF r \in Scaleless THEN "stranded"
    ELSE "judging"

LoadContext(e) ==
    /\ task[e] = "loading"
    /\ Goto(e, Loaded(e[1]))
    /\ NoFault
    /\ UNCHANGED <<apiVars, completed, errors, streamVars, verdict, scores, loopVars>>

LoadFails(e) ==
    /\ task[e] = "loading"
    /\ Fault
    /\ Goto(e, "stranded")
    /\ UNCHANGED <<apiVars, completed, errors, streamVars, verdict, scores, loopVars>>

(* The judge scores the record, answers something unparsable ("flagged":   *)
(* a row with an error attribute), or raises ("error").  None is a fault:  *)
(* models fail and ramble in normal operation.                             *)
Judge(e) ==
    /\ task[e] = "judging"
    /\ \E v \in Verdicts : verdict' = [verdict EXCEPT ![e] = v]
    /\ Goto(e, "writing")
    /\ NoFault
    /\ UNCHANGED <<apiVars, completed, errors, streamVars, scores, loopVars>>

WriteScore(e) ==
    /\ task[e] = "writing"
    /\ scores' = scores \union {<<e, verdict[e]>>}
    /\ Goto(e, "bumping")
    /\ NoFault
    /\ UNCHANGED <<apiVars, completed, errors, streamVars, verdict, loopVars>>

BugSwallowWrite(e) ==
    /\ task[e] = "writing"
    /\ Fault
    /\ scores' \in {scores, scores \union {<<e, verdict[e]>>}}
    /\ verdict' = [verdict EXCEPT ![e] = "error"]
    /\ IF verdict[e] = "error" THEN Goto(e, "bumping") ELSE UNCHANGED task
    /\ UNCHANGED <<apiVars, completed, errors, streamVars, loopVars>>

(* The insert raises, with or without the row in the table.  Inside the    *)
(* try an error row follows; an error row that fails ends the handler.     *)
WriteFails(e) ==
    /\ task[e] = "writing"
    /\ Fault
    /\ scores' \in {scores, scores \union {<<e, verdict[e]>>}}
    /\ IF verdict[e] = "error"
       THEN Goto(e, "stranded") /\ UNCHANGED verdict
       ELSE verdict' = [verdict EXCEPT ![e] = "error"] /\ UNCHANGED task
    /\ UNCHANGED <<apiVars, completed, errors, streamVars, loopVars>>

BugOnlyRaised(e) == IF verdict[e] = "error" THEN 1 ELSE 0

ErrInc(e) == IF verdict[e] = "ok" THEN 0 ELSE 1

BugFailedStatus(r) ==
    IF errors[r] > 0 THEN "failed"
    ELSE IF completed[r] + 1 >= Size[r] THEN "done" ELSE "running"

StatusAfter(r) == IF completed[r] + 1 >= Size[r] THEN "done" ELSE "running"

(* One UPDATE: both counters and the status of the row.                    *)
BumpRow(e) ==
    LET r == e[1]
    IN  /\ completed' = [completed EXCEPT ![r] = @ + 1]
        /\ errors' = [errors EXCEPT ![r] = @ + ErrInc(e)]
        /\ status' = [status EXCEPT ![r] = StatusAfter(r)]

BumpProgress(e) ==
    /\ task[e] = "bumping"
    /\ BumpRow(e)
    /\ Goto(e, "acking")
    /\ NoFault
    /\ UNCHANGED <<request, streamVars, verdict, scores, loopVars>>

(* The UPDATE or its commit raises: either nothing happened, or the row    *)
(* was bumped and only the answer was lost.  No acknowledgement follows.   *)
BumpFails(e) ==
    /\ task[e] = "bumping"
    /\ Fault
    /\ \/ BumpRow(e) /\ Goto(e, "finished")
       \/ UNCHANGED rowVars /\ Goto(e, "stranded")
    /\ UNCHANGED <<request, streamVars, verdict, scores, loopVars>>

Ack(e) ==
    /\ task[e] = "acking"
    /\ pel' = pel \ {e}
    /\ Goto(e, "finished")
    /\ NoFault
    /\ UNCHANGED <<apiVars, completed, errors, unread, group, verdict, scores, loopVars>>

AckFails(e) ==
    /\ task[e] = "acking"
    /\ Fault
    /\ pel' \in {pel, pel \ {e}}
    /\ Goto(e, "finished")
    /\ UNCHANGED <<apiVars, completed, errors, unread, group, verdict, scores, loopVars>>

-----------------------------------------------------------------------------
(* The specification                                                       *)

ApiStep(r)    == CreateRun(r) \/ CommitFails(r) \/ FanOut(r) \/ FanOutFails(r)
LoopStep(w)   == \/ StartWorker(w) \/ EnsureGroup(w) \/ ReadBatch(w) \/ ReadFails(w)
                 \/ EndBatch(w) \/ Stop(w) \/ ExitIdle(w) \/ Crash(w)
HandleStep(e) == LoadContext(e) \/ Judge(e) \/ WriteScore(e) \/ BumpProgress(e) \/ Ack(e)
HandleFails(e) == LoadFails(e) \/ WriteFails(e) \/ BumpFails(e) \/ AckFails(e)

Next ==
    \/ \E r \in Runs : ApiStep(r)
    \/ \E w \in Workers : LoopStep(w)
    \/ \E e \in Entries : HandleStep(e) \/ HandleFails(e)

Spec == Init /\ [][Next]_vars

(* The event loops run what is runnable; a container that exits is started *)
(* again (restart: unless-stopped); a blocked read returns when there are  *)
(* entries.  Nothing obliges a client to ask for a run, an operator to     *)
(* stop a worker, or a fault to happen.                                    *)
Fairness ==
    /\ \A r \in Runs : WF_vars(FanOut(r) \/ FanOutFails(r))
    /\ \A w \in Workers : /\ WF_vars(StartWorker(w) \/ EnsureGroup(w))
                          /\ WF_vars(ReadBatch(w))
                          /\ WF_vars(EndBatch(w) \/ ExitIdle(w))
    /\ \A e \in Entries : WF_vars(HandleStep(e) \/ HandleFails(e))

FairSpec == Spec /\ Fairness

-----------------------------------------------------------------------------
(* Properties                                                              *)

TypeOK ==
    /\ request \in [Runs -> RequestStates]
    /\ status \in [Runs -> Statuses]
    /\ completed \in [Runs -> Nat]
    /\ errors \in [Runs -> Nat]
    /\ unread \in Seq(Entries)
    /\ group \in BOOLEAN
    /\ pel \subseteq Entries
    /\ task \in [Entries -> TaskState]
    /\ verdict \in [Entries -> Verdicts]
    /\ scores \subseteq Entries \X Verdicts
    /\ worker \in [Workers -> WorkerStates]
    /\ running \in [Workers -> BOOLEAN]
    /\ batch \in [Workers -> SUBSET Entries]
    /\ faults \in Nat

(* The atomic UPDATEs of handlers that run in any order, in one worker or  *)
(* several, keep the counters equal to what was really processed: as many  *)
(* records as were counted, as many errors as were counted with an error.  *)
CountersExact ==
    \A r \in Runs : /\ completed[r] = Cardinality(Counted(r))
                    /\ errors[r] = Cardinality(Flagged(r))

(* A client that sees "done" may read the scores: every record of the      *)
(* dataset has a row by then, and error_count of them are error rows.      *)
DoneMeansScored ==
    \A r \in Runs : status[r] = "done" =>
        /\ \A i \in 1 .. Size[r] : \E v \in Verdicts : <<<<r, i>>, v>> \in scores
        /\ errors[r] = Cardinality({i \in 1 .. Size[r] :
                            \E v \in {"flagged", "error"} : <<<<r, i>>, v>> \in scores})

(* The status column never disagrees with the counters of its row, and a   *)
(* run without records is never accepted (it could not ever be done).      *)
StatusMatchesCount ==
    \A r \in Runs :
        /\ status[r] \in {"none", "queued"} => completed[r] = 0
        /\ status[r] = "running" => completed[r] \in 1 .. (Size[r] - 1)
        /\ status[r] = "done" => completed[r] = Size[r]
        /\ status[r] # "none" => Size[r] > 0

(* What the consumer's docstring counts on for a later XAUTOCLAIM loop: a  *)
(* delivered entry leaves the pending list only when its run counts it, so *)
(* every entry that still needs work can be found there.                   *)
UncountedStaysPending ==
    \A e \in Entries :
        task[e] \in Active \union Settled /\ e[2] \notin Counted(e[1]) => e \in pel

(* The group delivers each published entry once: those still undelivered   *)
(* are in the stream exactly once, and nothing else is.                    *)
DeliveredOnce ==
    /\ \A j, k \in 1 .. Len(unread) : unread[j] = unread[k] => j = k
    /\ \A e \in Entries : task[e] = "unread" <=> \E j \in 1 .. Len(unread) : unread[j] = e

(* A finished run is frozen: no late, repeated or stray message changes    *)
(* its status or its counters.                                             *)
DoneIsFinal ==
    [][\A r \in Runs : status[r] = "done" =>
           UNCHANGED <<status[r], completed[r], errors[r]>>]_vars

(* The counters implement the sets of records that a run promises to count *)
(* (RunLedger): a run is done exactly when every record has been counted.  *)
Ledger == INSTANCE RunLedger WITH
    counted <- [r \in Runs |-> Counted(r)],
    flagged <- [r \in Runs |-> Flagged(r)]

ImplementsLedger == Ledger!Spec

(* Without faults a run the client was told about is done in the end, and  *)
(* the CLI's `watch` loop, which polls until then, returns: unless its     *)
(* metric has no scale, or MAXLEN evicted one of its messages.             *)
RunsFinish ==
    \A r \in Runs \ Scaleless :
        request[r] = "replied" ~>
            \/ status[r] = "done"
            \/ faults > 0
            \/ \E i \in 1 .. Size[r] : task[<<r, i>>] = "evicted"

(* Whatever fails, no message stays in limbo: once published it is counted,*)
(* stranded in the pending list or evicted from the stream.                *)
EveryMessageSettles ==
    \A e \in Entries : task[e] = "unread" ~> task[e] \in Settled \union {"evicted"}

(* A stop() that arrives after start() set the flag ends the consumer,     *)
(* after the batch it is working on at most.                               *)
StopEndsLoop ==
    \A w \in Workers :
        worker[w] \in {"polling", "handling"} /\ ~running[w] ~> worker[w] = "down"

(* eval-bench/README.md: the CLI "tails `/v1/runs/{id}` until status flips  *)
(* to `done`", which a metric without a scale refutes.                     *)
RunsGetDone == \A r \in Runs : request[r] = "replied" ~> status[r] = "done"

=============================================================================
