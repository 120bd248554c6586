---------------------------- MODULE TraceStream ----------------------------
(***************************************************************************)
(* The trace pipeline: the ingest service takes the requests of SDKs and   *)
(* OTLP exporters and publishes one stream entry per trace; the stream     *)
(* consumers of the worker processes insert the spans of an entry into     *)
(* ClickHouse and acknowledge it.                                          *)
(*                                                                         *)
(* log holds what was ever published, entry n of it the n-th one, a pair   *)
(* of a request and one of its traces.  The spans of a trace matter only   *)
(* for what the writer makes of them, Kind.  Each call to Redis or to      *)
(* ClickHouse may fail, before or after it took effect, and a process may  *)
(* die between two calls: MaxFaults bounds how often.                      *)
(***************************************************************************)
EXTENDS Naturals, Sequences, SequencesExt, FiniteSetsExt

CONSTANTS
    Requests,   \* what clients post to /v1/traces and /v1/otlp/traces
    Traces,     \* Traces[q]: the traces of request q
    Kind,       \* Kind[t]: "rows"; "empty": without an id or without spans;
                \* "bad": not an object, or a span without a start, so that
                \* the insert raises
    Workers,    \* the consumers of the group
    BatchSize,  \* entries per XREADGROUP
    MaxLen,     \* the MAXLEN the stream is trimmed to
    MaxPosts,   \* bound: how often an exporter posts one request
    MaxFaults   \* bound: number of faults in a behaviour

ASSUME TraceStreamAssumption ==
    /\ \A q \in Requests : \A t \in Traces[q] : Kind[t] \in {"rows", "empty", "bad"}
    /\ BatchSize \in Nat \ {0}
    /\ MaxLen \in Nat
    /\ MaxPosts \in Nat
    /\ MaxFaults \in Nat

VARIABLES
    post,      \* post[q]: progress of the handler of request q, or its answer
    posts,     \* posts[q]: how often it was posted
    todo,      \* todo[q]: traces its handler has not published yet
    log,       \* all entries ever published
    unread,    \* the part of the stream the group has not delivered yet
    evicted,   \* entries trimmed before they were delivered
    group,     \* the consumer group exists
    pel,       \* the group's pending entries: delivered, not acknowledged
    stored,    \* the inserts into spans: the entries, in their order
    worker,    \* worker[w]: where the consumer of w is
    running,   \* running[w]: its _running flag
    batch,     \* batch[w]: what is left of the entries it has read
    faults     \* number of faults so far

apiVars  == <<post, posts, todo>>
readVars == <<unread, group, pel>>
loopVars == <<worker, running, batch>>
vars == <<post, posts, todo, log, unread, evicted, group, pel, stored, worker,
          running, batch, faults>>

KindOf(n) == Kind[log[n][2]]

Init ==
    /\ post = [q \in Requests |-> "idle"]
    /\ posts = [q \in Requests |-> 0]
    /\ todo = [q \in Requests |-> {}]
    /\ log = <<>>
    /\ unread = <<>>
    /\ evicted = {}
    /\ group = FALSE
    /\ pel = {}
    /\ stored = <<>>
    /\ worker = [w \in Workers |-> "down"]
    /\ running = [w \in Workers |-> FALSE]
    /\ batch = [w \in Workers |-> <<>>]
    /\ faults = 0

\* The definitions named Bug... are not part of the specification: each is the
\* definition after it with a plausible slip, which a property must catch.

Fault   == faults < MaxFaults /\ faults' = faults + 1
NoFault == UNCHANGED faults

-----------------------------------------------------------------------------
(* The ingest service                                                      *)

Reply(q, code) == post' = [post EXCEPT ![q] = code]

(* A client may post again what was answered with 503 or not at all, as    *)
(* OTLP exporters do; the SDKs post once.  A body that is refused (400,    *)
(* 413, 415) changes nothing; one without traces is accepted.              *)
Post(q) ==
    /\ post[q] \in {"idle", "503", "lost"}
    /\ posts[q] < MaxPosts
    /\ posts' = [posts EXCEPT ![q] = @ + 1]
    /\ Reply(q, IF Traces[q] = {} THEN "202" ELSE "publishing")
    /\ todo' = [todo EXCEPT ![q] = Traces[q]]
    /\ NoFault
    /\ UNCHANGED <<log, evicted, readVars, stored, loopVars>>

(* XADD MAXLEN ~ may trim any number of the oldest entries as long as      *)
(* MaxLen of them remain; the part that was read goes first.               *)
XAdd(q, t) ==
    LET n      == Len(log) + 1
        stream == Append(unread, n)
    IN  /\ log' = Append(log, <<q, t>>)
        /\ \E k \in 0 .. Max({0, Len(stream) - MaxLen}) :
              /\ unread' = SubSeq(stream, k + 1, Len(stream))
              /\ evicted' = evicted \union {stream[j] : j \in 1 .. k}

\* One trace of the request is on the stream; after the last one, a 202.
Published(q, t) ==
    /\ todo' = [todo EXCEPT ![q] = @ \ {t}]
    /\ Reply(q, IF todo[q] = {t} THEN "202" ELSE "publishing")

BugSkipTrace(q, t) == Published(q, t)
\* Nothing is taken back of what the request has published before.
Refused(q, t) == Reply(q, "503") /\ todo' = [todo EXCEPT ![q] = {}]

Publish(q) ==
    /\ post[q] = "publishing"
    /\ \E t \in todo[q] : XAdd(q, t) /\ Published(q, t)
    /\ NoFault
    /\ UNCHANGED <<posts, group, pel, stored, loopVars>>

(* XADD raises, and may have appended its entry.  When only the answer is  *)
(* lost, go-redis sends the command again: a second entry, unseen.         *)
PublishFails(q) ==
    /\ post[q] = "publishing"
    /\ Fault
    /\ \E t \in todo[q] :
          \/ Refused(q, t) /\ UNCHANGED <<log, unread, evicted>>
          \/ Refused(q, t) /\ XAdd(q, t)
          \/ UNCHANGED <<post, todo>> /\ XAdd(q, t)
    /\ UNCHANGED <<posts, group, pel, stored, loopVars>>

(* The ingest process dies with the request, or the client hears nothing.  *)
RequestLost(q) ==
    /\ post[q] = "publishing"
    /\ Fault
    /\ Reply(q, "lost")
    /\ todo' = [todo EXCEPT ![q] = {}]
    /\ UNCHANGED <<posts, log, evicted, readVars, stored, loopVars>>

-----------------------------------------------------------------------------
(* The consumer of a worker process                                        *)

At(w, place) == worker' = [worker EXCEPT ![w] = place]

StartWorker(w) ==
    /\ worker[w] = "down"
    /\ At(w, "starting")
    /\ NoFault
    /\ UNCHANGED <<apiVars, log, evicted, readVars, stored, running, batch>>

BugStartAtEnd == IF group THEN unread ELSE <<>>
BugResetGroup == [n \in DOMAIN log |-> n]
\* XGROUP CREATE with id "0": a group made now is given the whole stream, and
\* one that exists (BUSYGROUP) goes on where it was.
GroupStart == unread

EnsureGroup(w) ==
    /\ worker[w] = "starting"
    /\ At(w, "polling")
    /\ running' = [running EXCEPT ![w] = TRUE]
    /\ group' = TRUE
    /\ unread' = GroupStart
    /\ NoFault
    /\ UNCHANGED <<apiVars, log, evicted, pel, stored, batch>>

Delivery == SubSeq(unread, 1, Min({BatchSize, Len(unread)}))

Deliver ==
    /\ unread # <<>>
    /\ unread' = SubSeq(unread, Len(Delivery) + 1, Len(unread))
    /\ pel' = pel \union ToSet(Delivery)

ReadBatch(w) ==
    /\ worker[w] = "polling"
    /\ Deliver
    /\ batch' = [batch EXCEPT ![w] = Delivery]
    /\ At(w, "writing")
    /\ NoFault
    /\ UNCHANGED <<apiVars, log, evicted, group, stored, running>>

\* while self._running: poll again, or leave the loop after stop().
LoopTop(w) == IF running[w] THEN "polling" ELSE "down"

(* The read raises.  When only its reply was lost, the entries are pending *)
(* and the loop asks for ">" only.                                         *)
ReadFails(w) ==
    /\ worker[w] = "polling"
    /\ Fault
    /\ Deliver \/ UNCHANGED <<unread, pel>>
    /\ At(w, LoopTop(w))
    /\ UNCHANGED <<apiVars, log, evicted, group, stored, running, batch>>

BugKeepWriting(w) ==
    /\ batch' = [batch EXCEPT ![w] = Tail(@)]
    /\ At(w, "writing")
(* On to the next message, whatever became of this one; stop() is noticed  *)
(* after the last.                                                         *)
NextMessage(w) ==
    /\ batch' = [batch EXCEPT ![w] = Tail(@)]
    /\ At(w, IF Len(batch[w]) = 1 THEN LoopTop(w) ELSE "writing")

BugRetryInPlace(w) == UNCHANGED <<batch, worker>>
\* The except clause logs and leaves the entry pending.
Skipped(w) == NextMessage(w)

BugAckFirst(w) == pel' = pel \ {Head(batch[w])}
PendingWhileWriting(w) == UNCHANGED pel

(* write_trace: the spans of the entry are one insert; without an id or    *)
(* spans there is nothing to insert; a bad trace raises.                   *)
WriteTrace(w) ==
    LET n == Head(batch[w])
    IN  /\ worker[w] = "writing"
        /\ PendingWhileWriting(w)
        /\ stored' = IF KindOf(n) = "rows" THEN Append(stored, n) ELSE stored
        /\ IF KindOf(n) = "bad" THEN Skipped(w) ELSE At(w, "acking") /\ UNCHANGED batch
        /\ NoFault
        /\ UNCHANGED <<apiVars, log, evicted, unread, group, running>>

(* The insert raises, and may have stored the rows.                        *)
WriteFails(w) ==
    LET n == Head(batch[w])
    IN  /\ worker[w] = "writing"
        /\ Fault
        /\ KindOf(n) = "rows"
        /\ PendingWhileWriting(w)
        /\ stored' \in {stored, Append(stored, n)}
        /\ Skipped(w)
        /\ UNCHANGED <<apiVars, log, evicted, unread, group, running>>

Ack(w) ==
    /\ worker[w] = "acking"
    /\ pel' = pel \ {Head(batch[w])}
    /\ NextMessage(w)
    /\ NoFault
    /\ UNCHANGED <<apiVars, log, evicted, unread, group, stored, running>>

AckFails(w) ==
    /\ worker[w] = "acking"
    /\ Fault
    /\ pel' \in {pel, pel \ {Head(batch[w])}}
    /\ Skipped(w)
    /\ UNCHANGED <<apiVars, log, evicted, unread, group, stored, running>>

Stop(w) ==
    /\ worker[w] # "down"
    /\ running' = [running EXCEPT ![w] = FALSE]
    /\ NoFault
    /\ UNCHANGED <<apiVars, log, evicted, readVars, stored, worker, batch>>

\* A blocked read times out with nothing to deliver and the flag is down.
ExitIdle(w) ==
    /\ worker[w] = "polling"
    /\ ~running[w]
    /\ unread = <<>>
    /\ At(w, "down")
    /\ NoFault
    /\ UNCHANGED <<apiVars, log, evicted, readVars, stored, running, batch>>

(* The process dies, or the other consumer of its gather raises; a write   *)
(* that a thread had begun may still take effect.                          *)
Crash(w) ==
    /\ worker[w] # "down"
    /\ Fault
    /\ stored' \in {stored} \union
           (IF worker[w] = "writing" /\ KindOf(Head(batch[w])) = "rows"
            THEN {Append(stored, Head(batch[w]))} ELSE {})
    /\ At(w, "down")
    /\ running' = [running EXCEPT ![w] = FALSE]
    /\ batch' = [batch EXCEPT ![w] = <<>>]
    /\ UNCHANGED <<apiVars, log, evicted, readVars>>

-----------------------------------------------------------------------------
(* The specification                                                       *)

ApiStep(q)     == Post(q) \/ Publish(q) \/ PublishFails(q) \/ RequestLost(q)
MessageStep(w) == WriteTrace(w) \/ WriteFails(w) \/ Ack(w) \/ AckFails(w)
LoopStep(w)    == StartWorker(w) \/ EnsureGroup(w) \/ ReadBatch(w) \/ ReadFails(w)
                  \/ MessageStep(w) \/ Stop(w) \/ ExitIdle(w) \/ Crash(w)

Next == (\E q \in Requests : ApiStep(q)) \/ (\E w \in Workers : LoopStep(w))

Spec == Init /\ [][Next]_vars

(* Handlers and consumers go on, and a container that exits is started     *)
(* again (restart: unless-stopped).  Nothing obliges anybody to post.      *)
Fairness ==
    /\ \A q \in Requests : WF_vars(Publish(q))
    /\ \A w \in Workers : /\ WF_vars(StartWorker(w) \/ EnsureGroup(w))
                          /\ WF_vars(ReadBatch(w))
                          /\ WF_vars(MessageStep(w) \/ ExitIdle(w))
FairSpec == Spec /\ Fairness

-----------------------------------------------------------------------------
(* Properties                                                              *)

Answers == {"202", "503", "lost"}

TypeOK ==
    /\ post \in [Requests -> {"idle", "publishing"} \union Answers]
    /\ posts \in [Requests -> 0 .. MaxPosts]
    /\ \A q \in Requests : todo[q] \subseteq Traces[q] /\ (todo[q] # {} <=> post[q] = "publishing")
    /\ ToSet(unread) \union evicted \union pel \union ToSet(stored) \subseteq DOMAIN log
    /\ worker \in [Workers -> {"down", "starting", "polling", "writing", "acking"}]
    /\ \A w \in Workers : batch[w] # <<>> <=> worker[w] \in {"writing", "acking"}
    /\ group \in BOOLEAN /\ running \in [Workers -> BOOLEAN] /\ faults \in Nat

Stored(n) == n \in ToSet(stored)

(* A trace that was accepted is never lost to a failure: it is stored, or  *)
(* one of its entries waits in the stream or in the pending list; only the *)
(* MAXLEN trim takes it, or a writer that finds nothing in it.             *)
AcceptedIsKept ==
    \A q \in Requests : post[q] = "202" => \A t \in Traces[q] :
        \E n \in DOMAIN log :
            /\ log[n] = <<q, t>>
            /\ \/ Stored(n) \/ n \in ToSet(unread) \/ n \in pel
               \/ n \in evicted \/ Kind[t] = "empty"

(* "Acks on successful CH insert.  Failed inserts are left pending": what  *)
(* the group delivered and nobody has pending was stored, or is empty.     *)
AckedIsStored ==
    \A n \in DOMAIN log \ (ToSet(unread) \union evicted \union pel) :
        Stored(n) \/ KindOf(n) = "empty"

(* An entry is inserted once at most, however its write, its acknowledge-  *)
(* ment and its worker fail, and by one worker at a time.                  *)
StoredOnce ==
    /\ IsInjective(stored)
    /\ \A v, w \in Workers : v # w => ToSet(batch[v]) \intersect ToSet(batch[w]) = {}

(* A trace has one row set more than it should for every fault at most:    *)
(* restarts, trims and repeated posts alone add none.                      *)
CopiesHaveCauses ==
    \A q \in Requests : \A t \in Traces[q] :
        Cardinality({i \in DOMAIN stored : log[stored[i]] = <<q, t>>}) <= 1 + faults

InHand(n) == n \in ToSet(unread) \/ \E w \in Workers : n \in ToSet(batch[w])

(* No message blocks the ones behind it: however the writes fail and the   *)
(* workers die, bad traces included, the stream and the workers come to    *)
(* hold nothing again and again, since clients post finitely often.        *)
EntriesMoveOn == []<>(\A n \in DOMAIN log : ~InHand(n))

(* Without faults an accepted trace that has rows gets them stored, unless *)
(* the trim took its entry.                                                *)
CleanTracesArrive ==
    \A q \in Requests : \A t \in {u \in Traces[q] : Kind[u] = "rows"} :
        post[q] = "202" ~>
            \/ faults > 0
            \/ \E n \in DOMAIN log : log[n] = <<q, t>> /\ (Stored(n) \/ n \in evicted)

=============================================================================
