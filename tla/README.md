# Verification of llm-judge

TLA+ modules that model the stateful core of llm-judge, TLC configurations that
check them on small instances, and TLAPS proofs about the eval run engine, the
judging of a record, the label queue and agreement snapshot, the trace pipeline,
the registry, the tracing SDKs, and the calculations.
Paths below are relative to the repository; `services/api/...` and
`services/workers/...` stand for `services/api/src/judge_api/...` and
`services/workers/src/judge_workers/...`.

    tlc -workers 2 -config MCEvalRunFaults.cfg MCEvalRun    # one run
    tlapm EvalRunProofs.tla                                 # proofs of one module

## 1. The system

llm-judge evaluates the outputs of language models with other language models
and calibrates these judges against human labels. Its processes share nothing
but three stores:

    SDK / OTLP exporter --> ingest (Go) --> Redis stream judge:traces
                                               |
                             workers: StreamConsumer --> ClickHouse spans
                             workers: EvalConsumer  <--> Postgres, ClickHouse scores
                                               ^             ^
                            Redis stream judge:evals         |
                                               |             |
    CLI, web app --------> API (FastAPI) ----------------> Postgres

| component | state it keeps | operations | module |
|---|---|---|---|
| eval run engine: `routes/runs.py`, `eval_consumer.py`, `main.py` | `runs` rows, stream `judge:evals`, its group and pending list, `scores` | create run and fan out; read a batch; handle a message (load, judge, write, count, acknowledge); start, stop | `EvalRun`, `RunLedger` |
| judging of a record: `judge/*.py`, `_process` | none between records | render, ask the primary and fallback models, parse, combine, penalise, guard, cost | `JudgeRecord` |
| labels, agreement, queue: `routes/labels.py`, `routes/queue.py` | `users`, `human_labels`, `label_queue`, `agreement_metrics` | label, recompute, refresh, claim, skip | `Labelling` |
| trace pipeline: `services/ingest`, `stream_consumer.py`, `ch_writer.py` | stream `judge:traces`, its group and pending list, `spans` | post (native, OTLP), publish, read, insert, acknowledge | `TraceStream` |
| registry: `routes/metrics.py`, `routes/datasets.py`, `judge run` | `metrics`, `metric_versions`, `datasets`, `dataset_versions`, `dataset_records` | register, upload, pin a run to versions | `Registry`, `VersionLog` |
| agreement statistics: `metrics/agreement.py`, `_recompute_agreement` | none | kappas, correlations, what a snapshot holds | `AgreementStats` |
| queue ranking: `routes/queue.py` | none | strategies, their blend, the cut at the queue size | `QueueRanking` |
| OTLP translation: `internal/otlp` | none | group spans into traces, times, names | `OtlpTranslate` |
| tracing SDKs: `sdk-ts/src/{trace,context}.ts`, `sdk-python/.../_trace.py` | the current trace and span of the running code, the spans of a trace | trace, span, end; post the trace | `Tracing`, `TsTracing`, `PyTracing`, `SpanTree` |
| API command line | org, project, key rows | bootstrap, migrations | not modelled |
| read endpoints, web app, eval-bench, deployment | none of their own | queries, rendering, data | not modelled |

What is hard, and has no test, in each of them:

* **Eval runs.** Handlers of one batch and of several workers bump the same
  row. One message touches ClickHouse, Postgres and Redis, each of which may
  fail alone, before or after it took effect. The run row is committed before
  its messages are published. `MAXLEN` trims messages nobody has read. Nothing
  reclaims a pending message. Correct: the counters are what was processed,
  done means scored, done is final, no work vanishes silently, and a run that
  met no failure gets done.
* **Judging.** Fallbacks per pass, swapped slots, free-text replies, scales of
  any bounds. Correct: a score in the unit interval that keeps the order of
  ratings, pairs decided only by agreement, a row for every record.
* **Labelling.** Requests are several READ COMMITTED statements or several
  transactions, and a refresh holds the rows it deleted and the keys it inserted,
  for which others wait, other refreshes in a circle. Correct: claims survive
  refreshes, the queue holds unlabelled records, the snapshot is that of the
  labels, everybody is answered.
* **Traces.** A request publishes several entries one by one; clients and
  go-redis repeat; inserts and acknowledgements fail apart. Correct: accepted
  is kept, acknowledged is stored, an entry is inserted once, nothing blocks the
  stream.
* **Registry.** `max + 1` and look-before-insert under concurrency; parent rows
  flushed before their versions. Correct: append-only logs of versions, nothing
  partial, a suite runs what it registered.

* **Tracing SDKs.** Which trace and span the code is in is read from a context
  that calls, awaits, threads, tasks and exceptions change. Correct: a span is
  recorded in the trace of the code that opened it, under the innermost open
  span, and a trace is a tree that is sent once.
* **Calculations.** Ties, constant columns, missing judge scores, missing
  times. Correct: statistics are those of the definitions, the queue gets the
  best records, the translation loses no span.

PROJECT.json lists every hazard at its line with the properties that watch it.

## 2. The modules

All modules follow one pattern. An action is what the code does between two
awaits that leave the process: one SQL statement or commit, one Redis command,
one insert into ClickHouse. Where a call may fail there is an action named
`...Fails` (or `Abort`, `Crash`) that takes one of the outcomes the call can have:
no effect, or an effect with a lost answer. `MaxFaults` bounds how many of these
happen in a behaviour. Definitions named `Bug...` are slips a programmer might
make in the definition that follows them; no action uses them. They show that
each property can fail (see "mutants" in PROJECT.json).

### EvalRun, and RunLedger above it

`EvalRun` covers `POST /v1/runs` and `EvalConsumer`. `request[r]` is the progress
of the request, `status`, `completed` and `errors` the columns of the run row,
`unread` the stream after the group's last-delivered id, `pel` the pending list,
`task[e]` where entry e = <<run, record index>> is (unpublished, unread, the steps of
its handler, counted, stranded, evicted), `scores` the rows in ClickHouse.
`worker`, `running` and `batch` are the loop of a worker and the entries its
`gather` waits for.

| code | actions |
|---|---|
| `create_run` up to the commit; the commit raises | `CreateRun`, `CommitFails` |
| the fan-out pipeline (MULTI/EXEC, atomic) | `FanOut`, `FanOutFails` |
| `EvalConsumer.start`, `_ensure_group` | `StartWorker`, `EnsureGroup` |
| `_loop` | `ReadBatch`, `ReadFails`, `EndBatch`, `ExitIdle` |
| `_handle`, `_process`, `_bump_progress`, `_ack` | `LoadContext` ... `AckFails` |
| signal handler, process death | `Stop`, `Crash` |

`RunLedger` is what a run promises: a set of counted records, a status that is
"done" exactly when all are counted, each record counted once. `EvalRun` has only
the integers the code has; `ImplementsLedger` says that the integers behave like
the sets.

Left out: `started_at` and `finished_at`; the read-only 404 look-ups (those are in
`Registry`); the value of a score (`JudgeRecord`). `_process` reads the judge
configuration of the metric version, so `judge_config_override` changes nothing
in the model, as in the code. redis-py 5 does not repeat commands, so a lost
answer is not sent again. The semaphore of `_loop` never blocks because a batch
is never larger than it. A shared ClickHouse client that refuses overlapping
calls is a `WriteFails`.

### JudgeRecord

One behaviour judges one record: `Render`, then for each pass `Ask` and, when
the primary raised, `AskFallback`, then `Score`; `Raise` and `ErrorRow` for every
way to the `except` clause. Texts are sequences of tokens, the ones the regular
expressions of `parser.py` tell apart, together with what the judge meant.
Scores are integers in units of 1/`Unit`; instances choose scales that divide
it, so nothing is rounded. `EvalRun` sees only the verdict: clean row, row of an
unparseable or flagged judgement, error row.

### Labelling

All requests on one metric version of one project: `pc[c]` is the next statement
of the request of client c, `mem[c]` what its Python code holds, `deleted[c]`,
`added[c]` and `inserting[c]` what its transaction has done and not committed: queue
rows deleted, queue rows inserted, a user inserted. Postgres is modelled where the
code relies on it: a statement waits for a row another transaction deleted or a
key it inserted (`Needs`, `WaitsFor`) and looks at it again afterwards, a circle of
waits is ended by an error in one of them (`BreakDeadlock`), an ORM update writes
only the columns that differ from what was loaded, unique constraints reject. The
DELETE of a refresh takes its rows one by one in any order (`DeleteRow`); the INSERT
that its commit flushes takes them in the order of the ranking, which is that of
`session.add` (`InsertRow`), and only then does it commit (`CommitRefresh`). A
snapshot holds what `AgreementStats` computes from the labels and `JudgeScores`, and
a refresh ranks its records by `QueueRanking` from `JudgeScores`, `Lengths` and the
weights and size of its own body, one of `Bodies`; equal priorities come in any
order. Left out: several metrics.

### AgreementStats, QueueRanking, OtlpTranslate

Pure functions, used by `Labelling` and beside `TraceStream`, each next to a
reference definition (`...Sound`, `StrategiesShare`, `RanksBest`) that says what it is
for without saying how it is computed. Floats are replaced by exact numbers:
scores are quarters (so that `round()` meets its halves), a statistic is a
reduced fraction, a correlation its sign and square, priorities are multiples of
one unit; `tanh` is a table that is strictly increasing over the arguments of an
instance. Times of OTLP are nanoseconds and become milliseconds as in
`unixNanoToMs`; `Missing` stands for what a client left out. The k-th value of a sorted
list is defined by how many are below it (`Smallest`, `Indexed`), and the loops of
`_fractional_ranks` and `Translate` are recursive functions, so that they can be
proved about.

What there is to calculate with is constant: `Calculations` declares the samples, matrices,
tables and sizes of the first two modules, `OtlpTranslate` the requests, and an assumption
says what they are (integers, rows of one length, times that are natural or missing). What is
calculated with at the moment is a variable, `input` and `request`: `Calculating` and
`Translating` allow one calculation after another, on any input each. `AgreementIsSound`,
`RankingIsSound` and `TranslationIsSound` ask the reference definitions of that input. An
instance names a few inputs (`MCLabellingAlone`, `MCTraceStream`: each is that of some initial
state, and the first step of `Labelling` or `TraceStream` replaces it by the empty one, so
that nothing is calculated twice); the proofs need the assumption only.

### TraceStream

Requests with their traces, the log of everything published, the part the group
has not delivered, the pending list, the sequence of inserts, and the consumer
loop. `Kind` says what the writer makes of a trace: rows, nothing ("empty"), or an
exception ("bad": a payload that is not an object, a span without a start). XADD
may be repeated by go-redis, which retries a command whose answer it did not get.
Left out: bodies that are refused (nothing happens), entries that are not JSON
(`server.go:103` lets none through).

### Registry, and VersionLog above it

Clients work through eval suites as `judge run` does (register, upload, run of
the versions they were given) or ask for a run of the latest versions. Uncommitted
rows are in `added[c]`; an INSERT waits for an uncommitted row with its key and
raises on a committed one. `VersionLog` is the promise of
`db/models.py:108`: per metric and dataset a sequence that only grows, for metrics
without repetition. `CommitRun` ends where `EvalRun.CreateRun` begins: there the
row is committed and the fan-out starts.

### Tracing, TsTracing, PyTracing, and SpanTree above them

`TsTracing` runs pieces of JavaScript one at a time: the part of a traced call up
to its first await, a later part, a branch nobody awaits. `stack` is the chain of
`run()` calls of the piece, `active` what `als.get()` returns. `store` is decided once,
by `createContextStore`: "als" brings the context of a piece back, "slot" is the
single global slot. `Open`, `OpenLost` and `End` are what user code may do with spans in
any order: end them late, early, twice or never.

`PyTracing` has a context per thread or task. A thread starts empty, a task with
a copy (`StartThread`, `StartTask`); in each the calls and with-blocks nest (`stack`),
and leaving one restores what its token holds. `OpenOnly` is a span that is opened
and never entered.

`Tracing` joins the two by a variable `sdk`, so that one specification and one
run cover both, and both are shown to implement `SpanTree`: spans are added under
spans that exist, and a trace is sent once. Left out: input, output, metadata
and cost of a span, the wrapped model clients (they call `span()` as user code
does), the post itself (errors are swallowed, nothing is repeated), generators
suspended inside a with-block.

### Interfaces

`Registry` hands `EvalRun` a non-empty dataset version and a metric version; `EvalRun`
asks `JudgeRecord` for one verdict per record; `Labelling` reads scores, which may be
missing (`JudgeClients`). `Tracing` ends with the post that `TraceStream` begins with;
the traces `Kind` sorts are those of `OtlpTranslate` or of an SDK. `EvalRun` and `TraceStream` share a process: `Crash` of one
covers an exception of the other (`gather` in `main.py:46`).

## 3. The runs

| run | instance | shows |
|---|---|---|
| `MCEvalRunFaults` | runs of two and zero records, two workers, MAXLEN 1, two faults | safety of the engine, `ImplementsLedger` |
| `MCEvalRunLive` | runs of two and one records (one without a scale), one worker of concurrency two, two faults, fair | `RunsFinish`, `EveryMessageSettles`, `StopEndsLoop` |
| `MCEvalRunNoScale` | the same without faults | violation: a run of a metric without a scale never finishes |
| `MCJudgeRecord` | all jobs and replies of the instance | the properties of a row |
| `MCJudgeRecordProse` | replies in prose | violation: the article "a" counts as a verdict |
| `MCLabellingRace` | two clients, two records, queue empty or full, two bodies, three requests, one fault, fair | refreshes, claims, skips and labels interleaved, deadlocks of refreshes among them |
| `MCLabellingAlone` | one client, four requests by two users, one fault; samples of up to three scores, matrices of up to three rows, three candidates | the snapshot follows the labels; the statistics and the ranking are right |
| `MCLabellingTwoHolders` | two claims | violation: both are answered 200 |
| `MCLabellingRefresh` | refresh, claim or skip, refresh | violation: the refresh is a 500 |
| `MCTraceStream` | three traces in two requests, two workers, repeated posts, MAXLEN 2, one fault, fair; OTLP requests of up to three spans | the trace pipeline, and the OTLP translation |
| `MCTracing` | two calls of three spans, one other thread or task, three levels deep | both SDKs, `ImplementsSpanTree` |
| `MCRegistry` | two clients, three jobs, one fault, fair | the registry, `ImplementsVersionLog` |

**Bounds.** Two workers, clients or handlers are enough for each race in this
code, since every one is between a read and a write of one party and a write of
one other. Two records tell a counter that is short by one from one that is
right, and a run that is running from one that is done. MAXLEN is smaller than
what is published, so that the trim happens before and in the middle of a
delivery. One fault puts a failure at any point; two put a second one into its
aftermath. Three jobs of the registry are two that collide and one afterwards.
Two traced calls are one that might write into the other's trace; three spans are
a parent, a child that ends too late and one that is opened afterwards. The
calculations are worked out in the initial states only, over all inputs of the
size given: two raters and three records are where ties, constant columns and a
disagreement first occur together. The two bodies of `MCLabellingRace` ask for two records:
the default weights rank r1 first when its judge score is known, weights that look at
lengths only rank the two equal. An empty queue is where insert meets insert, a full one
where a deletion meets claims, closings and inserts.
`Registry` and `Labelling` stop when their requests are used up, `JudgeRecord` when its
row is written and `Tracing` when its programs have ended, so these runs do not
check for deadlock; `RequestsAnswered` and `JobsEnd` are liveness properties in its
place. The remaining runs check deadlock.

**Fairness.** Handlers, requests and loops go on: FastAPI and asyncio run every
ready coroutine, judge calls carry a timeout (`router.py`), database calls return
or raise. A worker process is started again because `deploy/docker-compose.yml`
says `restart: unless-stopped`. Nothing makes a fault, a stop, a post or a job
happen. A waiting statement is fair only while it is not waiting; that Postgres looks for
circles of waits (after `deadlock_timeout`, which nothing in the repository changes) is the
fairness of `BreakDeadlock`.

**Findings.** Four runs show where the code departs from what it says.

1. `MCEvalRunNoScale`: `float(scale.get("min", 0))` (`eval_consumer.py:193`) raises for
   a metric without a scale, outside of the `try` that writes error rows.
2. `MCJudgeRecordProse`: the prose fallback of `parser.py:121` reads "this is a tie"
   as A.
3. `MCLabellingTwoHolders`: a claim checks the owner in Python and updates
   without a condition, so overlapping claims both succeed.
4. `MCLabellingRefresh`: claimed and closed rows stay, their records are
   candidates again, and the unique constraint rejects the refresh.

The models show more that no run is spent on:

* two overlapping posts of one label by one user may leave the score of one and
  the reasoning of the other (`Labelling!Updated`; `labels.py:4` calls the endpoint
  idempotent), and overlapping recomputes may leave the older snapshot
  (`SnapshotIsLatest` is checked for one client at a time);
* a refresh may queue a record that is labelled between its two statements;
* two refreshes at the same time: whichever inserts a record second is a 500 if the other
  one commits (`"duplicate"`), and when they insert the same records in different orders, or
  one deletes what the other waits to insert, Postgres ends one of them (`"deadlock"`), a
  500 too. `RequestsAnswered` says that no other kind of request is ended so;
* a cached ClickHouse client that stopped working makes a label or recompute fail
  where `labels.py:99` promises null statistics (`"no judge"` in `Labelling`);
* two registrations of the same definition at the same time: the later one is
  a 500, not the existing version (`OnlyRacesRefuse` says that this is the only
  reason, `metrics.py:5`); a suite that registers an older definition again gets its
  old version, while "latest" remains the newer one;
* an insert whose answer was lost writes a second score row for a record
  (`eval-bench/README.md:34` speaks of one);
* no code sets a run to "failed", which `db/models.py:189` lists;
* **SDK, TypeScript**: in an ES module there is no `require`, so the `new Function`
  of `context.ts:56` finds no AsyncLocalStorage and Node falls back to the global
  slot; every span after the first await is then lost (`OpenLost`), although
  `context.ts:7` calls the fallback fine for one trace per request. Spans of
  branches that run in parallel become each other's parents, and one that ends
  below the top stays on the stack and is the parent of later ones until it is
  ended again (`untidy`). A thenable that is not a Promise is finalized at once;
* **SDK, Python**: a decorated coroutine function is sent before its body ran;
  after a `BaseException` the root has no end and its status is "ok"; a span
  that is never entered is sent with a start of 0 (`_trace.py:120`); a generator
  suspended inside `with span()` may give later spans a foreign parent, which is
  outside the discipline the model assumes;
* **statistics**: judge scores in the unit interval are compared with labels of 1
  to 5 by kappa (`agreement.py:9`); in floats the mean of equal scores may differ
  from them, so that `pearson_r([0.1] * 3, [0.1] * 3)` is not None; the trim of
  unequal rows for Fleiss' kappa depends on the order of the rows;
* **ranking**: `_distance_from_decision_boundary` promises 0 at the boundaries
  and returns 1, its largest value, at the half marks of the 1 to 5 scale and 0.5 at
  0.25 and 0.75, so a strategy named for low confidence prefers the whole marks and 1/2;
  as code and docstring differ, `RankingIsSound` does not say which scores come first, only
  that a record gets a share of the weight between none and all; a score above 5 has a distance above 1, so a negative priority; the
  limit of 5000 candidates is applied before labelled records are taken out;
* **OTLP**: a span without a start makes its trace forget the earlier starts
  (1, none, 7 gives 7); the resource attributes of the first span alone are kept,
  where a comment says merged;
* pending entries of either stream are never claimed: `EveryMessageSettles`
  counts them as "stranded" and `AcceptedIsKept` as kept;
* `stop()` before `start()` has set `_running` is lost;
* `parser.py:46` says the last bare number and takes the first one of the last
  line; the self-enhancement guard looks at the model of the first pass only; an
  error in pass two loses the cost of pass one.

## 4. The properties

`TypeOK` is the type invariant of each module. The others:

**EvalRun** (proved, unless marked): `CountersExact`, counters equal what was
processed, over any interleaving of atomic updates; `DoneMeansScored`;
`UncountedStaysPending`, the pending list names all unfinished work; `DeliveredOnce`;
`ImplementsLedger`; `RunsFinish`, `EveryMessageSettles`, `StopEndsLoop` (TLC).
`StatusMatchesCount` and `DoneIsFinal` are proved only.

**JudgeRecord** (all proved): `DecisiveIsAgreed` relates the row to what both passes meant;
`ExchangeMirrors` compares a record with its mirror image; `BetterScoresNoLess` is
monotonicity over every scale and penalty; `RowAccountsForCalls`.

**Labelling**: `ClaimedRowsStay`, `OnlyOpenRowsGo` guard the queue against racing
refreshes; `QueuesUnlabelled`; `SnapshotIsLatest` for one request at a time (all four
proved); `RequestsAnswered`, in which waits end although refreshes hold rows and keys of
each other, and only a refresh pays for a deadlock. `AgreementIsSound` and `RankingIsSound` are about the functions of
`AgreementStats` and `QueueRanking`, over the inputs of `Calculations`: what a statistic
means without its formula, and who must be queued without the sorting. Proved for all inputs.

**TraceStream**: `AcceptedIsKept`, `AckedIsStored`, `StoredOnce`, `CopiesHaveCauses` (a fault
costs one duplicate at most; all proved); `EntriesMoveOn`, `CleanTracesArrive`.
`TranslationIsSound` is about `OtlpTranslate`, over its requests; proved for all.

**Tracing**: `SpansStayHome`, no call writes into the trace of another and a span is
lost only by the global slot; `ParentIsInnermost`; `ImplementsSpanTree` (all proved).

**Registry**: `ImplementsVersionLog`, `NothingPartial`, `SuiteRunsItsOwn`,
`OnlyRacesRefuse` (proved); `JobsEnd`.

## 5. The proofs

### EvalRunProofs

For every set of runs and workers, all sizes, every
concurrency, MAXLEN and number of faults, under `EvalRunAssumption` alone
(naturals where naturals are meant, a concurrency of one at least):

| theorem | of |
|---|---|
| `TypeCorrect` | `TypeOK` |
| `CountersAreExact` | `CountersExact` |
| `DoneIsScored` | `DoneMeansScored` |
| `StatusIsConsistent` | `StatusMatchesCount` |
| `DeliveryIsOnce` | `DeliveredOnce` |
| `UncountedIsPending` | `UncountedStaysPending` |
| `DoneStaysDone` | `DoneIsFinal` |
| `EngineImplementsLedger` | `ImplementsLedger` |

They rest on one inductive invariant, `IInv`. Exact counters are not inductive
alone: that an increment adds a *new* element to the set of counted records
needs that the entry was not counted before; that comes from each entry having
one state, moved only by its own handler, and being delivered once
(`DeliveredOnce`), which in turn needs that a run publishes once, after its row
exists (`RequestInv`, `HasRow`). That a done run has all its rows needs that the
handler has written before it counts (`RowWritten`), with the verdict it counts
(`RowsAgree`). Lemmas come in layers: what the sequence operations do to a stream
(`DropPrefix`, `PublishEffect`, `DeliverEffect`), type preservation (`TypeStep`), one lemma
per group of actions that leaves most of `IInv` alone (`LoopOnly`, `HandlerOnly`), the
cardinality argument of a bump (`BumpCounts`), then `IInvStep` with a step per
action. The refinement maps `BumpProgress` to `Count`, `CreateRun` and `CommitFails` to
`Accept` or a stutter, and everything else to a stutter.

### TraceStreamProofs

For every set of requests and workers, every batch size, MAXLEN and number of
posts and faults, under `TraceStreamAssumption`:

| theorem | of |
|---|---|
| `TypeCorrect` | `TypeOK` |
| `AckedEntriesAreStored` | `AckedIsStored` |
| `AcceptedTracesAreKept` | `AcceptedIsKept` |
| `EntriesAreStoredOnce` | `StoredOnce` |
| `CopiesAreAccountedFor` | `CopiesHaveCauses` |

The inductive invariant `IInv` has five parts beside the types. `AckedIsStored` needs
`AckingIsDone`: a worker acknowledges only the entry whose insert just returned,
also when the process dies in between and its successor reads a new batch.
`AcceptedIsKept` follows from `PublishedInLog`, what a request has gone past is on
the log, together with `AckedIsStored`: an entry of the log is unread, trimmed,
pending or stored. `StoredOnce` needs `OnePlace`: unread entries, the rests of the
batches (`Left`) and the stored ones are disjoint, and none repeats itself. Entries
are positions of the log, so that copies of one trace are different entries; those
are counted by a second invariant, `Accounted`: the entries of a trace, and one more
as long as it may still be published, are at most one more than there were faults.
A client posts again only what failed, which pays for the entry to come, and a
trace leaves `todo` when it is published. With `StoredOnce`, which maps the rows of a trace
one to one into its entries, this gives `CopiesHaveCauses`.

### RegistryProofs

For every set of metrics, datasets, definitions, files and clients, and every number of
jobs and faults, under `RegistryAssumption` (metrics are not datasets; `None` is no name,
no definition and no row):

| theorem | of |
|---|---|
| `TypeCorrect` | `TypeOK` |
| `NothingIsPartial` | `NothingPartial` |
| `SuitesRunTheirOwn` | `SuiteRunsItsOwn` |
| `RefusalsAreRaces` | `OnlyRacesRefuse` |
| `TablesAreLogs` | `ImplementsVersionLog` |

The code works out `max + 1` from what its transaction sees and looks a hash up before it
inserts, so that what a step relies on may be outdated. `IInv` says what of it still
holds. `NoClash`: no two rows clash, committed or pending, the part the unique constraints
and the waiting for them keep. `Numbering`: the versions of a name are 1 to `Latest`.
`NumberFits`: the number to be given was next when it was worked out, so that it is at most
`Latest + 1`; as a smaller one is taken, a row that commits has exactly `Latest + 1`, which
is the step of `VersionLog`. `AbsenceFits`: what a look-up did not find is still absent or
newer than the job, so that a clash when it is inserted is a race (`OnlyRacesRefuse`).
`SessionFits`: the session holds what the statements before this one added, which makes a
commit whole (`NothingPartial`). `ToldTheTruth` and `RunsTrue`: the numbers a suite was
answered name rows with its contents, and rows stay. `EnoughJobs` bounds versions by jobs,
for the bounded type of numbers. TLC checked `IInv` on the instance of `MCRegistry` before
it was proved. What the step of a client leaves of the others' facts is one lemma
(`BystanderKeeps`), for which tables only grow (`Growth`).

### JudgeRecordProofs

For all metrics and records, models, prices, families and replies, under
`JudgeAssumption` (`None` is no model and no row; prices and numbers are natural, the score
1.0 is an even number of units; a judge means a verdict, or the reply is empty):

| theorem | of |
|---|---|
| `TypeCorrect` | `TypeOK` |
| `DecisionsAreAgreed` | `DecisiveIsAgreed` |
| `ExchangesMirror` | `ExchangeMirrors` |
| `BetterIsNoWorse` | `BetterScoresNoLess` |
| `RowsAccountForCalls` | `RowAccountsForCalls` |

`IInv` says how many answers there are at each stage, and that the row is an error row or
the one that all answers together give (`JudgedRow`); the rest is about the functions.
`ClampedIn`, `ClampedOrder`, `QuotientOrder` and `PenalizedIn` carry the order of ratings
through the clamp, the division and the penalty (`NormalizedOrder`), for any two integers as
bounds; that the division is exact, as instances choose it, is not needed. `OpinionIsVerdict`
and `ClearIsRead` are about reading a reply, with the smallest position of a verdict in it
(`MinIsIn`); `CombinedIsVerdict` and `ScoreMirrors` are the algebra of verdicts. `FoldIsSum` and
`SumOfTwo` unfold the fold of `RowAccountsForCalls` for the one or two answers a row has.

### LabellingProofs

For every finite set of records, every set of users, scores, notes, bodies and clients, all
judge scores and lengths, any queue to begin with and any number of requests and faults, under
`LabellingAssumption` (SQL's NULL is no user, label or row; the tables of scores and lengths
are tables; weights are integers and sizes natural):

| theorem | of |
|---|---|
| `TypeCorrect` | `TypeOK` |
| `ClaimsAreKept` | `ClaimedRowsStay` |
| `RefreshesRemoveOpenRows` | `OnlyOpenRowsGo` |
| `RefreshesQueueUnlabelled` | `QueuesUnlabelled` |
| `SnapshotsAreLatest` | `SnapshotIsLatest`, for one client (`Clients = {c}`) |

What a request has read is outdated by the time it writes, and each part of `IInv` says
what of it still holds. `Locks`: a row that a refresh has deleted and not committed is
open and nobody's, a record it has inserted has no other row, and no two refreshes have the
same record in hand (`Held`), since whoever wants to change it waits (`NobodyHolds`); this is
what keeps a claim from being lost, and it needs that the deletion looks at a row again
(`StillWiped`), not the reading before it. `RowSeen`: the claim on a row a handler has loaded is
there as long as the row with that id is; ids are never used twice, so that a record wiped
and queued again is another row. `TableSeen`, `ChosenSeen`: labels never go, so that a candidate
had none when the refresh was asked for. `LabelSeen`, `SnapSeen`: what an update was decided
on is still there. `Moves` is what any step leaves of the tables; that it keeps the facts of
every client but the one that moves is one lemma (`BystanderKeeps`). `ChosenAreCandidates` says
of the ranking that it returns candidates only. `SnapshotsAreLatest` is false for two
clients (see section 3); for one, the invariant `Alone` adds that the table in memory is the
table in the store until the snapshot is saved. TLC checked `IInv` on the instance of
`MCLabellingRace` before it was proved.

### CalculationProofs

For every choice of the constants that `CalculationsAssumption` and `OtlpAssumption`
allow; `RankingIsSound` along every behaviour of `Calculating`, `TranslationIsSound` of
`Translating`:

| theorem | of |
|---|---|
| `RefreshQueuesTheBest` | `RanksBest`: integer scores and lengths of finitely many records, integer weights, any queue size |
| `StrategiesCountForTheirWeight` | `StrategiesShare`: integer scores and lengths |
| `RankingIsAlwaysSound` | `RankingIsSound` |
| `TranslationIsExact` | `TranslationSound`: any sequence of spans whose times are natural or missing |
| `TranslationIsAlwaysSound` | `TranslationIsSound` |

Sorting comes first: in a strict total order of a finite set the number of earlier
elements is an injection into 0, 1, ..., and so a bijection (`PlacesAreTaken`). From it
follow the size of the cut at `queue_size` (`FirstAreCounted`) and that a median exists and
is an integer (`SmallestExists`, without which nothing is known of `CHOOSE`). A loop is shown
to be what its closed form says by looking at the first place where it is not (`LeastIn`):
after n rounds of `Translate` the invariant `SeenSoFar` holds (`RoundKeeps`), one conjunct of
`TraceOf` per field of a trace. There the start of a trace needs the case of a trace with no span yet: 0 stands for "none",
and what is proved of the minimum is what the property says, that it is one when no span
of the trace starts at 0.

The last section is about `SumFunction`, which adds the values of a function in an order
that `CHOOSE` picks. `SumOver(f)` has the sums over all sets of arguments; that there are such
sums is `SumsExist`, and that any argument may be taken out, not only the one picked, is
`SumsAdd`. From it follow by `SubsetInduction` (a set of subsets that has the empty one, and a
set when it has that set less any element, has them all) that a sum is linear and monotone,
that rows or columns may be added first, that arguments may be renamed, and that the
occurrences of all values of a sequence add up to its length (`OccurrencesAdd`).

### AgreementProofs

Under `CalculationsAssumption`, `AgreementIsSound` along every behaviour of `Calculating`:

| theorem | of |
|---|---|
| `RanksAreFractional` | `RanksSound`: any sequence of integers |
| `CorrelationsAreSound` | `CorrelationSound` of `PearsonR` and of `SpearmanR`: any two sequences of integers of one length |
| `KappaIsAlwaysSound` | `KappaSound`: the same |
| `FleissIsAlwaysSound` | `FleissSound`: any matrix of integers with a row |
| `AgreementIsAlwaysSound` | `AgreementIsSound` |

*Ranks.* The sorted list of a sample names every index once (`IndexedSorts`); a group of
equal values starts after the smaller ones and ends with the last that is not greater
(`GroupStartCounts`, `GroupEndCounts`).

*Correlations.* `PearsonR` is made of covariances times n (`PearsonFormula`), and these are
sums of products of the samples less their means (`CenteredProducts`). A sum of squares is
zero just when all are (`SumOfSquares`), so the denominator is zero just for a constant side
(`VarianceIsSound`), the test of `agreement.py:112`; that the square is at most one is
`CauchySchwarz`. Spearman's is Pearson's of the ranks, which are constant just when the sample
is (`RanksSeparate`). What `Ratio` reduces is a positive multiple of what it returns
(`RatioReduces`), so all comparisons are made before reducing.

*Cohen's kappa.* The sum over the categories that the code calls expected counts the pairs
of items that the raters put in one category (`AlikeAdd`); it is all pairs just when kappa is
undefined. That kappa is at least -1 is the hard part: chance may agree often only if some
items do. `ChanceIsBounded` splits on whether some category has more than n scores of the two
raters together. If none has, the bound is term by term; if one has, the scores it takes are
missing from all others, and at least the excess of them agree.

*Fleiss' kappa.* The totals of the categories add up to the number of scores (`TotalsAdd`, rows
or columns first); with two categories none has them all, so the expected agreement is not
certain: the test `p_bar_e >= 1.0` of the code never holds (`ChanceIsNotAll`). The observed one is certain
just for unanimous rows (`ObservedIsBounded`). Reordering rows renames the arguments of every
sum (`RowsReorder`); reordering the scores of a row keeps its counts (`RowChanges`).

### TracingProofs

For every set of calls and of threads and tasks, and every bound on spans and nesting,
under `TracingAssumption`:

| theorem | of |
|---|---|
| `TypeCorrect` | `TypeOK` |
| `SpansAreHome` | `SpansStayHome` |
| `ParentsAreInnermost` | `ParentIsInnermost` |
| `SdksImplementSpanTree` | `ImplementsSpanTree` |

The invariant is that of the SDK in use. `TsInv` (TypeScript): `FramesNest`, what the
store holds is the call of the top frame, or nothing when the store is the slot and that
call is past its first await, and each frame's `prev` is what its predecessor saw (without
it nothing is known after `RunEnds`); `StackIsOpen`, the stack of a call starts with the
root, strictly increases, and holds every open span; `OneSent`. `PyInv` (Python):
`ContextNests`, the values of a context after each of its frames are those the next
frame restores, their trace is the innermost call, their span one of that trace;
`CallsAreOpen`, a call is in one frame of one context while it runs, so that leaving it
posts for the first time; `SentOnce` and `SpansByCall`. The
steps of `SpanTree` are stated over values, so that each SDK is shown to take them in a lemma
of its own (`TsTreeStep`, `PyTreeStep`).

### Only model-checked

All liveness: `RunsFinish`, `EveryMessageSettles`, `StopEndsLoop`, `RequestsAnswered`,
`EntriesMoveOn`, `CleanTracesArrive`, `JobsEnd` (no prover here handles fairness). Every
invariant and every action property of a passing run is stated by a theorem. That the
constants of an instance meet the assumptions of the proofs is evaluated by TLC in its run.

## 6. The plan

Done, in this order: `EvalRun` with `RunLedger` and its proofs; `Labelling`;
`JudgeRecord`; `TraceStream`; `Registry` with `VersionLog`; `AgreementStats`,
`QueueRanking` and `OtlpTranslate`; `Tracing` with `SpanTree`; the proofs about
`TraceStream`, `Tracing`, `Registry`, `Labelling`, `JudgeRecord` and the calculations.

Next, models: `judge run --watch` as a client of `EvalRun`.

### Not modelled

* **API command line.** `bootstrap` finds or creates an organisation, a project
  and a key in one transaction, run by one operator once; two at the same time
  may create a key twice, since `api_keys` has no unique constraint that forbids
  it. `migrate-ch` splits SQL text and executes it.
* **Read endpoints** (`routes/traces.py`, `routes/observability.py`, `routes/health.py`, the
  GET handlers of the other routes): queries that change nothing.
* **Metric and suite files**: YAML or a builder becomes a dictionary that is
  posted; from there on it is `Registry`.
* **Web application, eval-bench, shared packages, deployment**: rendering, data,
  placeholders and configuration. Of the last the models use the restart policy.
* Inside the modelled parts: the wording of prompts and the prose of replies
  beyond what `parser.py` tells apart, request validation, the size of bodies,
  logging, API keys.
