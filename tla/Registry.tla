------------------------------ MODULE Registry ------------------------------
(***************************************************************************)
(* The registry of metrics and datasets, and how a run is pinned to it:    *)
(* POST /v1/metrics, POST /v1/datasets and the look-ups of POST /v1/runs,  *)
(* statement by statement, as READ COMMITTED transactions of clients that  *)
(* do not know of each other.                                              *)
(*                                                                         *)
(* A client either works through an eval suite as `judge run` does (it     *)
(* registers the metric, uploads the dataset and creates a run of the two  *)
(* versions it was given), or asks for a run of the latest versions.       *)
(* A definition stands for its hash, a file for its list of records.       *)
(***************************************************************************)
EXTENDS Naturals, FiniteSets, FiniteSetsExt

CONSTANTS
    Metrics,    \* slugs of metrics
    Datasets,   \* slugs of datasets
    Irs,        \* metric definitions
    Files,      \* record files, none of them empty (that is a 400)
    Clients,
    MaxJobs,    \* bound: number of jobs in a behaviour
    MaxFaults,  \* bound: number of faults in a behaviour
    None

ASSUME RegistryAssumption ==
    /\ Metrics \intersect Datasets = {}
    /\ MaxJobs \in Nat
    /\ MaxFaults \in Nat
    /\ None \notin Metrics \union Datasets
    /\ None \notin [of : Metrics \union Datasets, version : Nat, content : Irs \union Files]

Parents  == Metrics \union Datasets
Contents == Irs \union Files

VARIABLES
    parents,   \* committed rows of `metrics` and `datasets`
    versions,  \* committed rows of `metric_versions` and `dataset_versions`
    recorded,  \* the dataset versions whose `dataset_records` are committed
    runs,      \* committed rows of `runs`, with the job that asked for each
    pc,        \* pc[c]: the next statement of the request of c
    job,       \* job[c]: what c works on
    pins,      \* pins[c]: the versions c was told of or has looked up, 0: none
    next,      \* next[c]: next_version
    added,     \* added[c]: the uncommitted rows of the session of c
    outcome,   \* outcome[c]: how the last job of c ended
    started,   \* number of jobs so far
    faults     \* number of faults so far

tables  == <<parents, versions, recorded, runs>>
session == <<pc, job, pins, next, added, outcome>>
vars == <<parents, versions, recorded, runs, pc, job, pins, next, added, outcome,
          started, faults>>

VersionsOf(p) == {row \in versions : row.of = p}
Latest(p)     == Max({0} \union {row.version : row \in VersionsOf(p)})

NoJob   == [kind |-> "none"]
NoPins  == [mv |-> 0, dv |-> 0]
Nothing == [parent |-> None, row |-> None, records |-> FALSE]

Init ==
    /\ parents = {} /\ versions = {} /\ recorded = {} /\ runs = {}
    /\ pc = [c \in Clients |-> "idle"]
    /\ job = [c \in Clients |-> NoJob]
    /\ pins = [c \in Clients |-> NoPins]
    /\ next = [c \in Clients |-> 0]
    /\ added = [c \in Clients |-> Nothing]
    /\ outcome = [c \in Clients |-> "none"]
    /\ started = 0
    /\ faults = 0

\* The definitions named Bug... are not part of the specification: each is the
\* definition after it with a plausible slip, which a property must catch.

Fault   == faults < MaxFaults /\ faults' = faults + 1
NoFault == UNCHANGED faults

-----------------------------------------------------------------------------
(* Jobs and sessions                                                       *)

Goto(c, step) == pc' = [pc EXCEPT ![c] = step]

\* The metric comes first, then the dataset.
Of(c)      == IF pins[c].mv = 0 THEN job[c].metric ELSE job[c].dataset
Content(c) == IF pins[c].mv = 0 THEN job[c].ir ELSE job[c].file

BugSessionLeftOpen(c) == UNCHANGED added
\* The session of a request is closed: what is not committed is rolled back.
Close(c) == added' = [added EXCEPT ![c] = Nothing]

EndJob(c, how) ==
    /\ Goto(c, "idle")
    /\ job' = [job EXCEPT ![c] = NoJob]
    /\ pins' = [pins EXCEPT ![c] = NoPins]
    /\ next' = [next EXCEPT ![c] = 0]
    /\ outcome' = [outcome EXCEPT ![c] = how]
    /\ Close(c)

Begin(c) ==
    /\ pc[c] = "idle"
    /\ started < MaxJobs
    /\ started' = started + 1
    /\ \E m \in Metrics, d \in Datasets :
          LET since == [mv |-> Latest(m), dv |-> Latest(d)]
          IN  \/ \E i \in Irs, f \in Files :
                    /\ job' = [job EXCEPT ![c] =
                          [kind |-> "suite", metric |-> m, dataset |-> d, ir |-> i,
                           file |-> f, since |-> since]]
                    /\ Goto(c, "finding parent")
              \/ /\ job' = [job EXCEPT ![c] =
                       [kind |-> "latest", metric |-> m, dataset |-> d, since |-> since]]
                 /\ Goto(c, "choosing metric")
    /\ NoFault
    /\ UNCHANGED <<tables, pins, next, added, outcome>>

(* A statement raises, or the client, the process or the connection is     *)
(* gone.  `judge run` gives up at the first answer that is not a success.  *)
Abort(c) ==
    /\ pc[c] # "idle"
    /\ Fault
    /\ EndJob(c, "failed")
    /\ UNCHANGED <<tables, started>>

-----------------------------------------------------------------------------
(* POST /v1/metrics and POST /v1/datasets                                  *)

AfterParent(c) == IF Of(c) \in Metrics THEN "finding hash" ELSE "finding latest"

FindParent(c) ==
    /\ pc[c] = "finding parent"
    /\ Goto(c, IF Of(c) \in parents THEN AfterParent(c) ELSE "adding parent")
    /\ NoFault
    /\ UNCHANGED <<tables, job, pins, next, added, outcome, started>>

(* An INSERT waits for a transaction that has inserted a row with the same *)
(* key and not ended, and raises when such a row is committed.             *)
Refuse(c) == EndJob(c, "refused") /\ UNCHANGED tables

AddParent(c) ==
    /\ pc[c] = "adding parent"
    /\ \A d \in Clients \ {c} : added[d].parent # Of(c)
    /\ IF Of(c) \in parents THEN Refuse(c)
       ELSE /\ added' = [added EXCEPT ![c].parent = Of(c)]
            /\ Goto(c, AfterParent(c))
            /\ UNCHANGED <<tables, job, pins, next, outcome>>
    /\ NoFault
    /\ UNCHANGED started

(* The request is answered with version v; the suite goes on.              *)
Answered(c, v) ==
    /\ \/ /\ pins[c].mv = 0
          /\ pins' = [pins EXCEPT ![c].mv = v]
          /\ Goto(c, "finding parent")
       \/ /\ pins[c].mv # 0
          /\ pins' = [pins EXCEPT ![c].dv = v]
          /\ Goto(c, "choosing metric")
    /\ next' = [next EXCEPT ![c] = 0]
    /\ Close(c)
    /\ UNCHANGED <<job, outcome>>

BugAnyVersion(c) == VersionsOf(Of(c))
\* Same hash: existing version.
SameHash(c) == {row \in VersionsOf(Of(c)) : row.content = Content(c)}

FindHash(c) ==
    /\ pc[c] = "finding hash"
    /\ \/ /\ SameHash(c) = {}
          /\ Goto(c, "finding latest")
          /\ UNCHANGED <<job, pins, next, added, outcome>>
       \/ \E row \in SameHash(c) : Answered(c, row.version)
    /\ NoFault
    /\ UNCHANGED <<tables, started>>

BugCountFromLatest(p) == Latest(p)
NextVersion(p) == Latest(p) + 1

FindLatest(c) ==
    /\ pc[c] = "finding latest"
    /\ next' = [next EXCEPT ![c] = NextVersion(Of(c))]
    /\ Goto(c, "adding version")
    /\ NoFault
    /\ UNCHANGED <<tables, job, pins, added, outcome, started>>

NewRow(c) == [of |-> Of(c), version |-> next[c], content |-> Content(c)]

BugNoUnique(a, b) == a = b
\* Two rows of a version table that its unique constraints do not allow.
Clash(a, b) ==
    /\ a.of = b.of
    /\ a.version = b.version \/ (a.of \in Metrics /\ a.content = b.content)

AddVersion(c) ==
    /\ pc[c] = "adding version"
    /\ \A d \in Clients \ {c} : added[d].row # None => ~Clash(NewRow(c), added[d].row)
    /\ IF \E row \in versions : Clash(NewRow(c), row) THEN Refuse(c)
       ELSE /\ added' = [added EXCEPT ![c].row = NewRow(c)]
            /\ Goto(c, IF Of(c) \in Metrics THEN "committing" ELSE "adding records")
            /\ UNCHANGED <<tables, job, pins, next, outcome>>
    /\ NoFault
    /\ UNCHANGED started

AddRecords(c) ==
    /\ pc[c] = "adding records"
    /\ added' = [added EXCEPT ![c].records = TRUE]
    /\ Goto(c, "committing")
    /\ NoFault
    /\ UNCHANGED <<tables, job, pins, next, outcome, started>>

BugForgetRecords(c) ==
    /\ parents' = (parents \union {added[c].parent}) \ {None}
    /\ versions' = versions \union {added[c].row}
    /\ UNCHANGED recorded
\* The rows of the session of c become visible together.
Persist(c) ==
    /\ parents' = (parents \union {added[c].parent}) \ {None}
    /\ versions' = versions \union {added[c].row}
    /\ recorded' = IF added[c].records
                   THEN recorded \union {<<Of(c), next[c]>>} ELSE recorded

Commit(c) ==
    /\ pc[c] = "committing"
    /\ Persist(c)
    /\ Answered(c, next[c])
    /\ NoFault
    /\ UNCHANGED <<runs, started>>

(* The commit took effect, but it, the refresh of the row after it, or the *)
(* answer did not reach the client.                                        *)
CommitUnheard(c) ==
    /\ pc[c] = "committing"
    /\ Fault
    /\ Persist(c)
    /\ EndJob(c, "failed")
    /\ UNCHANGED <<runs, started>>

-----------------------------------------------------------------------------
(* POST /v1/runs, up to the row that EvalRun starts from                   *)

\* Without a version number in the body: the latest one there is.
Newest(p) == {Latest(p)} \ {0}

\* With a version number: that one, if there is such a row.
Chosen(p, pinned) ==
    IF pinned = 0 THEN Newest(p)
    ELSE {pinned} \intersect {row.version : row \in VersionsOf(p)}

ChooseMetric(c) ==
    /\ pc[c] = "choosing metric"
    /\ LET found == Chosen(job[c].metric, pins[c].mv)
       IN  \/ found = {} /\ EndJob(c, "404")
           \/ \E v \in found :
                 /\ pins' = [pins EXCEPT ![c].mv = v]
                 /\ Goto(c, "choosing dataset")
                 /\ UNCHANGED <<job, next, added, outcome>>
    /\ NoFault
    /\ UNCHANGED <<tables, started>>

ChooseDataset(c) ==
    /\ pc[c] = "choosing dataset"
    /\ LET found == Chosen(job[c].dataset, pins[c].dv)
       IN  \/ found = {} /\ EndJob(c, "404")
           \/ \E v \in found :
                 /\ pins' = [pins EXCEPT ![c].dv = v]
                 /\ Goto(c, "committing run")
                 /\ UNCHANGED <<job, next, added, outcome>>
    /\ NoFault
    /\ UNCHANGED <<tables, started>>

\* The client may not hear of the commit.
CommitRun(c) ==
    /\ pc[c] = "committing run"
    /\ runs' = runs \union {[job |-> job[c], pins |-> pins[c]]}
    /\ \/ NoFault /\ EndJob(c, "run")
       \/ Fault /\ EndJob(c, "failed")
    /\ UNCHANGED <<parents, versions, recorded, started>>

-----------------------------------------------------------------------------
(* The specification                                                       *)

RegisterStep(c) ==
    FindParent(c) \/ AddParent(c) \/ FindHash(c) \/ FindLatest(c) \/ AddVersion(c)
    \/ AddRecords(c) \/ Commit(c)

RunStep(c) == ChooseMetric(c) \/ ChooseDataset(c) \/ CommitRun(c)

Next == \E c \in Clients : \/ Begin(c) \/ Abort(c) \/ CommitUnheard(c)
                           \/ RegisterStep(c) \/ RunStep(c)

Spec == Init /\ [][Next]_vars

(* A request that is not waiting for another one goes on.                  *)
FairSpec == Spec /\ \A c \in Clients : WF_vars(RegisterStep(c) \/ RunStep(c))

-----------------------------------------------------------------------------
(* Properties                                                              *)

Numbers == 0 .. MaxJobs
Rows    == [of : Parents, version : Numbers \ {0}, content : Contents]
Steps   == {"idle", "finding parent", "adding parent", "finding hash", "finding latest",
            "adding version", "adding records", "committing", "choosing metric",
            "choosing dataset", "committing run"}

TypeOK ==
    /\ parents \subseteq Parents
    /\ versions \subseteq Rows
    /\ recorded \subseteq Datasets \X (Numbers \ {0})
    /\ pc \in [Clients -> Steps]
    /\ \A c \in Clients : pc[c] = "idle" <=> job[c] = NoJob
    /\ pins \in [Clients -> [mv : Numbers, dv : Numbers]]
    /\ next \in [Clients -> Numbers]
    /\ \A c \in Clients :
          /\ added[c].parent \in Parents \union {None}
          /\ added[c].row \in Rows \union {None}
          /\ added[c].records \in BOOLEAN
    /\ outcome \in [Clients -> {"none", "run", "refused", "404", "failed"}]
    /\ started \in 0 .. MaxJobs /\ faults \in 0 .. MaxFaults

(* Concurrent registrations, refusals and lost answers or not, the version *)
(* tables are logs: see VersionLog.                                        *)
ContentOf(p, v) == (CHOOSE row \in versions : row.of = p /\ row.version = v).content

Log == INSTANCE VersionLog WITH
    Addressed <- Metrics,
    log <- [p \in Parents |-> [v \in {row.version : row \in VersionsOf(p)} |-> ContentOf(p, v)]]

ImplementsVersionLog == Log!Spec

(* No half of a registration is ever there: a metric or dataset has a      *)
(* version, and a dataset version its records.                             *)
NothingPartial ==
    /\ parents = {row.of : row \in versions}
    /\ \A row \in versions : row.of \in Datasets => <<row.of, row.version>> \in recorded

(* What a suite was told of it can rely on: the versions hold its own      *)
(* definition and records, and its run is a run of those.                  *)
Holds(p, v, x) == [of |-> p, version |-> v, content |-> x] \in versions

SuiteRunsItsOwn ==
    /\ \A c \in Clients : job[c].kind = "suite" =>
          /\ pins[c].mv # 0 => Holds(job[c].metric, pins[c].mv, job[c].ir)
          /\ pins[c].dv # 0 => Holds(job[c].dataset, pins[c].dv, job[c].file)
    /\ \A run \in runs : run.job.kind = "suite" =>
          /\ Holds(run.job.metric, run.pins.mv, run.job.ir)
          /\ Holds(run.job.dataset, run.pins.dv, run.job.file)

(* Without faults a registration is refused only for a race: somebody has  *)
(* published a version of the same metric or dataset since the job began.  *)
OnlyRacesRefuse ==
    [][\A c \in Clients : pc[c] # "idle" /\ pc'[c] = "idle" /\ outcome'[c] = "refused" =>
          Latest(Of(c)) > (IF Of(c) \in Metrics THEN job[c].since.mv ELSE job[c].since.dv)]_vars

(* Every job ends, although inserts wait for each other.                   *)
JobsEnd == \A c \in Clients : pc[c] # "idle" ~> pc[c] = "idle"

=============================================================================
