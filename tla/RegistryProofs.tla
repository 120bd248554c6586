--------------------------- MODULE RegistryProofs ---------------------------
(***************************************************************************)
(* Theorems about the registry, for any metrics, datasets, definitions,    *)
(* files and clients, and any number of jobs and faults: the version       *)
(* tables are logs, whole, and what a suite was told of them is true.      *)
(***************************************************************************)
EXTENDS Registry, FiniteSetTheorems, SequenceTheorems, TLAPS

Since0    == [mv : Nat, dv : Nat]
SuiteJobs == [kind : {"suite"}, metric : Metrics, dataset : Datasets, ir : Irs,
              file : Files, since : Since0]
OtherJobs == [kind : {"latest"}, metric : Metrics, dataset : Datasets, since : Since0]
Sessions  == [parent : Parents \union {None}, row : Rows \union {None}, records : BOOLEAN]

TablesTyped ==
    /\ parents \subseteq Parents
    /\ versions \subseteq Rows
    /\ recorded \subseteq Datasets \X (Numbers \ {0})

SessionsTyped ==
    /\ pc \in [Clients -> Steps]
    /\ job \in [Clients -> SuiteJobs \union OtherJobs \union {NoJob}]
    /\ pins \in [Clients -> [mv : Numbers, dv : Numbers]]
    /\ next \in [Clients -> Numbers]
    /\ added \in [Clients -> Sessions]
    /\ outcome \in [Clients -> {"none", "run", "refused", "404", "failed"}]

CountersTyped == started \in 0 .. MaxJobs /\ faults \in 0 .. MaxFaults

(* The steps of POST /v1/metrics and POST /v1/datasets; those of them that *)
(* follow the look-up of the parent; and those that follow the INSERT.     *)
Inserted    == {"adding records", "committing"}
Numbered    == Inserted \union {"adding version"}
ParentKnown == Numbered \union {"finding hash", "finding latest"}
Registering == ParentKnown \union {"finding parent", "adding parent"}

(* The request is at a step that its job has.                              *)
JobFits(c) ==
    /\ pc[c] = "idle" <=> job[c] = NoJob
    /\ pc[c] = "idle" => pins[c] = NoPins
    /\ pc[c] \in Registering => job[c].kind = "suite" /\ pins[c].dv = 0
    /\ pc[c] \notin Registering /\ job[c].kind = "suite" => pins[c].mv # 0 /\ pins[c].dv # 0

(* The session holds what the statements before this one have added.       *)
SessionFits(c) ==
    /\ pc[c] \notin ParentKnown => added[c] = Nothing
    /\ pc[c] \in ParentKnown =>
          /\ added[c].parent \in {Of(c), None}
          /\ Of(c) \in parents \union {added[c].parent}
          /\ added[c].row = IF pc[c] \in Inserted THEN NewRow(c) ELSE None
          /\ added[c].records = (pc[c] = "committing" /\ Of(c) \in Datasets)
    /\ pc[c] = "finding hash" => Of(c) \in Metrics
    /\ pc[c] = "adding records" => Of(c) \in Datasets

(* What there was of the metric or dataset when the job began.             *)
Since(c) == IF Of(c) \in Metrics THEN job[c].since.mv ELSE job[c].since.dv

SinceFits(c) ==
    job[c] # NoJob => /\ job[c].since.mv <= Latest(job[c].metric)
                      /\ job[c].since.dv <= Latest(job[c].dataset)

(* The number to be given is one that was next when it was worked out.     *)
NumberFits(c) ==
    pc[c] \in Numbered => next[c] \in Since(c) + 1 .. Latest(Of(c)) + 1

(* What the request did not find is still not there, or it is newer than   *)
(* the job.                                                                *)
AbsenceFits(c) ==
    /\ pc[c] = "adding parent" => Since(c) = 0
    /\ pc[c] \in {"finding latest", "adding version"} /\ Of(c) \in Metrics =>
          \A row \in versions :
              row.of = Of(c) /\ row.content = Content(c) => row.version > Since(c)

(* What a suite was told is true.                                          *)
ToldTheTruth(c) ==
    job[c].kind = "suite" =>
        /\ pins[c].mv # 0 => Holds(job[c].metric, pins[c].mv, job[c].ir)
        /\ pins[c].dv # 0 => Holds(job[c].dataset, pins[c].dv, job[c].file)

ClientOK(c) ==
    /\ JobFits(c)
    /\ SessionFits(c)
    /\ SinceFits(c)
    /\ NumberFits(c)
    /\ AbsenceFits(c)
    /\ ToldTheTruth(c)

(* No two rows clash, committed or not.                                    *)
NoClash ==
    /\ \A a, b \in versions : Clash(a, b) => a = b
    /\ \A c \in Clients : added[c].row # None =>
          /\ \A a \in versions : ~Clash(added[c].row, a)
          /\ \A d \in Clients \ {c} : added[d].row # None => ~Clash(added[c].row, added[d].row)

(* The versions of a metric or dataset are 1, 2, 3, ...                    *)
Numbering ==
    \A p \in Parents : /\ Latest(p) \in Nat
                       /\ {row.version : row \in VersionsOf(p)} = 1 .. Latest(p)

(* The clients that may yet publish a version of p; each job does it once, *)
(* so there are no more versions than jobs.                                *)
ToPublish(p) ==
    {c \in Clients : pc[c] \in Registering /\ (Of(c) = p \/ job[c].dataset = p)}
EnoughJobs ==
    \A p \in Parents : /\ IsFiniteSet(ToPublish(p))
                       /\ Latest(p) + Cardinality(ToPublish(p)) <= started

RunsTrue ==
    \A run \in runs : run.job.kind = "suite" =>
        /\ Holds(run.job.metric, run.pins.mv, run.job.ir)
        /\ Holds(run.job.dataset, run.pins.dv, run.job.file)

IInv ==
    /\ TablesTyped /\ SessionsTyped /\ CountersTyped
    /\ \A c \in Clients : ClientOK(c)
    /\ NoClash
    /\ Numbering
    /\ EnoughJobs
    /\ NothingPartial
    /\ RunsTrue

-----------------------------------------------------------------------------
(* Rows and numbers                                                        *)

LEMMA RowType ==
    ASSUME RegistryAssumption
    PROVE  /\ None \notin Rows /\ Nothing \in Sessions
           /\ None \notin Parents
           /\ \A n \in Numbers : n \in Nat
           /\ \A row \in Rows : row.of \in Parents /\ row.version \in Nat \ {0}
BY DEF RegistryAssumption, Rows, Numbers, Parents, Contents, Nothing, Sessions

LEMMA ClashIsMutual == \A a, b : Clash(a, b) <=> Clash(b, a)
BY DEF Clash

LEMMA MaxIs ==
    ASSUME NEW S \in SUBSET Nat, NEW m \in S, \A n \in S : m >= n
    PROVE  Max(S) = m
<1>1. \E x \in S : \A y \in S : x >= y
  OBVIOUS
<1>2. Max(S) \in S /\ \A y \in S : Max(S) >= y
  BY <1>1 DEF Max
<1>3. Max(S) \in Nat /\ m \in Nat /\ Max(S) >= m /\ m >= Max(S)
  BY <1>2
<1>4. QED
  BY <1>3

LEMMA LatestIs ==
    ASSUME NEW p, NEW n \in Nat, {row.version : row \in VersionsOf(p)} = 1 .. n
    PROVE  Latest(p) = n
<1>1. {0} \union {row.version : row \in VersionsOf(p)} = 0 .. n
  OBVIOUS
<1>2. 0 .. n \in SUBSET Nat /\ n \in 0 .. n /\ \A i \in 0 .. n : n >= i
  OBVIOUS
<1>3. QED
  BY <1>1, <1>2, MaxIs DEF Latest

(* The job of a client that registers something.                           *)
LEMMA SuiteType ==
    ASSUME RegistryAssumption, SessionsTyped, NEW c \in Clients, job[c].kind = "suite"
    PROVE  /\ job[c] \in SuiteJobs
           /\ job[c].metric \in Metrics /\ job[c].dataset \in Datasets
           /\ job[c].ir \in Irs /\ job[c].file \in Files
           /\ job[c].since.mv \in Nat /\ job[c].since.dv \in Nat
           /\ Of(c) \in Parents /\ Content(c) \in Contents /\ Since(c) \in Nat
           /\ pins[c].mv \in Nat /\ pins[c].dv \in Nat
           /\ Of(c) \in Metrics => /\ pins[c].mv = 0 /\ Of(c) = job[c].metric
                                   /\ Content(c) = job[c].ir /\ Since(c) = job[c].since.mv
           /\ Of(c) \notin Metrics => /\ pins[c].mv # 0 /\ Of(c) = job[c].dataset
                                      /\ Of(c) \in Datasets
                                      /\ Content(c) = job[c].file /\ Since(c) = job[c].since.dv
           /\ Of(c) \in Datasets => Of(c) \notin Metrics
<1>1. job[c] \in SuiteJobs
  BY DEF SessionsTyped, OtherJobs, NoJob
<1>2. /\ job[c].metric \in Metrics /\ job[c].dataset \in Datasets
      /\ job[c].ir \in Irs /\ job[c].file \in Files
      /\ job[c].since.mv \in Nat /\ job[c].since.dv \in Nat
  BY <1>1 DEF SuiteJobs, Since0
<1>3. pins[c].mv \in Nat /\ pins[c].dv \in Nat
  BY RowType DEF SessionsTyped
<1>4. Metrics \intersect Datasets = {}
  BY DEF RegistryAssumption
<1>5. CASE pins[c].mv = 0
  BY <1>1, <1>2, <1>3, <1>4, <1>5 DEF Of, Content, Since, Parents, Contents
<1>6. CASE pins[c].mv # 0
  BY <1>1, <1>2, <1>3, <1>4, <1>6 DEF Of, Content, Since, Parents, Contents
<1>7. QED
  BY <1>5, <1>6

-----------------------------------------------------------------------------
(* What a step of one client does to the others                            *)

(* The sessions of all clients but c are as they were.                     *)
Only(c) ==
    \A d \in Clients \ {c} :
        /\ pc'[d] = pc[d] /\ job'[d] = job[d] /\ pins'[d] = pins[d]
        /\ next'[d] = next[d] /\ added'[d] = added[d]

(* The tables only grow, and what is new in them has a later number.       *)
Growth ==
    /\ parents \subseteq parents'
    /\ versions \subseteq versions'
    /\ \A p \in Parents : Latest(p)' \in Nat /\ Latest(p) <= Latest(p)'
    /\ \A row \in versions' : row \in versions \/ row.version > Latest(row.of)

LEMMA NoGrowth ==
    ASSUME Numbering, UNCHANGED <<parents, versions>>
    PROVE  /\ Growth
           /\ \A p : Latest(p)' = Latest(p)
           /\ Numbering'
<1>1. \A p : VersionsOf(p)' = VersionsOf(p)
  BY DEF VersionsOf
<1>2. \A p : Latest(p)' = Latest(p)
  BY <1>1 DEF Latest
<1>3. Growth
  BY <1>2 DEF Growth, Numbering
<1>4. Numbering'
  BY <1>1, <1>2 DEF Numbering
<1>5. QED
  BY <1>2, <1>3, <1>4

(* The facts about a client that only need the tables to grow.             *)
LEMMA BystanderKeeps ==
    ASSUME RegistryAssumption, SessionsTyped, TablesTyped', Numbering, Growth,
           NEW d \in Clients, ClientOK(d),
           pc'[d] = pc[d], job'[d] = job[d], pins'[d] = pins[d],
           next'[d] = next[d], added'[d] = added[d]
    PROVE  ClientOK(d)'
<1>1. Of(d)' = Of(d) /\ Content(d)' = Content(d) /\ Since(d)' = Since(d) /\ NewRow(d)' = NewRow(d)
  BY DEF Of, Content, Since, NewRow
<1>2. JobFits(d)'
  BY DEF ClientOK, JobFits
<1>3. SessionFits(d)'
  BY <1>1 DEF ClientOK, SessionFits, Growth
<1>4. SinceFits(d)'
  <2>1. SUFFICES ASSUME job[d] # NoJob
                 PROVE  /\ job[d].since.mv <= Latest(job[d].metric)'
                        /\ job[d].since.dv <= Latest(job[d].dataset)'
    BY DEF SinceFits
  <2>2. /\ job[d].metric \in Parents /\ job[d].dataset \in Parents
        /\ job[d].since.mv \in Nat /\ job[d].since.dv \in Nat
    BY <2>1 DEF SessionsTyped, SuiteJobs, OtherJobs, Since0, Parents
  <2>3. /\ job[d].since.mv <= Latest(job[d].metric)
        /\ job[d].since.dv <= Latest(job[d].dataset)
    BY <2>1 DEF ClientOK, SinceFits
  <2>4. QED
    BY <2>2, <2>3 DEF Growth, Numbering
<1>5. NumberFits(d)'
  <2>1. SUFFICES ASSUME pc[d] \in Numbered
                 PROVE  next[d] \in Since(d) + 1 .. Latest(Of(d))' + 1
    BY <1>1 DEF NumberFits
  <2>2. job[d].kind = "suite" /\ Of(d) \in Parents /\ Since(d) \in Nat
    BY <2>1, SuiteType DEF ClientOK, JobFits, Registering, ParentKnown
  <2>3. next[d] \in Since(d) + 1 .. Latest(Of(d)) + 1
    BY <2>1 DEF ClientOK, NumberFits
  <2>4. PICK p \in Parents : p = Of(d) /\ Latest(p) = Latest(Of(d)) /\ Latest(p)' = Latest(Of(d))'
    BY <2>2, <1>1
  <2>5. Latest(p) \in Nat /\ Latest(p)' \in Nat /\ Latest(p) <= Latest(p)'
    BY DEF Growth, Numbering
  <2>6. QED
    BY <2>2, <2>3, <2>4, <2>5
<1>6. AbsenceFits(d)'
  <2>1. pc[d] = "adding parent" => Since(d) = 0
    BY DEF ClientOK, AbsenceFits
  <2>2. ASSUME pc[d] \in {"finding latest", "adding version"}, Of(d) \in Metrics,
               NEW row \in versions', row.of = Of(d), row.content = Content(d)
        PROVE  row.version > Since(d)
    <3>1. CASE row \in versions
      BY <2>2, <3>1 DEF ClientOK, AbsenceFits
    <3>2. CASE row.version > Latest(Of(d))
      <4>1. job[d].kind = "suite"
        BY <2>2 DEF ClientOK, JobFits, Registering, ParentKnown, Numbered
      <4>2. /\ Since(d) = job[d].since.mv /\ Of(d) = job[d].metric
            /\ Since(d) \in Nat /\ Of(d) \in Parents
        BY <2>2, <4>1, SuiteType
      <4>3. job[d] # NoJob
        BY <4>1 DEF NoJob
      <4>4. Since(d) <= Latest(Of(d))
        BY <4>2, <4>3 DEF ClientOK, SinceFits
      <4>5. Latest(Of(d)) \in Nat
        BY <4>2 DEF Numbering
      <4>6. row.version \in Nat
        <5>1. row \in Rows
          BY DEF TablesTyped
        <5>2. QED
          BY <5>1, RowType
      <4>7. QED
        BY <3>2, <4>2, <4>4, <4>5, <4>6
    <3>3. QED
      BY <2>2, <3>1, <3>2 DEF Growth
  <2>3. QED
    BY <1>1, <2>1, <2>2 DEF AbsenceFits
<1>7. ToldTheTruth(d)'
  BY DEF ClientOK, ToldTheTruth, Holds, Growth
<1>8. QED
  BY <1>2, <1>3, <1>4, <1>5, <1>6, <1>7 DEF ClientOK

-----------------------------------------------------------------------------
(* How a request ends                                                      *)

LEMMA EndJobEffect ==
    ASSUME RegistryAssumption, SessionsTyped, NEW c \in Clients,
           NEW how \in {"none", "run", "refused", "404", "failed"}, EndJob(c, how)
    PROVE  /\ SessionsTyped' /\ Only(c) /\ ClientOK(c)'
           /\ pc'[c] = "idle" /\ added'[c] = Nothing /\ outcome'[c] = how
<1>1. /\ pc' = [pc EXCEPT ![c] = "idle"] /\ job' = [job EXCEPT ![c] = NoJob]
      /\ pins' = [pins EXCEPT ![c] = NoPins] /\ next' = [next EXCEPT ![c] = 0]
      /\ outcome' = [outcome EXCEPT ![c] = how] /\ added' = [added EXCEPT ![c] = Nothing]
  BY DEF EndJob, Goto, Close
<1>2. /\ "idle" \in Steps /\ NoPins \in [mv : Numbers, dv : Numbers]
      /\ 0 \in Numbers /\ Nothing \in Sessions
  BY RowType DEF Steps, NoPins, Numbers, RegistryAssumption
<1>3. SessionsTyped'
  BY <1>1, <1>2 DEF SessionsTyped
<1>4. Only(c)
  BY <1>1 DEF SessionsTyped, Only
<1>5. /\ pc'[c] = "idle" /\ job'[c] = NoJob /\ pins'[c] = NoPins /\ added'[c] = Nothing
      /\ outcome'[c] = how
  BY <1>1 DEF SessionsTyped
<1>6. NoJob.kind # "suite"
  BY DEF NoJob
<1>7. ClientOK(c)'
  BY <1>5, <1>6 DEF ClientOK, JobFits, SessionFits, SinceFits, NumberFits, AbsenceFits,
                    ToldTheTruth, Registering, ParentKnown, Numbered, Inserted
<1>8. QED
  BY <1>3, <1>4, <1>5, <1>7

(* The request is answered with a version that is a row by then.           *)
GivenAnAnswer(c) ==
    \E v \in Numbers \ {0} : /\ Answered(c, v)
                             /\ [of |-> Of(c), version |-> v, content |-> Content(c)] \in versions'

LEMMA AnsweredEffect ==
    ASSUME RegistryAssumption, SessionsTyped, Numbering, Growth, NEW c \in Clients, ClientOK(c),
           pc[c] \in Registering, GivenAnAnswer(c)
    PROVE  /\ SessionsTyped' /\ Only(c) /\ ClientOK(c)'
           /\ pc'[c] # "idle" /\ added'[c] = Nothing /\ job' = job
           /\ pc'[c] \in Registering => Of(c) \in Metrics /\ Of(c)' = job[c].dataset
<1>1. job[c].kind = "suite" /\ pins[c].dv = 0 /\ job[c] # NoJob
  <2>2. job[c].kind = "suite" /\ pins[c].dv = 0
    BY DEF ClientOK, JobFits
  <2>3. QED
    BY <2>2 DEF NoJob
<1>2. /\ next' = [next EXCEPT ![c] = 0] /\ added' = [added EXCEPT ![c] = Nothing]
      /\ job' = job /\ outcome' = outcome
  BY DEF GivenAnAnswer, Answered, Close
<1>3. 0 \in Numbers /\ Nothing \in Sessions /\ pins[c] \in [mv : Numbers, dv : Numbers]
  <2>1. 0 \in Numbers
    BY DEF Numbers, RegistryAssumption
  <2>2. Nothing \in Sessions
    BY RowType
  <2>3. pins[c] \in [mv : Numbers, dv : Numbers]
    BY DEF SessionsTyped
  <2>4. QED
    BY <2>1, <2>2, <2>3
<1>4. added'[c] = Nothing /\ next'[c] = 0
  BY <1>2 DEF SessionsTyped
<1>5. SinceFits(c)'
  <2>1. PICK m \in Parents : m = job[c].metric
    BY <1>1, SuiteType DEF Parents
  <2>2. PICK d \in Parents : d = job[c].dataset
    BY <1>1, SuiteType DEF Parents
  <2>3. job[c].since.mv <= Latest(m) /\ job[c].since.dv <= Latest(d)
    BY <1>1, <2>1, <2>2 DEF ClientOK, SinceFits
  <2>4. job[c].since.mv \in Nat /\ job[c].since.dv \in Nat
    BY <1>1, SuiteType
  <2>5. \A p \in Parents : Latest(p) \in Nat /\ Latest(p)' \in Nat /\ Latest(p) <= Latest(p)'
    BY DEF Growth, Numbering
  <2>6. job[c].since.mv <= Latest(m)' /\ job[c].since.dv <= Latest(d)'
    BY <2>3, <2>4, <2>5
  <2>7. QED
    BY <1>2, <2>1, <2>2, <2>6 DEF SinceFits
<1>6. ASSUME NEW m \in Numbers, NEW n \in Numbers, pins' = [pins EXCEPT ![c] = [mv |-> m, dv |-> n]],
             NEW step \in {"finding parent", "choosing metric"}, pc' = [pc EXCEPT ![c] = step]
      PROVE  /\ SessionsTyped' /\ Only(c)
             /\ pins'[c] = [mv |-> m, dv |-> n] /\ pc'[c] = step
  <2>1. step \in Steps /\ [mv |-> m, dv |-> n] \in [mv : Numbers, dv : Numbers]
    BY DEF Steps
  <2>2. SessionsTyped'
    BY <1>2, <1>3, <1>6, <2>1 DEF SessionsTyped
  <2>3. Only(c)
    BY <1>2, <1>6 DEF Only, SessionsTyped
  <2>4. QED
    BY <1>6, <2>2, <2>3 DEF SessionsTyped
<1>7. CASE pins[c].mv = 0
  <2>1. /\ pc' = [pc EXCEPT ![c] = "finding parent"]
        /\ \E v \in Numbers :
              /\ v # 0 /\ pins' = [pins EXCEPT ![c].mv = v]
              /\ [of |-> Of(c), version |-> v, content |-> Content(c)] \in versions'
    BY <1>7 DEF GivenAnAnswer, Answered, Goto
  <2>2. PICK v \in Numbers :
              /\ v # 0 /\ pins' = [pins EXCEPT ![c].mv = v]
              /\ [of |-> Of(c), version |-> v, content |-> Content(c)] \in versions'
    BY <2>1
  <2>3. pins' = [pins EXCEPT ![c] = [mv |-> v, dv |-> 0]]
    <3>1. pins' = [pins EXCEPT ![c] = [pins[c] EXCEPT !.mv = v]]
      BY <2>2
    <3>2. [pins[c] EXCEPT !.mv = v] = [mv |-> v, dv |-> 0]
      BY <1>1, <1>3
    <3>3. QED
      BY <3>1, <3>2
  <2>4. /\ SessionsTyped' /\ Only(c) /\ pins'[c] = [mv |-> v, dv |-> 0]
        /\ pc'[c] = "finding parent"
    BY <1>3, <1>6, <2>1, <2>3
  <2>5. pins'[c].mv = v /\ pins'[c].mv # 0 /\ pins'[c].dv = 0
    <3>1. pins'[c] = [mv |-> v, dv |-> 0]
      BY <2>4
    <3>2. pins'[c].mv = v /\ pins'[c].dv = 0
      BY <3>1
    <3>3. v # 0
      BY <2>2
    <3>4. QED
      BY <3>2, <3>3
  <2>6. Of(c) = job[c].metric /\ Content(c) = job[c].ir /\ Of(c)' = job[c].dataset
    BY <1>2, <1>7, <2>5 DEF Of, Content
  <2>7. ToldTheTruth(c)'
    BY <1>2, <2>2, <2>5, <2>6 DEF ToldTheTruth, Holds
  <2>8. JobFits(c)'
    BY <1>1, <1>2, <2>4, <2>5 DEF JobFits, Registering, ParentKnown, Numbered, Inserted
  <2>9. SessionFits(c)' /\ NumberFits(c)' /\ AbsenceFits(c)'
    BY <1>4, <2>4 DEF SessionFits, NumberFits, AbsenceFits, ParentKnown, Numbered, Inserted
  <2>10. Of(c) \in Metrics
    BY <1>1, <2>6, SuiteType
  <2>11. QED
    BY <1>2, <1>4, <1>5, <2>4, <2>6, <2>7, <2>8, <2>9, <2>10 DEF ClientOK
<1>8. CASE pins[c].mv # 0
  <2>1. /\ pc' = [pc EXCEPT ![c] = "choosing metric"]
        /\ \E v \in Numbers :
              /\ v # 0 /\ pins' = [pins EXCEPT ![c].dv = v]
              /\ [of |-> Of(c), version |-> v, content |-> Content(c)] \in versions'
    BY <1>8 DEF GivenAnAnswer, Answered, Goto
  <2>2. PICK v \in Numbers :
              /\ v # 0 /\ pins' = [pins EXCEPT ![c].dv = v]
              /\ [of |-> Of(c), version |-> v, content |-> Content(c)] \in versions'
    BY <2>1
  <2>3. PICK m \in Numbers : m = pins[c].mv
    BY <1>3
  <2>4. pins' = [pins EXCEPT ![c] = [mv |-> m, dv |-> v]]
    <3>1. pins' = [pins EXCEPT ![c] = [pins[c] EXCEPT !.dv = v]]
      BY <2>2
    <3>2. [pins[c] EXCEPT !.dv = v] = [mv |-> m, dv |-> v]
      BY <1>3, <2>3
    <3>3. QED
      BY <3>1, <3>2
  <2>5. /\ SessionsTyped' /\ Only(c) /\ pins'[c] = [mv |-> m, dv |-> v]
        /\ pc'[c] = "choosing metric"
    BY <1>3, <1>6, <2>1, <2>4
  <2>6. pins'[c].mv = m /\ pins'[c].dv = v /\ pins'[c].mv # 0 /\ pins'[c].dv # 0
    <3>1. pins'[c] = [mv |-> m, dv |-> v]
      BY <2>5
    <3>2. pins'[c].mv = m /\ pins'[c].dv = v
      BY <3>1
    <3>3. m # 0 /\ v # 0
      BY <1>8, <2>2, <2>3
    <3>4. QED
      BY <3>2, <3>3
  <2>7. Of(c) = job[c].dataset /\ Content(c) = job[c].file
    BY <1>8 DEF Of, Content
  <2>8. ToldTheTruth(c)'
    <3>1. Holds(job[c].metric, m, job[c].ir)
      BY <1>1, <1>8, <2>3 DEF ClientOK, ToldTheTruth
    <3>2. Holds(job[c].metric, m, job[c].ir)'
      BY <1>2, <3>1 DEF Holds, Growth
    <3>3. QED
      BY <1>2, <2>2, <2>6, <2>7, <3>2 DEF ToldTheTruth, Holds
  <2>9. pc'[c] \notin Registering
    BY <2>5 DEF Registering, ParentKnown, Numbered, Inserted
  <2>10. JobFits(c)'
    BY <1>1, <1>2, <2>5, <2>6, <2>9 DEF JobFits
  <2>11. SessionFits(c)' /\ NumberFits(c)' /\ AbsenceFits(c)'
    BY <1>4, <2>5 DEF SessionFits, NumberFits, AbsenceFits, ParentKnown, Numbered, Inserted
  <2>12. QED
    BY <1>2, <1>4, <1>5, <2>5, <2>8, <2>9, <2>10, <2>11 DEF ClientOK
<1>9. QED
  BY <1>7, <1>8

-----------------------------------------------------------------------------
(* Counting jobs                                                           *)

LEMMA FewerToPublish ==
    ASSUME EnoughJobs, NEW c \in Clients, Only(c), NEW p \in Parents,
           c \in ToPublish(p)' => c \in ToPublish(p)
    PROVE  /\ IsFiniteSet(ToPublish(p)') /\ Cardinality(ToPublish(p)) \in Nat
           /\ Cardinality(ToPublish(p)') \in Nat
           /\ Cardinality(ToPublish(p)') <= Cardinality(ToPublish(p))
           /\ c \in ToPublish(p) /\ c \notin ToPublish(p)' =>
                  Cardinality(ToPublish(p)') = Cardinality(ToPublish(p)) - 1
<1>1. \A d \in Clients \ {c} : d \in ToPublish(p)' <=> d \in ToPublish(p)
  BY DEF Only, ToPublish, Of
<1>2. ToPublish(p) \subseteq Clients /\ ToPublish(p)' \subseteq Clients
  BY DEF ToPublish
<1>3. IsFiniteSet(ToPublish(p)) /\ Cardinality(ToPublish(p)) \in Nat
  BY FS_CardinalityType DEF EnoughJobs
<1>4. CASE c \in ToPublish(p) /\ c \notin ToPublish(p)'
  <2>1. ToPublish(p)' = ToPublish(p) \ {c}
    BY <1>1, <1>2, <1>4
  <2>2. /\ IsFiniteSet(ToPublish(p) \ {c})
        /\ Cardinality(ToPublish(p) \ {c}) = Cardinality(ToPublish(p)) - 1
    BY <1>3, <1>4, FS_RemoveElement
  <2>3. Cardinality(ToPublish(p) \ {c}) \in Nat
    BY <2>2, FS_CardinalityType
  <2>4. QED
    BY <2>1, <2>2, <2>3, <1>3
<1>5. CASE ~ (c \in ToPublish(p) /\ c \notin ToPublish(p)')
  <2>1. ToPublish(p)' = ToPublish(p)
    BY <1>1, <1>2, <1>5
  <2>2. QED
    BY <2>1, <1>3, <1>5
<1>6. QED
  BY <1>4, <1>5

LEMMA CountKeeps ==
    ASSUME RegistryAssumption, IInv, NEW c \in Clients, Only(c), UNCHANGED <<parents, versions, started>>,
           \A p \in Parents : c \in ToPublish(p)' => c \in ToPublish(p)
    PROVE  EnoughJobs'
<1>1. SUFFICES ASSUME NEW p \in Parents
               PROVE  /\ IsFiniteSet(ToPublish(p)')
                      /\ Latest(p)' + Cardinality(ToPublish(p)') <= started'
  BY DEF EnoughJobs
<1>2. /\ IsFiniteSet(ToPublish(p)') /\ Cardinality(ToPublish(p)) \in Nat
      /\ Cardinality(ToPublish(p)') \in Nat
      /\ Cardinality(ToPublish(p)') <= Cardinality(ToPublish(p))
  BY FewerToPublish DEF IInv
<1>3. Latest(p)' = Latest(p)
  BY NoGrowth DEF IInv
<1>4. Latest(p) \in Nat /\ started \in Nat /\ started' = started
  BY DEF IInv, Numbering, CountersTyped, RegistryAssumption
<1>5. Latest(p) + Cardinality(ToPublish(p)) <= started
  BY DEF IInv, EnoughJobs
<1>6. QED
  BY <1>2, <1>3, <1>4, <1>5

LEMMA PendingKeeps ==
    ASSUME IInv, NEW c \in Clients, Only(c), UNCHANGED versions,
           added'[c].row \in {None, added[c].row}
    PROVE  NoClash'
<1>1. \A d \in Clients : added'[d].row \in {None, added[d].row}
  BY DEF Only
<1>2. QED
  BY <1>1 DEF IInv, NoClash, Clash

LEMMA RunsKeep ==
    ASSUME IInv, UNCHANGED <<versions, runs>>
    PROVE  RunsTrue'
BY DEF IInv, RunsTrue, Holds

(* A step of c that leaves the version tables alone.                       *)
LEMMA SessionKeeps ==
    ASSUME RegistryAssumption, IInv, NEW c \in Clients, SessionsTyped', CountersTyped',
           Only(c), ClientOK(c)', UNCHANGED <<parents, versions, recorded>>,
           NoClash', EnoughJobs', RunsTrue'
    PROVE  IInv'
<1>1. Growth /\ Numbering' /\ TablesTyped'
  BY NoGrowth DEF IInv, TablesTyped
<1>2. \A d \in Clients : ClientOK(d)'
  <2>1. \A d \in Clients \ {c} : ClientOK(d)'
    BY <1>1, BystanderKeeps DEF IInv, Only
  <2>2. QED
    BY <2>1
<1>3. NothingPartial'
  BY DEF IInv, NothingPartial
<1>4. QED
  BY <1>1, <1>2, <1>3 DEF IInv

(* One that starts no job and adds no row either.                          *)
LEMMA QuietKeeps ==
    ASSUME RegistryAssumption, IInv, NEW c \in Clients, SessionsTyped', CountersTyped',
           Only(c), ClientOK(c)', UNCHANGED <<parents, versions, recorded, started>>, RunsTrue',
           added'[c].row \in {None, added[c].row},
           \A p \in Parents : c \in ToPublish(p)' => c \in ToPublish(p)
    PROVE  IInv'
BY CountKeeps, PendingKeeps, SessionKeeps

(* One that ends the job of c.                                             *)
LEMMA EndKeeps ==
    ASSUME RegistryAssumption, IInv, NEW c \in Clients,
           NEW how \in {"none", "run", "refused", "404", "failed"}, EndJob(c, how),
           CountersTyped', UNCHANGED <<parents, versions, recorded, started>>, RunsTrue'
    PROVE  IInv'
<1>1. /\ SessionsTyped' /\ Only(c) /\ ClientOK(c)'
      /\ pc'[c] = "idle" /\ added'[c] = Nothing
  BY EndJobEffect DEF IInv
<1>2. added'[c].row = None
  BY <1>1 DEF Nothing
<1>3. \A p \in Parents : c \notin ToPublish(p)'
  BY <1>1 DEF ToPublish, Registering, ParentKnown, Numbered, Inserted
<1>4. QED
  BY <1>1, <1>2, <1>3, QuietKeeps

LEMMA FaultsCounted ==
    ASSUME CountersTyped, RegistryAssumption, Fault \/ NoFault, UNCHANGED started
    PROVE  CountersTyped'
BY DEF CountersTyped, Fault, NoFault, RegistryAssumption

(* What stays true of a client whose job and pins are as they were.        *)
LEMMA SameJob ==
    ASSUME Numbering, NEW c \in Clients, ClientOK(c), UNCHANGED <<parents, versions>>,
           job'[c] = job[c], pins'[c] = pins[c]
    PROVE  /\ Of(c)' = Of(c) /\ Content(c)' = Content(c) /\ Since(c)' = Since(c)
           /\ SinceFits(c)' /\ ToldTheTruth(c)'
<1>1. Of(c)' = Of(c) /\ Content(c)' = Content(c) /\ Since(c)' = Since(c)
  BY DEF Of, Content, Since
<1>2. \A p : Latest(p)' = Latest(p)
  BY NoGrowth
<1>3. SinceFits(c)'
  <2>1. SUFFICES ASSUME job[c] # NoJob
                 PROVE  /\ job[c].since.mv <= Latest(job[c].metric)'
                        /\ job[c].since.dv <= Latest(job[c].dataset)'
    BY DEF SinceFits
  <2>2. QED
    BY <1>2, <2>1 DEF ClientOK, SinceFits
<1>4. ToldTheTruth(c)'
  BY DEF ClientOK, ToldTheTruth, Holds
<1>5. QED
  BY <1>1, <1>3, <1>4

LEMMA SinceIsPast ==
    ASSUME RegistryAssumption, SessionsTyped, NEW c \in Clients, ClientOK(c),
           job[c].kind = "suite"
    PROVE  Since(c) <= Latest(Of(c))
<1>1. job[c] # NoJob
  BY DEF NoJob
<1>2. /\ job[c].since.mv <= Latest(job[c].metric)
      /\ job[c].since.dv <= Latest(job[c].dataset)
  BY <1>1 DEF ClientOK, SinceFits
<1>3. CASE Of(c) \in Metrics
  <2>1. Of(c) = job[c].metric /\ Since(c) = job[c].since.mv
    BY <1>3, SuiteType
  <2>2. QED
    BY <1>2, <2>1
<1>4. CASE Of(c) \notin Metrics
  <2>1. Of(c) = job[c].dataset /\ Since(c) = job[c].since.dv
    BY <1>4, SuiteType
  <2>2. QED
    BY <1>2, <2>1
<1>5. QED
  BY <1>3, <1>4

LEMMA LatestFits ==
    ASSUME RegistryAssumption, Numbering, EnoughJobs, CountersTyped, NEW p \in Parents
    PROVE  /\ Latest(p) \in Numbers
           /\ \A c \in ToPublish(p) : Latest(p) + 1 \in Numbers
<1>1. IsFiniteSet(ToPublish(p)) /\ Latest(p) + Cardinality(ToPublish(p)) <= started
  BY DEF EnoughJobs
<1>2. Cardinality(ToPublish(p)) \in Nat
  BY <1>1, FS_CardinalityType
<1>3. Latest(p) \in Nat /\ MaxJobs \in Nat /\ started \in Nat /\ started <= MaxJobs
  BY DEF Numbering, CountersTyped, RegistryAssumption
<1>4. \A c \in ToPublish(p) : Cardinality(ToPublish(p)) # 0
  BY <1>1, FS_EmptySet
<1>5. QED
  BY <1>1, <1>2, <1>3, <1>4 DEF Numbers

-----------------------------------------------------------------------------
(* The commit of a version                                                 *)

(* The commit adds one row, and its number is the next one.                *)
LEMMA PersistEffect ==
    ASSUME RegistryAssumption, IInv, NEW c \in Clients, pc[c] = "committing", Persist(c)
    PROVE  /\ TablesTyped' /\ Growth /\ Numbering' /\ NothingPartial'
           /\ versions' = versions \union {NewRow(c)} /\ NewRow(c) \in Rows
           /\ added[c].row = NewRow(c) /\ Of(c) \in Parents
           /\ next[c] = Latest(Of(c)) + 1
           /\ \A p \in Parents : Latest(p)' = IF p = Of(c) THEN next[c] ELSE Latest(p)
           /\ \A a, b \in versions' : Clash(a, b) => a = b
<1>1. pc[c] \in Registering /\ pc[c] \in ParentKnown /\ pc[c] \in Numbered /\ pc[c] \in Inserted
  BY DEF Registering, ParentKnown, Numbered, Inserted
<1>2. job[c].kind = "suite"
  BY <1>1 DEF IInv, ClientOK, JobFits
<1>3. PICK p \in Parents : p = Of(c)
  BY <1>2, SuiteType DEF IInv
<1>4. PICK n \in Numbers : n = next[c]
  BY DEF IInv, SessionsTyped
<1>5. PICK x \in Contents : x = Content(c)
  BY <1>2, SuiteType DEF IInv
<1>6. PICK r : r = NewRow(c)
  OBVIOUS
<1>7. r = [of |-> p, version |-> n, content |-> x]
  BY <1>3, <1>4, <1>5, <1>6 DEF NewRow
<1>8. /\ added[c].parent \in {p, None} /\ p \in parents \union {added[c].parent}
      /\ added[c].row = r /\ added[c].records = (p \in Datasets)
  <2>1. SessionFits(c)
    BY DEF IInv, ClientOK
  <2>2. /\ added[c].parent \in {Of(c), None} /\ Of(c) \in parents \union {added[c].parent}
        /\ added[c].row = NewRow(c) /\ added[c].records = (Of(c) \in Datasets)
    BY <2>1, <1>1 DEF SessionFits
  <2>3. QED
    BY <2>2, <1>3, <1>6
<1>9. Latest(p) \in Nat /\ Since(c) \in Nat /\ n \in Nat
  BY <1>2, SuiteType, RowType DEF IInv, Numbering
<1>10. n \in 1 .. Latest(p) + 1
  <2>1. n \in Since(c) + 1 .. Latest(p) + 1
    BY <1>1, <1>3, <1>4 DEF IInv, ClientOK, NumberFits
  <2>2. QED
    BY <2>1, <1>9
<1>11. r \in Rows /\ r # None
  <2>1. n # 0
    BY <1>10, <1>9
  <2>2. r \in Rows
    BY <1>7, <2>1 DEF Rows
  <2>3. QED
    BY <2>2, RowType
<1>12. \A a \in versions : ~Clash(r, a)
  BY <1>8, <1>11 DEF IInv, NoClash
<1>13. n = Latest(p) + 1
  <2>1. n \notin {row.version : row \in VersionsOf(p)}
    BY <1>12, <1>7 DEF Clash, VersionsOf
  <2>2. {row.version : row \in VersionsOf(p)} = 1 .. Latest(p)
    BY DEF IInv, Numbering
  <2>3. QED
    BY <2>1, <2>2, <1>9, <1>10
<1>14. /\ parents' = parents \union {p} /\ versions' = versions \union {r}
       /\ recorded' = IF p \in Datasets THEN recorded \union {<< p, n >>} ELSE recorded
  <2>1. None \notin Parents /\ parents \subseteq Parents
    BY RowType DEF IInv, TablesTyped
  <2>2. parents' = parents \union {p}
    BY <1>8, <2>1 DEF Persist
  <2>3. QED
    BY <2>2, <1>3, <1>4, <1>8 DEF Persist
<1>15. TablesTyped'
  <2>1. p \in Datasets => << p, n >> \in Datasets \X (Numbers \ {0})
    BY <1>9, <1>10
  <2>2. parents' \subseteq Parents /\ versions' \subseteq Rows
    BY <1>14, <1>11 DEF IInv, TablesTyped
  <2>3. recorded' \subseteq Datasets \X (Numbers \ {0})
    BY <1>14, <2>1 DEF IInv, TablesTyped
  <2>4. QED
    BY <2>2, <2>3 DEF TablesTyped
<1>16. /\ {row.version : row \in VersionsOf(p)'} = 1 .. n
       /\ Latest(p)' = n
  <2>1. VersionsOf(p)' = VersionsOf(p) \union {r}
    BY <1>14, <1>7 DEF VersionsOf
  <2>2. {row.version : row \in VersionsOf(p)'} = {row.version : row \in VersionsOf(p)} \union {n}
    BY <2>1, <1>7
  <2>3. {row.version : row \in VersionsOf(p)} = 1 .. Latest(p)
    BY DEF IInv, Numbering
  <2>4. 1 .. n = (1 .. Latest(p)) \union {n}
    BY <1>13, <1>9
  <2>5. {row.version : row \in VersionsOf(p)'} = 1 .. n
    BY <2>2, <2>3, <2>4
  <2>6. {0} \union {row.version : row \in VersionsOf(p)'} = 0 .. n
    BY <2>5, <1>9
  <2>7. 0 .. n \in SUBSET Nat /\ n \in 0 .. n /\ \A i \in 0 .. n : n >= i
    BY <1>9
  <2>8. Latest(p)' = n
    BY <2>6, <2>7, MaxIs DEF Latest
  <2>9. QED
    BY <2>5, <2>8
<1>17. \A q \in Parents : q # p => VersionsOf(q)' = VersionsOf(q) /\ Latest(q)' = Latest(q)
  <2>1. \A q \in Parents : q # p => VersionsOf(q)' = VersionsOf(q)
    BY <1>14, <1>7 DEF VersionsOf
  <2>2. QED
    BY <2>1 DEF Latest
<1>18. Numbering'
  BY <1>9, <1>16, <1>17 DEF IInv, Numbering
<1>19. Growth
  <2>1. \A q \in Parents : Latest(q)' \in Nat /\ Latest(q) <= Latest(q)'
    BY <1>9, <1>13, <1>16, <1>17 DEF IInv, Numbering
  <2>2. r.version > Latest(r.of)
    BY <1>7, <1>9, <1>13
  <2>3. QED
    BY <1>14, <2>1, <2>2 DEF Growth
<1>20. NothingPartial'
  <2>1. r.of = p /\ r.version = n
    BY <1>7
  <2>2. parents = {row.of : row \in versions}
    BY DEF IInv, NothingPartial
  <2>3. parents' = {row.of : row \in versions'}
    BY <1>14, <2>1, <2>2
  <2>4. \A row \in versions' : row.of \in Datasets => << row.of, row.version >> \in recorded'
    BY <1>14, <2>1 DEF IInv, NothingPartial
  <2>5. QED
    BY <2>3, <2>4 DEF NothingPartial
<1>21. \A a, b \in versions' : Clash(a, b) => a = b
  BY <1>12, <1>14, ClashIsMutual DEF IInv, NoClash
<1>22. \A q \in Parents : Latest(q)' = IF q = p THEN n ELSE Latest(q)
  BY <1>16, <1>17
<1>23. QED
  BY <1>3, <1>4, <1>6, <1>8, <1>11, <1>13, <1>14, <1>15, <1>18, <1>19, <1>20, <1>21, <1>22

(* A commit, heard or not: c has published, and its session is closed.     *)
LEMMA PublishKeeps ==
    ASSUME RegistryAssumption, IInv, NEW c \in Clients, pc[c] = "committing", Persist(c),
           SessionsTyped', CountersTyped', Only(c), ClientOK(c)', added'[c] = Nothing,
           UNCHANGED <<runs, started>>,
           \A p \in Parents : c \in ToPublish(p)' => c \in ToPublish(p) /\ p # Of(c)
    PROVE  IInv'
<1>1. /\ TablesTyped' /\ Growth /\ Numbering' /\ NothingPartial'
      /\ versions' = versions \union {NewRow(c)} /\ NewRow(c) \in Rows
      /\ added[c].row = NewRow(c) /\ Of(c) \in Parents
      /\ next[c] = Latest(Of(c)) + 1
      /\ \A p \in Parents : Latest(p)' = IF p = Of(c) THEN next[c] ELSE Latest(p)
      /\ \A a, b \in versions' : Clash(a, b) => a = b
  BY PersistEffect
<1>2. \A d \in Clients : ClientOK(d)'
  <2>1. \A d \in Clients \ {c} : ClientOK(d)'
    BY <1>1, BystanderKeeps DEF IInv, Only
  <2>2. QED
    BY <2>1
<1>3. NoClash'
  <2>1. added'[c].row = None
    BY DEF Nothing
  <2>2. NewRow(c) # None
    BY <1>1, RowType
  <2>3. SUFFICES ASSUME NEW d \in Clients \ {c}, added[d].row # None
                 PROVE  /\ \A a \in versions' : ~Clash(added[d].row, a)
                        /\ \A e \in Clients \ {d} :
                              added'[e].row # None => ~Clash(added[d].row, added'[e].row)
    BY <1>1, <2>1 DEF NoClash, Clash, Only
  <2>4. ~Clash(added[d].row, NewRow(c))
    BY <1>1, <2>2, <2>3 DEF IInv, NoClash
  <2>5. \A a \in versions' : ~Clash(added[d].row, a)
    BY <1>1, <2>3, <2>4 DEF IInv, NoClash
  <2>6. \A e \in Clients \ {d} : added'[e].row # None => ~Clash(added[d].row, added'[e].row)
    BY <2>1, <2>3 DEF IInv, NoClash, Only
  <2>7. QED
    BY <2>5, <2>6
<1>4. EnoughJobs'
  <2>1. SUFFICES ASSUME NEW p \in Parents
                 PROVE  /\ IsFiniteSet(ToPublish(p)')
                        /\ Latest(p)' + Cardinality(ToPublish(p)') <= started'
    BY DEF EnoughJobs
  <2>2. /\ IsFiniteSet(ToPublish(p)') /\ Cardinality(ToPublish(p)) \in Nat
        /\ Cardinality(ToPublish(p)') \in Nat
        /\ Cardinality(ToPublish(p)') <= Cardinality(ToPublish(p))
        /\ c \in ToPublish(p) /\ c \notin ToPublish(p)' =>
               Cardinality(ToPublish(p)') = Cardinality(ToPublish(p)) - 1
    BY FewerToPublish DEF IInv
  <2>3. Latest(p) \in Nat /\ started \in Nat /\ started' = started
    BY DEF IInv, Numbering, CountersTyped, RegistryAssumption
  <2>4. Latest(p) + Cardinality(ToPublish(p)) <= started
    BY DEF IInv, EnoughJobs
  <2>5. CASE p = Of(c)
    <3>1. c \in ToPublish(p)
      BY <2>5 DEF ToPublish, Registering, ParentKnown, Numbered, Inserted
    <3>2. Latest(p)' = Latest(p) + 1
      BY <1>1, <2>5
    <3>3. QED
      BY <2>2, <2>3, <2>4, <2>5, <3>1, <3>2
  <2>6. CASE p # Of(c)
    <3>1. Latest(p)' = Latest(p)
      BY <1>1, <2>6
    <3>2. QED
      BY <2>2, <2>3, <2>4, <3>1
  <2>7. QED
    BY <2>5, <2>6
<1>5. RunsTrue'
  BY <1>1 DEF IInv, RunsTrue, Holds
<1>6. QED
  BY <1>1, <1>2, <1>3, <1>4, <1>5 DEF IInv

-----------------------------------------------------------------------------
(* The actions, one by one                                                 *)

LEMMA BeginKeeps ==
    ASSUME RegistryAssumption, IInv, NEW c \in Clients, Begin(c)
    PROVE  IInv'
<1>1. /\ SessionsTyped /\ CountersTyped /\ Numbering /\ EnoughJobs /\ ClientOK(c)
      /\ pc[c] = "idle" /\ started' = started + 1 /\ started < MaxJobs
      /\ UNCHANGED <<tables, pins, next, added, outcome, faults>>
  BY DEF IInv, Begin, NoFault
<1>2. UNCHANGED <<parents, versions, recorded, runs>>
  BY <1>1 DEF tables
<1>3. \A p \in Parents : Latest(p) \in Nat /\ Latest(p)' = Latest(p)
  BY <1>1, <1>2, NoGrowth DEF Numbering
<1>4. PICK j \in SuiteJobs \union OtherJobs, step \in Steps :
          /\ job' = [job EXCEPT ![c] = j] /\ pc' = [pc EXCEPT ![c] = step]
          /\ \/ step = "finding parent" /\ j \in SuiteJobs
             \/ step = "choosing metric" /\ j \in OtherJobs
          /\ j.since.mv = Latest(j.metric) /\ j.since.dv = Latest(j.dataset)
  <2>1. PICK m \in Metrics, d \in Datasets :
            \/ /\ \E i \in Irs, f \in Files :
                     job' = [job EXCEPT ![c] =
                        [kind |-> "suite", metric |-> m, dataset |-> d, ir |-> i,
                         file |-> f, since |-> [mv |-> Latest(m), dv |-> Latest(d)]]]
               /\ pc' = [pc EXCEPT ![c] = "finding parent"]
            \/ /\ job' = [job EXCEPT ![c] =
                     [kind |-> "latest", metric |-> m, dataset |-> d,
                      since |-> [mv |-> Latest(m), dv |-> Latest(d)]]]
               /\ pc' = [pc EXCEPT ![c] = "choosing metric"]
    BY DEF Begin, Goto
  <2>2. PICK since \in Since0 : since = [mv |-> Latest(m), dv |-> Latest(d)]
    BY <1>3 DEF Since0, Parents
  <2>3. since.mv = Latest(m) /\ since.dv = Latest(d)
    BY <2>2
  <2>4. CASE /\ \E i \in Irs, f \in Files :
                   job' = [job EXCEPT ![c] =
                      [kind |-> "suite", metric |-> m, dataset |-> d, ir |-> i,
                       file |-> f, since |-> [mv |-> Latest(m), dv |-> Latest(d)]]]
             /\ pc' = [pc EXCEPT ![c] = "finding parent"]
    <3>1. PICK i \in Irs, f \in Files :
             job' = [job EXCEPT ![c] = [kind |-> "suite", metric |-> m, dataset |-> d,
                                        ir |-> i, file |-> f, since |-> since]]
      BY <2>2, <2>4
    <3>2. PICK j \in SuiteJobs :
             j = [kind |-> "suite", metric |-> m, dataset |-> d, ir |-> i, file |-> f,
                  since |-> since]
      BY DEF SuiteJobs
    <3>3. j.metric = m /\ j.dataset = d /\ j.since = since
      BY <3>2
    <3>4. "finding parent" \in Steps
      BY DEF Steps
    <3>5. QED
      BY <2>3, <2>4, <3>1, <3>2, <3>3, <3>4
  <2>5. CASE /\ job' = [job EXCEPT ![c] =
                   [kind |-> "latest", metric |-> m, dataset |-> d,
                    since |-> [mv |-> Latest(m), dv |-> Latest(d)]]]
             /\ pc' = [pc EXCEPT ![c] = "choosing metric"]
    <3>1. PICK j \in OtherJobs :
             j = [kind |-> "latest", metric |-> m, dataset |-> d, since |-> since]
      BY DEF OtherJobs
    <3>2. j.metric = m /\ j.dataset = d /\ j.since = since
      BY <3>1
    <3>3. "choosing metric" \in Steps
      BY DEF Steps
    <3>4. QED
      BY <2>2, <2>3, <2>5, <3>1, <3>2, <3>3
  <2>6. QED
    BY <2>1, <2>4, <2>5
<1>5. SessionsTyped'
  BY <1>1, <1>4 DEF SessionsTyped
<1>6. CountersTyped' /\ started \in Nat /\ started' = started + 1
  <2>1. started' = started + 1 /\ started < MaxJobs /\ UNCHANGED faults
    BY <1>1
  <2>2. QED
    BY <1>1, <2>1 DEF CountersTyped, RegistryAssumption
<1>7. Only(c) /\ pc'[c] = step /\ job'[c] = j
  BY <1>1, <1>4 DEF SessionsTyped, Only
<1>8. pins'[c] = NoPins /\ added'[c] = Nothing
  <2>1. pins[c] = NoPins
    BY <1>1 DEF ClientOK, JobFits
  <2>2. added[c] = Nothing
    BY <1>1 DEF ClientOK, SessionFits, ParentKnown, Numbered, Inserted
  <2>3. QED
    BY <1>1, <2>1, <2>2
<1>9. ClientOK(c)'
  <2>1. j # NoJob /\ \/ j.kind = "suite" /\ step = "finding parent"
                     \/ j.kind = "latest" /\ step = "choosing metric"
    <3>1. \/ step = "finding parent" /\ j \in SuiteJobs
          \/ step = "choosing metric" /\ j \in OtherJobs
      BY <1>4
    <3>2. \/ step = "finding parent" /\ j.kind = "suite"
          \/ step = "choosing metric" /\ j.kind = "latest"
      BY <3>1 DEF SuiteJobs, OtherJobs
    <3>3. NoJob.kind # "suite" /\ NoJob.kind # "latest"
      BY DEF NoJob
    <3>4. QED
      BY <3>2, <3>3
  <2>2. NoPins.mv = 0 /\ NoPins.dv = 0
    BY DEF NoPins
  <2>3. JobFits(c)'
    BY <1>7, <1>8, <2>1, <2>2 DEF JobFits, Registering, ParentKnown, Numbered, Inserted
  <2>4. SessionFits(c)' /\ NumberFits(c)' /\ AbsenceFits(c)'
    BY <1>7, <1>8, <2>1 DEF SessionFits, NumberFits, AbsenceFits, ParentKnown, Numbered, Inserted
  <2>5. SinceFits(c)'
    <3>1. PICK m \in Parents : m = j.metric
      BY DEF SuiteJobs, OtherJobs, Parents
    <3>2. PICK d \in Parents : d = j.dataset
      BY DEF SuiteJobs, OtherJobs, Parents
    <3>3. j.since.mv = Latest(m) /\ j.since.dv = Latest(d)
      BY <1>4, <3>1, <3>2
    <3>4. j.since.mv <= Latest(m)' /\ j.since.dv <= Latest(d)'
      BY <1>3, <3>3
    <3>5. QED
      BY <1>7, <3>1, <3>2, <3>4 DEF SinceFits
  <2>6. ToldTheTruth(c)'
    BY <1>8, <2>2 DEF ToldTheTruth
  <2>7. QED
    BY <2>3, <2>4, <2>5, <2>6 DEF ClientOK
<1>10. EnoughJobs'
  <2>1. SUFFICES ASSUME NEW p \in Parents
                 PROVE  /\ IsFiniteSet(ToPublish(p)')
                        /\ Latest(p)' + Cardinality(ToPublish(p)') <= started'
    BY DEF EnoughJobs
  <2>2. IsFiniteSet(ToPublish(p)) /\ Latest(p) + Cardinality(ToPublish(p)) <= started
    BY <1>1 DEF EnoughJobs
  <2>3. /\ IsFiniteSet(ToPublish(p) \union {c})
        /\ Cardinality(ToPublish(p)) \in Nat
        /\ Cardinality(ToPublish(p) \union {c}) \in Nat
        /\ Cardinality(ToPublish(p) \union {c}) <= Cardinality(ToPublish(p)) + 1
    <3>1. Cardinality(ToPublish(p)) \in Nat
      BY <2>2, FS_CardinalityType
    <3>2. IsFiniteSet(ToPublish(p) \union {c})
      BY <2>2, FS_AddElement
    <3>3. \/ Cardinality(ToPublish(p) \union {c}) = Cardinality(ToPublish(p))
          \/ Cardinality(ToPublish(p) \union {c}) = Cardinality(ToPublish(p)) + 1
      BY <2>2, FS_AddElement
    <3>4. QED
      BY <3>1, <3>2, <3>3
  <2>4. ToPublish(p)' \subseteq ToPublish(p) \union {c}
    BY <1>7 DEF Only, ToPublish, Of
  <2>5. /\ IsFiniteSet(ToPublish(p)')
        /\ Cardinality(ToPublish(p)') <= Cardinality(ToPublish(p) \union {c})
    BY <2>3, <2>4, FS_Subset
  <2>6. Cardinality(ToPublish(p)') \in Nat
    BY <2>5, FS_CardinalityType
  <2>7. QED
    BY <1>3, <1>6, <2>2, <2>3, <2>5, <2>6
<1>11. NoClash'
  BY <1>1, <1>2, <1>7, PendingKeeps
<1>12. QED
  BY <1>2, <1>5, <1>6, <1>7, <1>9, <1>10, <1>11, RunsKeep, SessionKeeps

LEMMA AbortKeeps ==
    ASSUME RegistryAssumption, IInv, NEW c \in Clients, Abort(c)
    PROVE  IInv'
<1>1. /\ Fault /\ EndJob(c, "failed") /\ CountersTyped
      /\ UNCHANGED <<parents, versions, recorded, runs, started>>
  BY DEF Abort, tables, IInv
<1>2. CountersTyped'
  BY <1>1, FaultsCounted
<1>3. QED
  BY <1>1, <1>2, RunsKeep, EndKeeps

(* What is known of a client that registers something.                     *)
LEMMA RegisteringKnows ==
    ASSUME RegistryAssumption, IInv, NEW c \in Clients, pc[c] \in Registering
    PROVE  /\ SessionsTyped /\ CountersTyped /\ Numbering /\ EnoughJobs /\ TablesTyped
           /\ SessionFits(c) /\ NumberFits(c) /\ AbsenceFits(c) /\ ClientOK(c)
           /\ job[c].kind = "suite" /\ pins[c].dv = 0 /\ job[c] # NoJob
           /\ Of(c) \in Parents /\ Content(c) \in Contents /\ Since(c) \in Nat
           /\ Of(c) \in Datasets <=> Of(c) \notin Metrics
           /\ c \in ToPublish(Of(c))
           /\ added[c] \in Sessions /\ next[c] \in Numbers
<1>1. /\ SessionsTyped /\ CountersTyped /\ Numbering /\ EnoughJobs /\ TablesTyped
      /\ SessionFits(c) /\ NumberFits(c) /\ AbsenceFits(c) /\ ClientOK(c)
      /\ job[c].kind = "suite" /\ pins[c].dv = 0
  BY DEF IInv, ClientOK, JobFits
<1>2. job[c] # NoJob
  BY <1>1 DEF NoJob
<1>3. /\ Of(c) \in Parents /\ Content(c) \in Contents /\ Since(c) \in Nat
      /\ Of(c) \in Datasets <=> Of(c) \notin Metrics
  BY <1>1, SuiteType
<1>4. c \in ToPublish(Of(c))
  BY DEF ToPublish
<1>5. added[c] \in Sessions /\ next[c] \in Numbers
  BY <1>1 DEF SessionsTyped
<1>6. QED
  BY <1>1, <1>2, <1>3, <1>4, <1>5

(* The request of c may go on at that step, with that number and those     *)
(* rows in its session.                                                    *)
MayGoOn(c, step, n, new) ==
    /\ step \notin ParentKnown => new = Nothing
    /\ step \in ParentKnown =>
          /\ new.parent \in {Of(c), None}
          /\ Of(c) \in parents \union {new.parent}
          /\ new.row = IF step \in Inserted
                       THEN [of |-> Of(c), version |-> n, content |-> Content(c)] ELSE None
          /\ new.records = (step = "committing" /\ Of(c) \in Datasets)
    /\ step = "finding hash" => Of(c) \in Metrics
    /\ step = "adding records" => Of(c) \in Datasets
    /\ step \in Numbered => n \in Since(c) + 1 .. Latest(Of(c)) + 1
    /\ step = "adding parent" => Since(c) = 0
    /\ step \in {"finding latest", "adding version"} /\ Of(c) \in Metrics =>
          \A row \in versions :
              row.of = Of(c) /\ row.content = Content(c) => row.version > Since(c)
    /\ new.row # None =>
          /\ \A row \in versions : ~Clash(new.row, row)
          /\ \A d \in Clients \ {c} : added[d].row # None => ~Clash(new.row, added[d].row)

LEMMA GoingOnKeeps ==
    ASSUME RegistryAssumption, IInv, NEW c \in Clients, pc[c] \in Registering,
           NEW step \in Registering, NEW n \in Numbers, NEW new \in Sessions,
           MayGoOn(c, step, n, new),
           Goto(c, step), next' = [next EXCEPT ![c] = n], added' = [added EXCEPT ![c] = new],
           NoFault, UNCHANGED <<tables, job, pins, outcome, started>>
    PROVE  IInv'
<1>1. /\ SessionsTyped /\ CountersTyped /\ Numbering /\ EnoughJobs /\ ClientOK(c)
      /\ job[c].kind = "suite" /\ pins[c].dv = 0 /\ job[c] # NoJob
      /\ c \in ToPublish(Of(c))
  BY RegisteringKnows
<1>2. UNCHANGED <<parents, versions, recorded, runs>> /\ UNCHANGED <<job, pins, outcome, started>>
  BY DEF tables
<1>3. step \in Steps /\ step # "idle"
  BY DEF Steps, Registering, ParentKnown, Numbered, Inserted
<1>4. SessionsTyped' /\ CountersTyped'
  BY <1>1, <1>2, <1>3, FaultsCounted DEF SessionsTyped, Goto
<1>5. /\ Only(c) /\ pc'[c] = step /\ job'[c] = job[c] /\ pins'[c] = pins[c]
      /\ next'[c] = n /\ added'[c] = new
  BY <1>1, <1>2 DEF SessionsTyped, Only, Goto
<1>6. /\ Of(c)' = Of(c) /\ Content(c)' = Content(c) /\ Since(c)' = Since(c)
      /\ SinceFits(c)' /\ ToldTheTruth(c)'
  BY <1>1, <1>2, <1>5, SameJob
<1>7. JobFits(c)'
  BY <1>1, <1>3, <1>5 DEF JobFits
<1>8. SessionFits(c)'
  BY <1>2, <1>5, <1>6 DEF MayGoOn, SessionFits, NewRow
<1>9. NumberFits(c)'
  <2>1. \A p : Latest(p)' = Latest(p)
    BY <1>1, <1>2, NoGrowth
  <2>2. SUFFICES ASSUME step \in Numbered
                 PROVE  n \in Since(c) + 1 .. Latest(Of(c))' + 1
    BY <1>5, <1>6 DEF NumberFits
  <2>3. Latest(Of(c))' = Latest(Of(c))
    BY <1>6, <2>1
  <2>4. QED
    BY <2>2, <2>3 DEF MayGoOn
<1>10. AbsenceFits(c)'
  BY <1>2, <1>5, <1>6 DEF MayGoOn, AbsenceFits
<1>11. ClientOK(c)'
  BY <1>6, <1>7, <1>8, <1>9, <1>10 DEF ClientOK
<1>12. NoClash'
  <2>1. \A a, b \in versions : Clash(a, b) => a = b
    BY DEF IInv, NoClash
  <2>2. new.row # None =>
          /\ \A a \in versions : ~Clash(new.row, a)
          /\ \A d \in Clients \ {c} : added[d].row # None => ~Clash(new.row, added[d].row)
    BY DEF MayGoOn
  <2>3. \A d \in Clients : added[d].row # None =>
          /\ \A a \in versions : ~Clash(added[d].row, a)
          /\ \A e \in Clients \ {d} : added[e].row # None => ~Clash(added[d].row, added[e].row)
    BY DEF IInv, NoClash
  <2>4. SUFFICES ASSUME NEW d \in Clients, added'[d].row # None
                 PROVE  /\ \A a \in versions : ~Clash(added'[d].row, a)
                        /\ \A e \in Clients \ {d} :
                              added'[e].row # None => ~Clash(added'[d].row, added'[e].row)
    BY <1>2, <2>1 DEF NoClash, Clash
  <2>5. CASE d = c
    BY <1>5, <2>2, <2>4, <2>5 DEF Only
  <2>6. CASE d # c
    <3>1. added'[d] = added[d]
      BY <1>5, <2>6 DEF Only
    <3>2. \A a \in versions : ~Clash(added'[d].row, a)
      BY <2>3, <2>4, <3>1
    <3>3. \A e \in Clients \ {d} : added'[e].row # None => ~Clash(added'[d].row, added'[e].row)
      <4>1. SUFFICES ASSUME NEW e \in Clients \ {d}, added'[e].row # None
                     PROVE  ~Clash(added[d].row, added'[e].row)
        BY <3>1
      <4>2. CASE e = c
        BY <1>5, <2>2, <2>4, <2>6, <3>1, <4>1, <4>2, ClashIsMutual
      <4>3. CASE e # c
        BY <1>5, <2>3, <2>4, <3>1, <4>1, <4>3 DEF Only
      <4>4. QED
        BY <4>2, <4>3
    <3>4. QED
      BY <3>2, <3>3
  <2>7. QED
    BY <2>5, <2>6
<1>13. EnoughJobs'
  <2>1. \A p \in Parents : c \in ToPublish(p)' => c \in ToPublish(p)
    BY <1>5, <1>6 DEF ToPublish
  <2>2. QED
    BY <1>2, <1>5, <2>1, CountKeeps
<1>14. QED
  BY <1>2, <1>4, <1>5, <1>11, <1>12, <1>13, RunsKeep, SessionKeeps

LEMMA FindParentKeeps ==
    ASSUME RegistryAssumption, IInv, NEW c \in Clients, FindParent(c)
    PROVE  IInv'
<1>1. pc[c] \in Registering /\ pc[c] \notin ParentKnown
  BY DEF FindParent, Registering, ParentKnown, Numbered, Inserted
<1>2. /\ SessionsTyped /\ Numbering /\ SessionFits(c) /\ ClientOK(c)
      /\ job[c].kind = "suite" /\ Of(c) \in Parents /\ Since(c) \in Nat
      /\ Of(c) \in Datasets <=> Of(c) \notin Metrics
      /\ next[c] \in Numbers
  BY <1>1, RegisteringKnows
<1>3. added[c] = Nothing /\ Nothing \in Sessions
  BY <1>1, <1>2, RowType DEF SessionFits
<1>4. /\ NoFault /\ UNCHANGED <<tables, job, pins, outcome, started>>
      /\ next' = [next EXCEPT ![c] = next[c]] /\ added' = [added EXCEPT ![c] = Nothing]
  <2>1. UNCHANGED <<tables, job, pins, next, added, outcome, started>> /\ NoFault
    BY DEF FindParent
  <2>2. QED
    BY <1>2, <1>3, <2>1 DEF SessionsTyped
<1>5. CASE Of(c) \in parents
  <2>1. PICK step \in Registering :
            /\ Goto(c, step) /\ step \in ParentKnown /\ step \notin Numbered
            /\ step = "finding hash" <=> Of(c) \in Metrics
            /\ step = "finding hash" \/ step = "finding latest"
    BY <1>5 DEF FindParent, AfterParent, Registering, ParentKnown, Numbered, Inserted
  <2>2. MayGoOn(c, step, next[c], Nothing)
    BY <1>2, <1>5, <2>1 DEF MayGoOn, Nothing, Numbered, Inserted
  <2>3. QED
    BY <1>1, <1>2, <1>3, <1>4, <2>1, <2>2, GoingOnKeeps
<1>6. CASE Of(c) \notin parents
  <2>1. Goto(c, "adding parent") /\ "adding parent" \in Registering
    BY <1>6 DEF FindParent, Registering
  <2>2. Since(c) = 0
    <3>1. VersionsOf(Of(c)) = {}
      BY <1>6 DEF IInv, NothingPartial, VersionsOf
    <3>2. PICK p \in Parents : p = Of(c)
      BY <1>2
    <3>3. {row.version : row \in VersionsOf(p)} = 1 .. Latest(p) /\ Latest(p) \in Nat
      BY <1>2 DEF Numbering
    <3>4. {row.version : row \in VersionsOf(p)} = {}
      BY <3>1, <3>2
    <3>5. Latest(p) = 0
      BY <3>3, <3>4
    <3>6. Since(c) <= Latest(p)
      BY <1>2, <3>2, SinceIsPast
    <3>7. QED
      BY <1>2, <3>5, <3>6
  <2>3. MayGoOn(c, "adding parent", next[c], Nothing)
    BY <2>2 DEF MayGoOn, Nothing, ParentKnown, Numbered, Inserted
  <2>4. QED
    BY <1>1, <1>2, <1>3, <1>4, <2>1, <2>3, GoingOnKeeps
<1>7. QED
  BY <1>5, <1>6

LEMMA AddParentKeeps ==
    ASSUME RegistryAssumption, IInv, NEW c \in Clients, AddParent(c)
    PROVE  IInv'
<1>1. pc[c] \in Registering /\ pc[c] \notin ParentKnown
  BY DEF AddParent, Registering, ParentKnown, Numbered, Inserted
<1>2. /\ SessionsTyped /\ CountersTyped /\ SessionFits(c)
      /\ Of(c) \in Parents
      /\ Of(c) \in Datasets <=> Of(c) \notin Metrics
      /\ next[c] \in Numbers
  BY <1>1, RegisteringKnows
<1>3. CASE Of(c) \in parents
  <2>1. EndJob(c, "refused") /\ UNCHANGED <<parents, versions, recorded, runs, started>>
    BY <1>3 DEF AddParent, Refuse, tables
  <2>2. CountersTyped'
    BY <1>2, <2>1, FaultsCounted DEF AddParent
  <2>3. QED
    BY <2>1, <2>2, RunsKeep, EndKeeps
<1>4. CASE Of(c) \notin parents
  <2>1. added[c] = Nothing
    BY <1>1, <1>2 DEF SessionFits
  <2>2. PICK new \in Sessions : new = [added[c] EXCEPT !.parent = Of(c)]
    <3>1. added[c] \in Sessions
      BY <2>1, RowType
    <3>2. QED
      BY <1>2, <3>1 DEF Sessions
  <2>3. added' = [added EXCEPT ![c] = new]
    BY <1>4, <2>2 DEF AddParent
  <2>4. PICK step \in Registering :
            /\ Goto(c, step) /\ step \in ParentKnown /\ step \notin Numbered
            /\ step = "finding hash" <=> Of(c) \in Metrics
            /\ step = "finding hash" \/ step = "finding latest"
    BY <1>4 DEF AddParent, AfterParent, Registering, ParentKnown, Numbered, Inserted
  <2>5. /\ NoFault /\ UNCHANGED <<tables, job, pins, outcome, started>>
        /\ next' = [next EXCEPT ![c] = next[c]]
    <3>1. UNCHANGED <<tables, job, pins, next, outcome, started>> /\ NoFault
      BY <1>4 DEF AddParent
    <3>2. QED
      BY <1>2, <3>1 DEF SessionsTyped
  <2>6. MayGoOn(c, step, next[c], new)
    <3>1. added[c].parent = None /\ added[c].row = None /\ added[c].records = FALSE
      BY <2>1 DEF Nothing
    <3>2. new.parent = Of(c) /\ new.row = added[c].row /\ new.records = added[c].records
      <4>1. added[c] \in Sessions
        BY <2>1, RowType
      <4>2. QED
        BY <2>2, <4>1 DEF Sessions
    <3>3. QED
      BY <1>2, <2>4, <3>1, <3>2 DEF MayGoOn, Numbered, Inserted
  <2>7. QED
    BY <1>1, <1>2, <2>3, <2>4, <2>5, <2>6, GoingOnKeeps
<1>5. QED
  BY <1>3, <1>4

LEMMA FindLatestKeeps ==
    ASSUME RegistryAssumption, IInv, NEW c \in Clients, FindLatest(c)
    PROVE  IInv'
<1>1. pc[c] \in Registering /\ pc[c] \in ParentKnown /\ pc[c] \notin Inserted
  BY DEF FindLatest, Registering, ParentKnown, Numbered, Inserted
<1>2. /\ SessionsTyped /\ CountersTyped /\ Numbering /\ EnoughJobs
      /\ SessionFits(c) /\ AbsenceFits(c) /\ ClientOK(c)
      /\ job[c].kind = "suite" /\ Of(c) \in Parents /\ Since(c) \in Nat
      /\ c \in ToPublish(Of(c)) /\ added[c] \in Sessions
  BY <1>1, RegisteringKnows
<1>3. PICK p \in Parents : p = Of(c)
  BY <1>2
<1>4. PICK n \in Numbers : n = Latest(p) + 1
  BY <1>2, <1>3, LatestFits
<1>5. n \in Since(c) + 1 .. Latest(Of(c)) + 1
  <2>1. Since(c) <= Latest(p) /\ Latest(p) \in Nat
    BY <1>2, <1>3, SinceIsPast DEF Numbering
  <2>2. QED
    BY <1>2, <1>3, <1>4, <2>1
<1>6. PICK step \in Registering : step = "adding version" /\ Goto(c, step)
  BY DEF FindLatest, Registering, ParentKnown, Numbered
<1>7. /\ NoFault /\ UNCHANGED <<tables, job, pins, outcome, started>>
      /\ next' = [next EXCEPT ![c] = n] /\ added' = [added EXCEPT ![c] = added[c]]
  <2>1. /\ UNCHANGED <<tables, job, pins, added, outcome, started>> /\ NoFault
        /\ next' = [next EXCEPT ![c] = NextVersion(Of(c))]
    BY DEF FindLatest
  <2>2. NextVersion(Of(c)) = n
    BY <1>3, <1>4 DEF NextVersion
  <2>3. QED
    BY <1>2, <2>1, <2>2 DEF SessionsTyped
<1>8. MayGoOn(c, step, n, added[c])
  <2>1. /\ added[c].parent \in {Of(c), None} /\ Of(c) \in parents \union {added[c].parent}
        /\ added[c].row = None /\ added[c].records = FALSE
    BY <1>1, <1>2 DEF SessionFits, FindLatest
  <2>2. Of(c) \in Metrics =>
          \A row \in versions :
              row.of = Of(c) /\ row.content = Content(c) => row.version > Since(c)
    BY <1>2 DEF AbsenceFits, FindLatest
  <2>3. step \in ParentKnown /\ step \notin Inserted /\ step # "committing"
    BY <1>6 DEF ParentKnown, Numbered, Inserted
  <2>4. QED
    BY <1>5, <1>6, <2>1, <2>2, <2>3 DEF MayGoOn
<1>9. QED
  BY <1>1, <1>2, <1>6, <1>7, <1>8, GoingOnKeeps

LEMMA FindHashKeeps ==
    ASSUME RegistryAssumption, IInv, NEW c \in Clients, FindHash(c)
    PROVE  IInv'
<1>1. pc[c] \in Registering /\ pc[c] \in ParentKnown /\ pc[c] \notin Inserted
  BY DEF FindHash, Registering, ParentKnown, Numbered, Inserted
<1>2. /\ SessionsTyped /\ CountersTyped /\ Numbering /\ TablesTyped
      /\ SessionFits(c) /\ ClientOK(c) /\ job[c].kind = "suite"
      /\ Of(c) \in Parents /\ added[c] \in Sessions /\ next[c] \in Numbers
  BY <1>1, RegisteringKnows
<1>3. NoFault /\ UNCHANGED <<parents, versions, recorded, runs, started>>
  BY DEF FindHash, tables
<1>4. CASE SameHash(c) = {} /\ Goto(c, "finding latest")
           /\ UNCHANGED <<job, pins, next, added, outcome>>
  <2>1. PICK step \in Registering : step = "finding latest" /\ Goto(c, step)
    BY <1>4 DEF Registering, ParentKnown
  <2>2. next' = [next EXCEPT ![c] = next[c]] /\ added' = [added EXCEPT ![c] = added[c]]
    BY <1>2, <1>4 DEF SessionsTyped
  <2>3. /\ added[c].parent \in {Of(c), None} /\ Of(c) \in parents \union {added[c].parent}
        /\ added[c].row = None /\ added[c].records = FALSE
    BY <1>1, <1>2 DEF SessionFits, FindHash
  <2>4. \A row \in versions : ~ (row.of = Of(c) /\ row.content = Content(c))
    BY <1>4 DEF SameHash, VersionsOf
  <2>5. step \in ParentKnown /\ step \notin Numbered /\ step \notin Inserted
    BY <2>1 DEF ParentKnown, Numbered, Inserted
  <2>6. MayGoOn(c, step, next[c], added[c])
    BY <2>1, <2>3, <2>4, <2>5 DEF MayGoOn
  <2>7. QED
    BY <1>1, <1>2, <1>3, <1>4, <2>1, <2>2, <2>6, GoingOnKeeps DEF tables
<1>5. CASE \E row \in SameHash(c) : Answered(c, row.version)
  <2>1. Growth
    BY <1>2, <1>3, NoGrowth
  <2>2. GivenAnAnswer(c)
    <3>1. PICK row \in SameHash(c) : Answered(c, row.version)
      BY <1>5
    <3>2. row \in versions /\ row.of = Of(c) /\ row.content = Content(c)
      BY <3>1 DEF SameHash, VersionsOf
    <3>3. row.version \in Numbers \ {0}
          /\ row = [of |-> row.of, version |-> row.version, content |-> row.content]
      BY <1>2, <3>2 DEF TablesTyped, Rows
    <3>4. QED
      BY <1>3, <3>1, <3>2, <3>3 DEF GivenAnAnswer
  <2>3. /\ SessionsTyped' /\ Only(c) /\ ClientOK(c)' /\ added'[c] = Nothing /\ job' = job
        /\ pc'[c] \in Registering => Of(c)' = job[c].dataset
    BY <1>1, <1>2, <2>1, <2>2, AnsweredEffect
  <2>4. \A p \in Parents : c \in ToPublish(p)' => c \in ToPublish(p)
    BY <1>1, <2>3 DEF ToPublish
  <2>5. CountersTyped'
    BY <1>2, <1>3, FaultsCounted
  <2>6. added'[c].row = None
    BY <2>3 DEF Nothing
  <2>7. QED
    BY <1>3, <2>3, <2>4, <2>5, <2>6, RunsKeep, QuietKeeps
<1>6. QED
  BY <1>4, <1>5 DEF FindHash

LEMMA AddVersionKeeps ==
    ASSUME RegistryAssumption, IInv, NEW c \in Clients, AddVersion(c)
    PROVE  IInv'
<1>1. /\ pc[c] \in Registering /\ pc[c] \in ParentKnown /\ pc[c] \in Numbered
      /\ pc[c] \notin Inserted
  BY DEF AddVersion, Registering, ParentKnown, Numbered, Inserted
<1>2. /\ SessionsTyped /\ CountersTyped /\ Numbering /\ SessionFits(c) /\ NumberFits(c)
      /\ Of(c) \in Parents /\ Content(c) \in Contents /\ Since(c) \in Nat
      /\ added[c] \in Sessions /\ next[c] \in Numbers
  BY <1>1, RegisteringKnows
<1>3. Of(c) \in Datasets <=> Of(c) \notin Metrics
  BY <1>1, RegisteringKnows
<1>4. CASE \E row \in versions : Clash(NewRow(c), row)
  <2>1. EndJob(c, "refused") /\ UNCHANGED <<parents, versions, recorded, runs, started>>
    BY <1>4 DEF AddVersion, Refuse, tables
  <2>2. CountersTyped'
    BY <1>2, <2>1, FaultsCounted DEF AddVersion
  <2>3. QED
    BY <2>1, <2>2, RunsKeep, EndKeeps
<1>5. CASE \A row \in versions : ~Clash(NewRow(c), row)
  <2>1. next[c] \in Since(c) + 1 .. Latest(Of(c)) + 1
    BY <1>1, <1>2 DEF NumberFits
  <2>2. PICK p \in Parents : p = Of(c)
    BY <1>2
  <2>3. next[c] \in Numbers \ {0}
    <3>1. Latest(p) \in Nat /\ next[c] \in Since(c) + 1 .. Latest(p) + 1
      BY <1>2, <2>1, <2>2 DEF Numbering
    <3>2. QED
      BY <1>2, <3>1
  <2>4. PICK r \in Rows : r = NewRow(c)
    BY <1>2, <2>3 DEF Rows, NewRow
  <2>5. PICK new \in Sessions : new = [added[c] EXCEPT !.row = r]
    BY <1>2 DEF Sessions
  <2>6. added' = [added EXCEPT ![c] = new]
    BY <1>5, <2>4, <2>5 DEF AddVersion
  <2>7. PICK step \in Registering :
            /\ Goto(c, step) /\ step \in ParentKnown /\ step \in Numbered /\ step \in Inserted
            /\ step = "adding records" <=> Of(c) \notin Metrics
            /\ step = "adding records" \/ step = "committing"
    BY <1>5 DEF AddVersion, Registering, ParentKnown, Numbered, Inserted
  <2>8. /\ NoFault /\ UNCHANGED <<tables, job, pins, outcome, started>>
        /\ next' = [next EXCEPT ![c] = next[c]]
    <3>1. UNCHANGED <<tables, job, pins, next, outcome, started>> /\ NoFault
      BY <1>5 DEF AddVersion
    <3>2. QED
      BY <1>2, <3>1 DEF SessionsTyped
  <2>9. /\ new.parent = added[c].parent /\ new.row = r /\ new.records = FALSE
    <3>1. added[c].records = FALSE
      BY <1>1, <1>2 DEF SessionFits, Inserted
    <3>2. QED
      BY <1>2, <2>5, <3>1 DEF Sessions
  <2>10. MayGoOn(c, step, next[c], new)
    <3>1. /\ added[c].parent \in {Of(c), None}
          /\ Of(c) \in parents \union {added[c].parent}
      BY <1>1, <1>2 DEF SessionFits
    <3>2. r = [of |-> Of(c), version |-> next[c], content |-> Content(c)]
      BY <2>4 DEF NewRow
    <3>3. \A row \in versions : ~Clash(r, row)
      BY <1>5, <2>4
    <3>4. \A d \in Clients \ {c} : added[d].row # None => ~Clash(r, added[d].row)
      BY <2>4 DEF AddVersion
    <3>5. step # "finding hash" /\ step # "adding parent"
          /\ step \notin {"finding latest", "adding version"}
      BY <2>7
    <3>6. QED
      BY <1>3, <2>1, <2>7, <2>9, <3>1, <3>2, <3>3, <3>4, <3>5 DEF MayGoOn
  <2>11. QED
    BY <1>1, <1>2, <2>6, <2>7, <2>8, <2>10, GoingOnKeeps
<1>6. QED
  BY <1>4, <1>5

LEMMA AddRecordsKeeps ==
    ASSUME RegistryAssumption, IInv, NEW c \in Clients, AddRecords(c)
    PROVE  IInv'
<1>1. /\ pc[c] \in Registering /\ pc[c] \in ParentKnown /\ pc[c] \in Numbered
      /\ pc[c] \in Inserted /\ pc[c] = "adding records"
  BY DEF AddRecords, Registering, ParentKnown, Numbered, Inserted
<1>2. /\ SessionsTyped /\ SessionFits(c) /\ NumberFits(c)
      /\ added[c] \in Sessions /\ next[c] \in Numbers
  BY <1>1, RegisteringKnows
<1>3. PICK new \in Sessions : new = [added[c] EXCEPT !.records = TRUE]
  BY <1>2 DEF Sessions
<1>4. PICK step \in Registering : step = "committing" /\ Goto(c, step)
  BY DEF AddRecords, Registering, ParentKnown, Numbered, Inserted
<1>5. /\ NoFault /\ UNCHANGED <<tables, job, pins, outcome, started>>
      /\ next' = [next EXCEPT ![c] = next[c]] /\ added' = [added EXCEPT ![c] = new]
  <2>1. /\ UNCHANGED <<tables, job, pins, next, outcome, started>> /\ NoFault
        /\ added' = [added EXCEPT ![c] = new]
    BY <1>3 DEF AddRecords
  <2>2. QED
    BY <1>2, <2>1 DEF SessionsTyped
<1>6. new.parent = added[c].parent /\ new.row = added[c].row /\ new.records = TRUE
  BY <1>2, <1>3 DEF Sessions
<1>7. MayGoOn(c, step, next[c], new)
  <2>1. /\ added[c].parent \in {Of(c), None} /\ Of(c) \in parents \union {added[c].parent}
        /\ added[c].row = NewRow(c) /\ Of(c) \in Datasets
    BY <1>1, <1>2 DEF SessionFits
  <2>2. next[c] \in Since(c) + 1 .. Latest(Of(c)) + 1
    BY <1>1, <1>2 DEF NumberFits
  <2>3. added[c].row # None =>
          /\ \A row \in versions : ~Clash(added[c].row, row)
          /\ \A d \in Clients \ {c} : added[d].row # None => ~Clash(added[c].row, added[d].row)
    BY DEF IInv, NoClash
  <2>4. step \in ParentKnown /\ step \in Inserted
    BY <1>4 DEF ParentKnown, Numbered, Inserted
  <2>5. QED
    BY <1>4, <1>6, <2>1, <2>2, <2>3, <2>4 DEF MayGoOn, NewRow
<1>8. QED
  BY <1>1, <1>2, <1>4, <1>5, <1>7, GoingOnKeeps

LEMMA CommitKeeps ==
    ASSUME RegistryAssumption, IInv, NEW c \in Clients, Commit(c)
    PROVE  IInv'
<1>1. pc[c] \in Registering /\ pc[c] = "committing"
  BY DEF Commit, Registering, ParentKnown, Numbered, Inserted
<1>2. /\ SessionsTyped /\ CountersTyped /\ Numbering /\ ClientOK(c)
      /\ job[c].kind = "suite" /\ Of(c) \in Parents
  BY <1>1, RegisteringKnows
<1>3. Persist(c) /\ Answered(c, next[c]) /\ NoFault /\ UNCHANGED <<runs, started>>
  BY DEF Commit
<1>4. Growth /\ versions' = versions \union {NewRow(c)} /\ NewRow(c) \in Rows
  BY <1>1, <1>3, PersistEffect
<1>5. GivenAnAnswer(c)
  <2>1. next[c] \in Numbers \ {0}
    BY <1>4 DEF NewRow, Rows
  <2>2. [of |-> Of(c), version |-> next[c], content |-> Content(c)] \in versions'
    BY <1>4 DEF NewRow
  <2>3. QED
    BY <1>3, <2>1, <2>2 DEF GivenAnAnswer
<1>6. /\ SessionsTyped' /\ Only(c) /\ ClientOK(c)' /\ added'[c] = Nothing /\ job' = job
      /\ pc'[c] \in Registering => Of(c) \in Metrics /\ Of(c)' = job[c].dataset
  BY <1>1, <1>2, <1>4, <1>5, AnsweredEffect
<1>7. \A p \in Parents : c \in ToPublish(p)' => c \in ToPublish(p) /\ p # Of(c)
  <2>1. job[c].dataset \notin Metrics
    <3>1. job[c].dataset \in Datasets
      BY <1>2, SuiteType
    <3>2. QED
      BY <3>1 DEF RegistryAssumption
  <2>2. QED
    BY <1>1, <1>6, <2>1 DEF ToPublish
<1>8. CountersTyped'
  BY <1>2, <1>3, FaultsCounted
<1>9. QED
  BY <1>1, <1>3, <1>6, <1>7, <1>8, PublishKeeps

LEMMA CommitUnheardKeeps ==
    ASSUME RegistryAssumption, IInv, NEW c \in Clients, CommitUnheard(c)
    PROVE  IInv'
<1>1. /\ pc[c] = "committing" /\ Fault /\ Persist(c) /\ EndJob(c, "failed")
      /\ UNCHANGED <<runs, started>> /\ SessionsTyped /\ CountersTyped
  BY DEF CommitUnheard, IInv
<1>2. /\ SessionsTyped' /\ Only(c) /\ ClientOK(c)'
      /\ pc'[c] = "idle" /\ added'[c] = Nothing
  BY <1>1, EndJobEffect
<1>3. \A p \in Parents : c \notin ToPublish(p)'
  BY <1>2 DEF ToPublish, Registering, ParentKnown, Numbered, Inserted
<1>4. CountersTyped'
  BY <1>1, FaultsCounted
<1>5. QED
  BY <1>1, <1>2, <1>3, <1>4, PublishKeeps

(* The look-ups of POST /v1/runs: a version is chosen, and a pinned one is *)
(* the one chosen.                                                         *)
LEMMA ChosenIs ==
    ASSUME RegistryAssumption, IInv, NEW p \in Parents, NEW pinned \in Numbers,
           NEW v \in Chosen(p, pinned)
    PROVE  v \in Numbers /\ (pinned # 0 => v = pinned) /\ v # 0
<1>1. CASE pinned = 0
  <2>1. v = Latest(p) /\ v # 0
    BY <1>1 DEF Chosen, Newest
  <2>2. QED
    BY <1>1, <2>1, LatestFits DEF IInv
<1>2. CASE pinned # 0
  BY <1>2 DEF Chosen
<1>3. QED
  BY <1>1, <1>2

LEMMA ChoosingKeeps ==
    ASSUME RegistryAssumption, IInv, NEW c \in Clients,
           pc[c] \notin Registering, job[c] # NoJob,
           NEW step \in Steps \ (Registering \union {"idle"}), Goto(c, step),
           NEW chosen \in [mv : Numbers, dv : Numbers], pins' = [pins EXCEPT ![c] = chosen],
           job[c].kind = "suite" => chosen = pins[c],
           NoFault, UNCHANGED <<tables, job, next, added, outcome, started>>
    PROVE  IInv'
<1>1. UNCHANGED <<parents, versions, recorded, runs>> /\ UNCHANGED <<job, next, added, outcome, started>>
  BY DEF tables
<1>2. SessionsTyped /\ CountersTyped /\ Numbering /\ ClientOK(c)
  BY DEF IInv
<1>3. SessionsTyped' /\ CountersTyped'
  BY <1>1, <1>2, FaultsCounted DEF SessionsTyped, Goto
<1>4. /\ Only(c) /\ pc'[c] = step /\ pins'[c] = chosen
      /\ job'[c] = job[c] /\ next'[c] = next[c] /\ added'[c] = added[c]
  BY <1>1, <1>2 DEF SessionsTyped, Only, Goto
<1>5. JobFits(c)'
  BY <1>2, <1>4 DEF ClientOK, JobFits
<1>6. step \notin ParentKnown /\ step \notin Numbered
      /\ step \notin {"finding hash", "adding records", "finding latest", "adding version",
                      "adding parent"}
  BY DEF Registering, ParentKnown, Numbered, Inserted
<1>7. added[c] = Nothing
  BY <1>2 DEF ClientOK, SessionFits, Registering
<1>8. SessionFits(c)' /\ NumberFits(c)' /\ AbsenceFits(c)'
  BY <1>4, <1>6, <1>7 DEF SessionFits, NumberFits, AbsenceFits
<1>9. SinceFits(c)'
  <2>1. \A p : Latest(p)' = Latest(p)
    BY <1>1, <1>2, NoGrowth
  <2>2. SUFFICES /\ job[c].since.mv <= Latest(job[c].metric)'
                 /\ job[c].since.dv <= Latest(job[c].dataset)'
    BY <1>1 DEF SinceFits
  <2>3. /\ job[c].since.mv <= Latest(job[c].metric)
        /\ job[c].since.dv <= Latest(job[c].dataset)
    BY <1>2 DEF ClientOK, SinceFits
  <2>4. PICK m, d : m = job[c].metric /\ d = job[c].dataset
    OBVIOUS
  <2>5. Latest(m)' = Latest(m) /\ Latest(d)' = Latest(d)
    BY <2>1
  <2>6. QED
    BY <1>1, <2>3, <2>4, <2>5
<1>10. ToldTheTruth(c)'
  BY <1>1, <1>2, <1>4 DEF ClientOK, ToldTheTruth, Holds
<1>11. ClientOK(c)'
  BY <1>5, <1>8, <1>9, <1>10 DEF ClientOK
<1>12. \A p \in Parents : c \notin ToPublish(p)'
  BY <1>4 DEF ToPublish
<1>13. QED
  BY <1>1, <1>3, <1>4, <1>11, <1>12, RunsKeep, QuietKeeps

LEMMA ChooseMetricKeeps ==
    ASSUME RegistryAssumption, IInv, NEW c \in Clients, ChooseMetric(c)
    PROVE  IInv'
<1>1. /\ pc[c] = "choosing metric" /\ NoFault
      /\ UNCHANGED <<parents, versions, recorded, runs, started>>
      /\ SessionsTyped /\ CountersTyped /\ ClientOK(c)
  BY DEF ChooseMetric, tables, IInv
<1>2. pc[c] \notin Registering /\ job[c] # NoJob
  BY <1>1 DEF ClientOK, JobFits, Registering, ParentKnown, Numbered, Inserted
<1>3. CASE EndJob(c, "404")
  BY <1>1, <1>3, FaultsCounted, RunsKeep, EndKeeps
<1>4. ASSUME NEW v \in Chosen(job[c].metric, pins[c].mv), pins' = [pins EXCEPT ![c].mv = v],
             Goto(c, "choosing dataset"), UNCHANGED <<job, next, added, outcome>>
      PROVE  IInv'
  <2>1. PICK step \in Steps \ (Registering \union {"idle"}) : step = "choosing dataset"
    BY DEF Steps, Registering, ParentKnown, Numbered, Inserted
  <2>2. PICK m \in Numbers, d \in Numbers : pins[c] = [mv |-> m, dv |-> d]
    BY <1>1 DEF SessionsTyped
  <2>3. PICK p \in Parents : p = job[c].metric
    BY <1>1, <1>2 DEF SessionsTyped, SuiteJobs, OtherJobs, Parents
  <2>4. v \in Numbers /\ (m # 0 => v = m) /\ pins[c].mv = m /\ pins[c].dv = d
    <3>1. pins[c].mv = m /\ pins[c].dv = d
      BY <2>2
    <3>2. v \in Chosen(p, m)
      BY <1>4, <2>3, <3>1
    <3>3. v \in Numbers /\ (m # 0 => v = m)
      BY <3>2, ChosenIs
    <3>4. QED
      BY <3>1, <3>3
  <2>5. PICK chosen \in [mv : Numbers, dv : Numbers] : chosen = [mv |-> v, dv |-> d]
    BY <2>4
  <2>6. pins' = [pins EXCEPT ![c] = chosen]
    <3>1. pins' = [pins EXCEPT ![c] = [pins[c] EXCEPT !.mv = v]]
      BY <1>4
    <3>2. [pins[c] EXCEPT !.mv = v] = chosen
      BY <2>2, <2>5
    <3>3. QED
      BY <3>1, <3>2
  <2>7. job[c].kind = "suite" => chosen = pins[c]
    <3>1. job[c].kind = "suite" => m # 0
      <4>1. job[c].kind = "suite" => pins[c].mv # 0
        BY <1>1, <1>2 DEF ClientOK, JobFits
      <4>2. QED
        BY <2>4, <4>1
    <3>2. QED
      BY <2>2, <2>4, <2>5, <3>1
  <2>8. QED
    BY <1>1, <1>2, <1>4, <2>1, <2>6, <2>7, ChoosingKeeps DEF tables
<1>5. QED
  BY <1>3, <1>4 DEF ChooseMetric

LEMMA ChooseDatasetKeeps ==
    ASSUME RegistryAssumption, IInv, NEW c \in Clients, ChooseDataset(c)
    PROVE  IInv'
<1>1. /\ pc[c] = "choosing dataset" /\ NoFault
      /\ UNCHANGED <<parents, versions, recorded, runs, started>>
      /\ SessionsTyped /\ CountersTyped /\ ClientOK(c)
  BY DEF ChooseDataset, tables, IInv
<1>2. pc[c] \notin Registering /\ job[c] # NoJob
  BY <1>1 DEF ClientOK, JobFits, Registering, ParentKnown, Numbered, Inserted
<1>3. CASE EndJob(c, "404")
  BY <1>1, <1>3, FaultsCounted, RunsKeep, EndKeeps
<1>4. ASSUME NEW v \in Chosen(job[c].dataset, pins[c].dv), pins' = [pins EXCEPT ![c].dv = v],
             Goto(c, "committing run"), UNCHANGED <<job, next, added, outcome>>
      PROVE  IInv'
  <2>1. PICK step \in Steps \ (Registering \union {"idle"}) : step = "committing run"
    BY DEF Steps, Registering, ParentKnown, Numbered, Inserted
  <2>2. PICK m \in Numbers, d \in Numbers : pins[c] = [mv |-> m, dv |-> d]
    BY <1>1 DEF SessionsTyped
  <2>3. PICK p \in Parents : p = job[c].dataset
    BY <1>1, <1>2 DEF SessionsTyped, SuiteJobs, OtherJobs, Parents
  <2>4. v \in Numbers /\ (d # 0 => v = d) /\ pins[c].mv = m /\ pins[c].dv = d
    <3>1. pins[c].mv = m /\ pins[c].dv = d
      BY <2>2
    <3>2. v \in Chosen(p, d)
      BY <1>4, <2>3, <3>1
    <3>3. v \in Numbers /\ (d # 0 => v = d)
      BY <3>2, ChosenIs
    <3>4. QED
      BY <3>1, <3>3
  <2>5. PICK chosen \in [mv : Numbers, dv : Numbers] : chosen = [mv |-> m, dv |-> v]
    BY <2>4
  <2>6. pins' = [pins EXCEPT ![c] = chosen]
    <3>1. pins' = [pins EXCEPT ![c] = [pins[c] EXCEPT !.dv = v]]
      BY <1>4
    <3>2. [pins[c] EXCEPT !.dv = v] = chosen
      BY <2>2, <2>5
    <3>3. QED
      BY <3>1, <3>2
  <2>7. job[c].kind = "suite" => chosen = pins[c]
    <3>1. job[c].kind = "suite" => d # 0
      <4>1. job[c].kind = "suite" => pins[c].dv # 0
        BY <1>1, <1>2 DEF ClientOK, JobFits
      <4>2. QED
        BY <2>4, <4>1
    <3>2. QED
      BY <2>2, <2>4, <2>5, <3>1
  <2>8. QED
    BY <1>1, <1>2, <1>4, <2>1, <2>6, <2>7, ChoosingKeeps DEF tables
<1>5. QED
  BY <1>3, <1>4 DEF ChooseDataset

LEMMA CommitRunKeeps ==
    ASSUME RegistryAssumption, IInv, NEW c \in Clients, CommitRun(c)
    PROVE  IInv'
<1>1. /\ pc[c] = "committing run" /\ ClientOK(c) /\ CountersTyped
      /\ UNCHANGED <<parents, versions, recorded, started>>
      /\ runs' = runs \union {[job |-> job[c], pins |-> pins[c]]}
  BY DEF CommitRun, IInv
<1>2. RunsTrue'
  <2>1. pc[c] \notin Registering
    BY <1>1 DEF Registering, ParentKnown, Numbered, Inserted
  <2>2. job[c].kind = "suite" => /\ Holds(job[c].metric, pins[c].mv, job[c].ir)
                                 /\ Holds(job[c].dataset, pins[c].dv, job[c].file)
    BY <1>1, <2>1 DEF ClientOK, JobFits, ToldTheTruth
  <2>3. \A run \in runs : run.job.kind = "suite" =>
            /\ Holds(run.job.metric, run.pins.mv, run.job.ir)
            /\ Holds(run.job.dataset, run.pins.dv, run.job.file)
    BY DEF IInv, RunsTrue
  <2>4. \A run \in runs' : run \in runs \/ (run.job = job[c] /\ run.pins = pins[c])
    <3>1. PICK new : new = [job |-> job[c], pins |-> pins[c]]
      OBVIOUS
    <3>2. new.job = job[c] /\ new.pins = pins[c]
      BY <3>1
    <3>3. \A run \in runs' : run \in runs \/ run = new
      BY <1>1, <3>1
    <3>4. QED
      BY <3>2, <3>3
  <2>5. \A run \in runs' : run.job.kind = "suite" =>
            /\ Holds(run.job.metric, run.pins.mv, run.job.ir)
            /\ Holds(run.job.dataset, run.pins.dv, run.job.file)
    BY <2>2, <2>3, <2>4
  <2>6. QED
    BY <1>1, <2>5 DEF RunsTrue, Holds
<1>3. CountersTyped'
  BY <1>1, FaultsCounted DEF CommitRun
<1>4. EndJob(c, "run") \/ EndJob(c, "failed")
  BY DEF CommitRun
<1>5. QED
  BY <1>1, <1>2, <1>3, <1>4, EndKeeps

-----------------------------------------------------------------------------
(* The invariant                                                           *)

LEMMA InitInv ==
    ASSUME RegistryAssumption, Init
    PROVE  IInv
<1>1. TablesTyped /\ CountersTyped /\ SessionsTyped
  <2>1. TablesTyped /\ CountersTyped
    BY DEF Init, TablesTyped, CountersTyped, RegistryAssumption
  <2>2. /\ "idle" \in Steps /\ NoPins \in [mv : Numbers, dv : Numbers]
        /\ 0 \in Numbers /\ Nothing \in Sessions
    BY RowType DEF Steps, NoPins, Numbers, RegistryAssumption
  <2>3. SessionsTyped
    BY <2>2 DEF Init, SessionsTyped
  <2>4. QED
    BY <2>1, <2>3
<1>2. ASSUME NEW c \in Clients
      PROVE  ClientOK(c) /\ added[c].row = None /\ pc[c] = "idle"
  <2>1. pc[c] = "idle" /\ job[c] = NoJob /\ pins[c] = NoPins /\ added[c] = Nothing
    BY DEF Init
  <2>2. NoJob.kind # "suite" /\ Nothing.row = None
    BY DEF NoJob, Nothing
  <2>3. ClientOK(c)
    BY <2>1, <2>2 DEF ClientOK, JobFits, SessionFits, SinceFits, NumberFits, AbsenceFits,
                      ToldTheTruth, Registering, ParentKnown, Numbered, Inserted
  <2>4. QED
    BY <2>1, <2>2, <2>3
<1>3. NoClash /\ NothingPartial /\ RunsTrue
  BY <1>2 DEF Init, NoClash, NothingPartial, RunsTrue
<1>4. \A p \in Parents : Latest(p) = 0 /\ {row.version : row \in VersionsOf(p)} = 1 .. 0
  <2>1. \A p : VersionsOf(p) = {}
    BY DEF Init, VersionsOf
  <2>2. \A p : {row.version : row \in VersionsOf(p)} = 1 .. 0
    BY <2>1
  <2>3. QED
    BY <2>2, LatestIs
<1>5. Numbering
  BY <1>4 DEF Numbering
<1>6. EnoughJobs
  <2>1. \A p \in Parents : ToPublish(p) = {}
    BY <1>2 DEF ToPublish, Registering, ParentKnown, Numbered, Inserted
  <2>2. IsFiniteSet({}) /\ Cardinality({}) = 0
    BY FS_EmptySet
  <2>3. started = 0
    BY DEF Init
  <2>4. \A p \in Parents : /\ IsFiniteSet(ToPublish(p)) /\ Cardinality(ToPublish(p)) = 0
                           /\ Latest(p) = 0
    BY <1>4, <2>1, <2>2
  <2>5. QED
    BY <2>3, <2>4 DEF EnoughJobs
<1>7. QED
  BY <1>1, <1>2, <1>3, <1>5, <1>6 DEF IInv

LEMMA StepInv ==
    ASSUME RegistryAssumption, IInv, [Next]_vars
    PROVE  IInv'
<1>1. CASE Next
  <2>1. PICK c \in Clients : \/ Begin(c) \/ Abort(c) \/ CommitUnheard(c)
                             \/ RegisterStep(c) \/ RunStep(c)
    BY <1>1 DEF Next
  <2>2. CASE Begin(c) \/ Abort(c) \/ CommitUnheard(c)
    BY <2>2, BeginKeeps, AbortKeeps, CommitUnheardKeeps
  <2>3. CASE RegisterStep(c)
    BY <2>3, FindParentKeeps, AddParentKeeps, FindHashKeeps, FindLatestKeeps, AddVersionKeeps,
       AddRecordsKeeps, CommitKeeps DEF RegisterStep
  <2>4. CASE RunStep(c)
    BY <2>4, ChooseMetricKeeps, ChooseDatasetKeeps, CommitRunKeeps DEF RunStep
  <2>5. QED
    BY <2>1, <2>2, <2>3, <2>4
<1>2. CASE UNCHANGED vars
  <2>1. /\ UNCHANGED <<parents, versions, recorded, runs>>
        /\ UNCHANGED <<pc, job, pins, next, added, outcome, started, faults>>
    BY <1>2 DEF vars
  <2>2. TablesTyped' /\ SessionsTyped' /\ CountersTyped'
    BY <2>1 DEF IInv, TablesTyped, SessionsTyped, CountersTyped
  <2>3. Growth /\ Numbering' /\ \A p : Latest(p)' = Latest(p)
    BY <2>1, NoGrowth DEF IInv
  <2>4. \A d \in Clients : ClientOK(d)'
    BY <2>1, <2>2, <2>3, BystanderKeeps DEF IInv
  <2>5. NoClash' /\ NothingPartial' /\ RunsTrue'
    BY <2>1 DEF IInv, NoClash, Clash, NothingPartial, RunsTrue, Holds
  <2>6. EnoughJobs'
    <3>1. \A p \in Parents : ToPublish(p)' = ToPublish(p)
      BY <2>1 DEF ToPublish, Of
    <3>2. QED
      BY <2>1, <2>3, <3>1 DEF IInv, EnoughJobs
  <2>7. QED
    BY <2>2, <2>3, <2>4, <2>5, <2>6 DEF IInv
<1>3. QED
  BY <1>1, <1>2

LEMMA InvHolds ==
    ASSUME RegistryAssumption
    PROVE  Spec => []IInv
<1>1. Init => IInv
  BY InitInv
<1>2. IInv /\ [Next]_vars => IInv'
  BY StepInv
<1>3. QED
  BY <1>1, <1>2, PTL DEF Spec

(* What the tables, the sessions and the counters hold (TypeOK).           *)
THEOREM TypeCorrect ==
    ASSUME RegistryAssumption
    PROVE  Spec => []TypeOK
<1>1. IInv => TypeOK
  <2>1. SUFFICES ASSUME IInv
                 PROVE  TypeOK
    OBVIOUS
  <2>2. TablesTyped /\ SessionsTyped /\ CountersTyped
    BY <2>1 DEF IInv
  <2>3. \A c \in Clients : pc[c] = "idle" <=> job[c] = NoJob
    BY <2>1 DEF IInv, ClientOK, JobFits
  <2>4. \A c \in Clients : added[c] \in Sessions
    BY <2>2 DEF SessionsTyped
  <2>5. \A c \in Clients : /\ added[c].parent \in Parents \union {None}
                           /\ added[c].row \in Rows \union {None}
                           /\ added[c].records \in BOOLEAN
    BY <2>4 DEF Sessions
  <2>6. QED
    BY <2>2, <2>3, <2>5 DEF TypeOK, TablesTyped, SessionsTyped, CountersTyped
<1>2. QED
  BY <1>1, InvHolds, PTL

(* No half of a registration is ever there, whatever fails and whenever:   *)
(* a metric or dataset has a version, a dataset version its records.       *)
THEOREM NothingIsPartial ==
    ASSUME RegistryAssumption
    PROVE  Spec => []NothingPartial
<1>1. IInv => NothingPartial
  BY DEF IInv
<1>2. QED
  BY <1>1, InvHolds, PTL

(* A suite is told of versions that hold its own definition and records,   *)
(* and its run is of those, whoever else registers the same names.         *)
THEOREM SuitesRunTheirOwn ==
    ASSUME RegistryAssumption
    PROVE  Spec => []SuiteRunsItsOwn
<1>1. IInv => SuiteRunsItsOwn
  BY DEF IInv, ClientOK, ToldTheTruth, RunsTrue, SuiteRunsItsOwn
<1>2. QED
  BY <1>1, InvHolds, PTL

-----------------------------------------------------------------------------
(* Refusals                                                                *)

(* The INSERT of c meets a committed row.                                  *)
ParentTaken(c) == pc[c] = "adding parent" /\ Of(c) \in parents
RowTaken(c) == pc[c] = "adding version" /\ \E row \in versions : Clash(NewRow(c), row)

(* That row is newer than the job.                                         *)
LEMMA RefusalIsRace ==
    ASSUME RegistryAssumption, IInv, NEW c \in Clients, ParentTaken(c) \/ RowTaken(c)
    PROVE  Latest(Of(c)) > Since(c)
<1>1. pc[c] \in Registering
  BY DEF ParentTaken, RowTaken, Registering, ParentKnown, Numbered
<1>2. /\ Numbering /\ TablesTyped /\ NumberFits(c) /\ AbsenceFits(c)
      /\ Of(c) \in Parents /\ Since(c) \in Nat
  BY <1>1, RegisteringKnows
<1>3. PICK p \in Parents : p = Of(c)
  BY <1>2
<1>4. \A row \in versions : row.of = p => row.version \in 1 .. Latest(p) /\ Latest(p) \in Nat
  <2>1. \A row \in versions : row.of = p => row \in VersionsOf(p)
    BY DEF VersionsOf
  <2>2. {row.version : row \in VersionsOf(p)} = 1 .. Latest(p) /\ Latest(p) \in Nat
    BY <1>2 DEF Numbering
  <2>3. QED
    BY <2>1, <2>2
<1>5. CASE ParentTaken(c)
  <2>1. Since(c) = 0
    BY <1>2, <1>5 DEF AbsenceFits, ParentTaken
  <2>2. PICK row \in versions : row.of = p
    BY <1>3, <1>5 DEF IInv, NothingPartial, ParentTaken
  <2>3. Latest(p) > 0
    BY <1>4, <2>2
  <2>4. QED
    BY <1>3, <2>1, <2>3
<1>6. CASE RowTaken(c)
  <2>1. PICK row \in versions : Clash(NewRow(c), row)
    BY <1>6 DEF RowTaken
  <2>2. row.of = p
    BY <1>3, <2>1 DEF Clash, NewRow
  <2>3. row.version > Since(c)
    <3>1. CASE row.version = next[c]
      <4>1. next[c] \in Since(c) + 1 .. Latest(Of(c)) + 1
        BY <1>2, <1>6 DEF NumberFits, Numbered, RowTaken
      <4>2. QED
        BY <1>2, <1>3, <1>4, <2>2, <3>1, <4>1
    <3>2. CASE row.of \in Metrics /\ row.content = Content(c)
      BY <1>2, <1>3, <1>6, <2>2, <3>2 DEF AbsenceFits, RowTaken
    <3>3. QED
      <4>1. row.version = next[c] \/ (row.of \in Metrics /\ row.content = Content(c))
        BY <2>1 DEF Clash, NewRow
      <4>2. QED
        BY <3>1, <3>2, <4>1
  <2>4. QED
    BY <1>2, <1>3, <1>4, <2>2, <2>3
<1>7. QED
  BY <1>5, <1>6

(* A step moves one client, and ends its job as refused only if its INSERT *)
(* was refused.                                                            *)
LEMMA RefusedBy ==
    ASSUME SessionsTyped, Next, NEW d \in Clients, pc[d] # "idle", pc'[d] = "idle",
           outcome'[d] = "refused"
    PROVE  ParentTaken(d) \/ RowTaken(d)
<1>1. PICK c \in Clients : \/ Begin(c) \/ Abort(c) \/ CommitUnheard(c)
                           \/ RegisterStep(c) \/ RunStep(c)
  BY DEF Next
<1>2. pc \in [Clients -> Steps] /\ outcome \in [Clients -> {"none", "run", "refused", "404", "failed"}]
  BY DEF SessionsTyped
<1>3. ~Begin(c) /\ ~Abort(c) /\ ~CommitUnheard(c)
  <2>1. ~Begin(c)
    BY <1>2 DEF Begin, Goto
  <2>2. ~Abort(c)
    BY <1>2 DEF Abort, EndJob, Goto
  <2>3. ~CommitUnheard(c)
    BY <1>2 DEF CommitUnheard, EndJob, Goto
  <2>4. QED
    BY <2>1, <2>2, <2>3
<1>4. ~RunStep(c)
  <2>1. ~ChooseMetric(c)
    BY <1>2 DEF ChooseMetric, EndJob, Goto
  <2>2. ~ChooseDataset(c)
    BY <1>2 DEF ChooseDataset, EndJob, Goto
  <2>3. ~CommitRun(c)
    BY <1>2 DEF CommitRun, EndJob, Goto
  <2>4. QED
    BY <2>1, <2>2, <2>3 DEF RunStep
<1>5. ~FindParent(c) /\ ~FindHash(c) /\ ~FindLatest(c) /\ ~AddRecords(c) /\ ~Commit(c)
  <2>1. ~FindParent(c)
    BY <1>2 DEF FindParent, AfterParent, Goto
  <2>2. ~FindHash(c)
    BY <1>2 DEF FindHash, Answered, Goto
  <2>3. ~Commit(c)
    BY <1>2 DEF Commit, Answered, Goto
  <2>4. ~FindLatest(c) /\ ~AddRecords(c)
    BY <1>2 DEF FindLatest, AddRecords, Goto
  <2>5. QED
    BY <2>1, <2>2, <2>3, <2>4
<1>6. AddParent(c) => ParentTaken(d)
  <2>1. AddParent(c) => Of(c) \in parents
    BY <1>2 DEF AddParent, AfterParent, Goto
  <2>2. AddParent(c) => c = d
    BY <1>2, <2>1 DEF AddParent, Refuse, EndJob, Goto
  <2>3. QED
    BY <2>1, <2>2 DEF AddParent, ParentTaken
<1>7. AddVersion(c) => RowTaken(d)
  <2>1. AddVersion(c) => \E row \in versions : Clash(NewRow(c), row)
    BY <1>2 DEF AddVersion, Goto
  <2>2. AddVersion(c) => c = d
    BY <1>2, <2>1 DEF AddVersion, Refuse, EndJob, Goto
  <2>3. QED
    BY <2>1, <2>2 DEF AddVersion, RowTaken
<1>8. QED
  BY <1>1, <1>3, <1>4, <1>5, <1>6, <1>7 DEF RegisterStep

(* A registration is refused only for a race: somebody has published a     *)
(* version of the same metric or dataset since the job began.  Whatever    *)
(* faults there are, the refusal tells the truth (OnlyRacesRefuse).        *)
THEOREM RefusalsAreRaces ==
    ASSUME RegistryAssumption
    PROVE  Spec => OnlyRacesRefuse
<1>1. ASSUME IInv, [Next]_vars
      PROVE  [\A c \in Clients : pc[c] # "idle" /\ pc'[c] = "idle" /\ outcome'[c] = "refused" =>
                 Latest(Of(c)) > (IF Of(c) \in Metrics THEN job[c].since.mv
                                  ELSE job[c].since.dv)]_vars
  <2>1. CASE UNCHANGED vars
    BY <2>1
  <2>2. CASE Next
    <3>1. SUFFICES ASSUME NEW c \in Clients, pc[c] # "idle", pc'[c] = "idle",
                          outcome'[c] = "refused"
                   PROVE  Latest(Of(c)) > (IF Of(c) \in Metrics THEN job[c].since.mv
                                           ELSE job[c].since.dv)
      OBVIOUS
    <3>2. ParentTaken(c) \/ RowTaken(c)
      BY <1>1, <2>2, <3>1, RefusedBy DEF IInv
    <3>3. Latest(Of(c)) > Since(c)
      BY <1>1, <3>2, RefusalIsRace
    <3>4. QED
      BY <3>3 DEF Since
  <2>3. QED
    BY <1>1, <2>1, <2>2
<1>2. QED
  BY <1>1, InvHolds, PTL DEF Spec, OnlyRacesRefuse

-----------------------------------------------------------------------------
(* The version tables are logs                                             *)

LogOf(p) == [v \in {row.version : row \in VersionsOf(p)} |-> ContentOf(p, v)]
TheLog   == [p \in Parents |-> LogOf(p)]

(* The log of p is the sequence of the contents of its rows.               *)
LogFits ==
    \A p \in Parents : /\ LogOf(p) \in Seq(Contents)
                       /\ Len(LogOf(p)) = Latest(p)
                       /\ \A row \in VersionsOf(p) : LogOf(p)[row.version] = row.content

LEMMA ContentIs ==
    ASSUME NoClash, NEW row \in versions
    PROVE  ContentOf(row.of, row.version) = row.content
<1>1. \A other \in versions : other.of = row.of /\ other.version = row.version => other = row
  BY DEF NoClash, Clash
<1>2. (CHOOSE other \in versions : other.of = row.of /\ other.version = row.version) = row
  BY <1>1
<1>3. QED
  BY <1>2 DEF ContentOf

LEMMA LogIs ==
    ASSUME RegistryAssumption
    PROVE  IInv => LogFits
<1>1. SUFFICES ASSUME IInv, NEW p \in Parents
               PROVE  /\ LogOf(p) \in Seq(Contents)
                      /\ Len(LogOf(p)) = Latest(p)
                      /\ \A row \in VersionsOf(p) : LogOf(p)[row.version] = row.content
  BY DEF LogFits
<1>2. NoClash /\ Numbering /\ versions \subseteq Rows
  BY <1>1 DEF IInv, TablesTyped
<1>3. PICK n \in Nat : n = Latest(p) /\ {row.version : row \in VersionsOf(p)} = 1 .. n
  BY <1>2 DEF Numbering
<1>4. \A row \in VersionsOf(p) : /\ row \in versions /\ row.of = p
                                 /\ ContentOf(p, row.version) = row.content
                                 /\ row.content \in Contents
  <2>1. SUFFICES ASSUME NEW row \in VersionsOf(p)
                 PROVE  /\ row \in versions /\ row.of = p
                        /\ ContentOf(p, row.version) = row.content
                        /\ row.content \in Contents
    OBVIOUS
  <2>2. row \in versions /\ row.of = p
    BY <2>1 DEF VersionsOf
  <2>3. ContentOf(p, row.version) = row.content
    BY <1>2, <2>2, ContentIs
  <2>4. row.content \in Contents
    BY <1>2, <2>2 DEF Rows
  <2>5. QED
    BY <2>2, <2>3, <2>4
<1>5. \A v \in 1 .. n : ContentOf(p, v) \in Contents
  BY <1>3, <1>4
<1>6. LogOf(p) = [v \in 1 .. n |-> ContentOf(p, v)]
  BY <1>3 DEF LogOf
<1>7. LogOf(p) \in [1 .. n -> Contents]
  BY <1>5, <1>6
<1>8. LogOf(p) \in Seq(Contents) /\ Len(LogOf(p)) = n
  BY <1>7
<1>9. \A row \in VersionsOf(p) : LogOf(p)[row.version] = row.content
  BY <1>3, <1>4, <1>6
<1>10. QED
  BY <1>3, <1>8, <1>9

LEMMA LogStarts ==
    ASSUME RegistryAssumption, Init
    PROVE  TheLog = [p \in Parents |-> <<>>]
<1>1. IInv /\ LogFits
  BY InitInv, LogIs
<1>2. ASSUME NEW p \in Parents
      PROVE  LogOf(p) = <<>>
  <2>1. VersionsOf(p) = {}
    BY DEF Init, VersionsOf
  <2>2. {row.version : row \in VersionsOf(p)} = 1 .. 0
    BY <2>1
  <2>3. Latest(p) = 0
    BY <2>2, LatestIs
  <2>4. LogOf(p) \in Seq(Contents) /\ Len(LogOf(p)) = 0
    BY <1>1, <2>3 DEF LogFits
  <2>5. QED
    BY <2>4, EmptySeq
<1>3. QED
  BY <1>2 DEF TheLog

(* A commit publishes.                                                     *)
LEMMA CommitPublishes ==
    ASSUME RegistryAssumption, IInv, IInv', LogFits, LogFits', NEW c \in Clients,
           pc[c] = "committing", Persist(c)
    PROVE  Log!Next
<1>1. PICK p \in Parents, r \in Rows :
          /\ p = Of(c) /\ r = NewRow(c) /\ versions' = versions \union {r}
          /\ added[c].row = r /\ r.of = p /\ r.version = Latest(p) + 1
          /\ \A q \in Parents : Latest(q)' = IF q = p THEN r.version ELSE Latest(q)
  <2>1. /\ versions' = versions \union {NewRow(c)} /\ NewRow(c) \in Rows
        /\ added[c].row = NewRow(c) /\ Of(c) \in Parents
        /\ next[c] = Latest(Of(c)) + 1
        /\ \A q \in Parents : Latest(q)' = IF q = Of(c) THEN next[c] ELSE Latest(q)
    BY PersistEffect
  <2>2. NewRow(c).of = Of(c) /\ NewRow(c).version = next[c]
    BY DEF NewRow
  <2>3. QED
    BY <2>1, <2>2
<1>2. PICK x \in Contents : x = r.content
  BY DEF Rows
<1>3. p \in Metrics => \A v \in DOMAIN LogOf(p) : LogOf(p)[v] # x
  <2>1. SUFFICES ASSUME p \in Metrics, NEW v \in DOMAIN LogOf(p), LogOf(p)[v] = x
                 PROVE  FALSE
    OBVIOUS
  <2>2. PICK row \in VersionsOf(p) : row.version = v
    BY <2>1 DEF LogOf
  <2>3. row \in versions /\ row.of = p /\ row.content = x
    BY <2>1, <2>2 DEF LogFits, VersionsOf
  <2>4. Clash(r, row)
    BY <1>1, <1>2, <2>1, <2>3 DEF Clash
  <2>5. added[c].row # None
    BY <1>1, RowType
  <2>6. QED
    BY <1>1, <2>3, <2>4, <2>5 DEF IInv, NoClash
<1>4. ASSUME NEW q \in Parents
      PROVE  LogOf(q)' = IF q = p THEN Append(LogOf(q), x) ELSE LogOf(q)
  <2>1. LogOf(q) \in Seq(Contents) /\ LogOf(q)' \in Seq(Contents)
    BY DEF LogFits
  <2>2. /\ Len(LogOf(q)) = Latest(q) /\ Len(LogOf(q)') = Latest(q)' /\ Latest(q) \in Nat
        /\ \A row \in VersionsOf(q) : LogOf(q)[row.version] = row.content
        /\ \A row \in VersionsOf(q)' : LogOf(q)'[row.version] = row.content
        /\ {row.version : row \in VersionsOf(q)} = 1 .. Latest(q)
    BY DEF LogFits, IInv, Numbering
  <2>3. VersionsOf(q) \subseteq VersionsOf(q)'
    BY <1>1 DEF VersionsOf
  <2>4. \A v \in 1 .. Latest(q) : LogOf(q)'[v] = LogOf(q)[v]
    <3>1. SUFFICES ASSUME NEW v \in 1 .. Latest(q)
                   PROVE  LogOf(q)'[v] = LogOf(q)[v]
      OBVIOUS
    <3>2. PICK row \in VersionsOf(q) : row.version = v
      BY <2>2
    <3>3. QED
      BY <2>2, <2>3, <3>2
  <2>5. CASE q # p
    <3>1. Latest(q)' = Latest(q)
      BY <1>1, <2>5
    <3>2. Len(LogOf(q)') = Len(LogOf(q))
      BY <2>2, <3>1
    <3>3. \A i \in 1 .. Len(LogOf(q)') : LogOf(q)'[i] = LogOf(q)[i]
      BY <2>2, <2>4, <3>2
    <3>4. LogOf(q)' = LogOf(q)
      BY <2>1, <3>2, <3>3, SeqEqual
    <3>5. QED
      BY <2>5, <3>4
  <2>6. CASE q = p
    <3>1. /\ Append(LogOf(q), x) \in Seq(Contents)
          /\ Len(Append(LogOf(q), x)) = Latest(q) + 1
          /\ \A i \in 1 .. Latest(q) : Append(LogOf(q), x)[i] = LogOf(q)[i]
          /\ Append(LogOf(q), x)[Latest(q) + 1] = x
      BY <2>1, <2>2, AppendProperties
    <3>2. Latest(q)' = Latest(q) + 1
      BY <1>1, <2>6
    <3>3. LogOf(q)'[Latest(q) + 1] = x
      <4>1. r \in VersionsOf(q)' /\ r.version = Latest(q) + 1
        BY <1>1, <2>6 DEF VersionsOf
      <4>2. QED
        BY <1>2, <2>2, <4>1
    <3>4. \A i \in 1 .. Latest(q) + 1 : LogOf(q)'[i] = Append(LogOf(q), x)[i]
      <4>1. \A i \in 1 .. Latest(q) + 1 : i \in 1 .. Latest(q) \/ i = Latest(q) + 1
        BY <2>2
      <4>2. QED
        BY <2>4, <3>1, <3>3, <4>1
    <3>5. Len(LogOf(q)') = Latest(q) + 1
      BY <2>2, <3>2
    <3>6. LogOf(q)' = Append(LogOf(q), x)
      BY <2>1, <3>1, <3>4, <3>5, SeqEqual
    <3>7. QED
      BY <2>6, <3>6
  <2>7. QED
    BY <2>5, <2>6
<1>5. TheLog' = [TheLog EXCEPT ![p] = Append(@, x)]
  BY <1>4 DEF TheLog
<1>6. p \in Metrics => \A v \in DOMAIN TheLog[p] : TheLog[p][v] # x
  BY <1>3 DEF TheLog
<1>7. Log!Publish(p, x)
  BY <1>5, <1>6 DEF Log!Publish, TheLog, LogOf
<1>8. QED
  BY <1>7 DEF Log!Next

(* Every other step leaves the logs alone.                                 *)
LEMMA TablesStill ==
    ASSUME [Next]_vars
    PROVE  \/ UNCHANGED versions
           \/ \E c \in Clients : pc[c] = "committing" /\ Persist(c)
<1>1. CASE UNCHANGED vars
  BY <1>1 DEF vars
<1>2. CASE Next
  <2>1. PICK c \in Clients : \/ Begin(c) \/ Abort(c) \/ CommitUnheard(c)
                             \/ RegisterStep(c) \/ RunStep(c)
    BY <1>2 DEF Next
  <2>2. Begin(c) \/ Abort(c) => UNCHANGED versions
    BY DEF Begin, Abort, tables
  <2>3. CommitUnheard(c) \/ Commit(c) => pc[c] = "committing" /\ Persist(c)
    BY DEF CommitUnheard, Commit
  <2>4. RunStep(c) => UNCHANGED versions
    BY DEF RunStep, ChooseMetric, ChooseDataset, CommitRun, tables
  <2>5. FindParent(c) \/ FindHash(c) \/ FindLatest(c) \/ AddRecords(c) => UNCHANGED versions
    BY DEF FindParent, FindHash, FindLatest, AddRecords, tables
  <2>6. AddParent(c) \/ AddVersion(c) => UNCHANGED versions
    BY DEF AddParent, AddVersion, Refuse, tables
  <2>7. QED
    BY <2>1, <2>2, <2>3, <2>4, <2>5, <2>6 DEF RegisterStep
<1>3. QED
  BY <1>1, <1>2

(* Concurrent registrations, refusals and lost answers or not, the version *)
(* tables are logs: each publication appends the next number, a metric     *)
(* never gets the same definition twice, and no version ever changes.      *)
THEOREM TablesAreLogs ==
    ASSUME RegistryAssumption
    PROVE  Spec => ImplementsVersionLog
<1>1. Init => Log!Init
  BY LogStarts DEF Log!Init, TheLog, LogOf
<1>2. ASSUME IInv, IInv', LogFits, LogFits', [Next]_vars
      PROVE  Log!Next \/ TheLog' = TheLog
  <2>1. CASE UNCHANGED versions
    BY <2>1 DEF TheLog, LogOf, VersionsOf, ContentOf
  <2>2. CASE \E c \in Clients : pc[c] = "committing" /\ Persist(c)
    BY <1>2, <2>2, CommitPublishes
  <2>3. QED
    BY <1>2, <2>1, <2>2, TablesStill
<1>3. IInv /\ IInv' /\ LogFits /\ LogFits' /\ [Next]_vars =>
          [Log!Next]_([p \in Parents |->
              [v \in {row.version : row \in VersionsOf(p)} |-> ContentOf(p, v)]])
  BY <1>2 DEF TheLog, LogOf
<1>4. QED
  BY <1>1, <1>3, LogIs, InvHolds, PTL DEF Spec, ImplementsVersionLog, Log!Spec

=============================================================================
