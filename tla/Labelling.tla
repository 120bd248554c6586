----------------------------- MODULE Labelling -----------------------------
(***************************************************************************)
(* Human labels, the agreement snapshot and the active-learning queue of   *)
(* one metric version: the handlers of routes/labels.py and                *)
(* routes/queue.py as Postgres transactions that interleave.               *)
(*                                                                         *)
(* The API runs handlers concurrently and Postgres runs their transactions *)
(* READ COMMITTED: a statement sees what was committed when it began, a    *)
(* statement that meets a row another transaction deleted or a key another *)
(* one inserted waits for that transaction and then looks again, and       *)
(* unique constraints make one of two inserts fail.  Of transactions that  *)
(* wait for each other it ends one with an error.  The ORM writes only the *)
(* columns that differ from what the handler loaded.  A handler is a       *)
(* sequence of steps, one per statement; the DELETE and the INSERT of a    *)
(* refresh take one step per row, and a commit that flushes one row only   *)
(* is one step.  pc[c] names the next step of the request of client c.     *)
(***************************************************************************)
EXTENDS Integers, Sequences, FiniteSets, SequencesExt

CONSTANTS
    Records,      \* the dataset records some run of the metric has judged
    Users,        \* emails of the labellers
    Clients,      \* requests in flight at a time, each a session of its own
    Kinds,        \* the endpoints the clients call
    Scores,       \* values of the column score, in quarters
    Notes,        \* values of the columns label, rationale and tags
    JudgeScores,  \* the judge's latest scores of some records, in quarters
    Lengths,      \* the length of the input of every record
    Bodies,       \* what refresh requests ask for: weights, in tenths, and a size
    Queued,       \* sets of records that earlier refreshes may have queued
    MaxRequests,  \* bound: requests in a behaviour
    MaxFaults,    \* bound: connections lost, and processes that die
    None          \* NULL, no row, nobody

ASSUME LabellingAssumption ==
    /\ IsFiniteSet(Records)
    /\ Kinds \subseteq {"label", "recompute", "refresh", "claim", "skip"}
    /\ Scores \subseteq Nat
    /\ DOMAIN JudgeScores \subseteq Records /\ DOMAIN Lengths = Records
    /\ Bodies \subseteq [weights : [{"low_confidence", "drift_outlier"} -> Int], size : Nat]
    /\ \A recs \in Queued : recs \subseteq Records
    /\ MaxRequests \in Nat
    /\ MaxFaults \in Nat
    /\ None \notin Users
    /\ None \notin [score : Scores, note : Notes]
    /\ None \notin [id : Nat, claimed : Users \union {None}, done : BOOLEAN]

VARIABLES
    users,      \* the rows of users, by email
    labels,     \* human_labels: labels[<<rec, u>>], unique on record and user
    item,       \* label_queue: item[rec], unique on (project, metric, record)
    lastId,     \* the last id given; a refresh gives its rows one id, so that a
                \* row is named by its record and its id
    snapshot,   \* the row of agreement_metrics
    cached,     \* app.state._ch_client holds a ClickHouse client
    pc,         \* pc[c]: the next statement of the request of c
    req,        \* req[c]: the request
    mem,        \* mem[c]: what its handler has read
    deleted,    \* deleted[c]: records whose queue rows its transaction deleted
    added,      \* added[c]: records for which its transaction inserted queue rows
    inserting,  \* inserting[c]: the user its transaction inserted
    outcome,    \* outcome[c]: how its last request ended
    holders,    \* history: <<rec, id, u>> when u was told the row is u's
    started, faults

\* The definitions named Bug... are not part of the specification: each is the
\* definition after it with a plausible slip, which a property must catch.

tables == <<users, labels, item, lastId, snapshot>>
vars == <<users, labels, item, lastId, snapshot, cached, pc, req, mem, deleted, added,
          inserting, outcome, holders, started, faults>>

Cells  == Records \X Users
Values == [score : Scores, note : Notes]
Rows   == [id : Nat, claimed : Users \union {None}, done : BOOLEAN]

Tables == [Cells -> Values \union {None}]
Labelled(table) == {k \in Cells : table[k] # None}

Agreement == INSTANCE AgreementStats
Ranking == INSTANCE QueueRanking

\* The judge's scores of some records, if there is a ClickHouse client.
JudgedBy(ch, recs) ==
    IF ch THEN [rec \in DOMAIN JudgeScores \intersect recs |-> JudgeScores[rec]] ELSE <<>>

\* The snapshots that a table of labels can give: the SELECT has no ORDER BY.
SnapshotTable ==
    {[table |-> table, ch |-> ch, snapshots |->
        {Agreement!Snapshot([i \in DOMAIN cells |-> [record |-> cells[i][1], user |-> cells[i][2],
                                                     score |-> table[cells[i]].score]],
                            JudgedBy(ch, Records)) :
            cells \in SetToSeqs(Labelled(table))}] :
        table \in Tables, ch \in BOOLEAN}
Snapshots(table, ch) ==
    (CHOOSE e \in SnapshotTable : e.table = table /\ e.ch = ch).snapshots

\* What a refresh can insert, row after row: equal records come in any order.
RankingTable ==
    {[pool |-> pool, ch |-> ch, body |-> body, rankings |->
        LET entries == Ranking!ByRecordPriority(JudgedBy(ch, pool),
                                                [rec \in pool |-> Lengths[rec]], body.weights)
        IN  UNION {Ranking!BestFirst(entries, Ranking!Ranked(entries, order, body.size)) :
                      order \in SetToSeqs(DOMAIN entries)}] :
        pool \in SUBSET Records, ch \in BOOLEAN, body \in Bodies}
Rankings(pool, ch, body) ==
    (CHOOSE e \in RankingTable : e.pool = pool /\ e.ch = ch /\ e.body = body).rankings

Blank == [row |-> None, label |-> None, table |-> None, ch |-> FALSE,
          snap |-> None, targets |-> <<>>, chosen |-> <<>>]
Idle  == [kind |-> "none", record |-> None, user |-> None, value |-> None, id |-> 0,
          body |-> None]

Init ==
    /\ users = {}
    /\ labels = [k \in Cells |-> None]
    /\ \E recs \in Queued :
           item = [rec \in Records |->
                      IF rec \in recs THEN [id |-> 1, claimed |-> None, done |-> FALSE]
                      ELSE None]
    /\ lastId = 1
    /\ snapshot = None
    /\ cached = FALSE
    /\ pc = [c \in Clients |-> "idle"]
    /\ req = [c \in Clients |-> Idle]
    /\ mem = [c \in Clients |-> Blank]
    /\ deleted = [c \in Clients |-> {}]
    /\ added = [c \in Clients |-> {}]
    /\ inserting = [c \in Clients |-> None]
    /\ outcome = [c \in Clients |-> "none"]
    /\ holders = {}
    /\ started = 0
    /\ faults = 0

-----------------------------------------------------------------------------
(* Sessions                                                                *)

Goto(c, step) == pc' = [pc EXCEPT ![c] = step]

BugSessionLeftOpen(c, how) ==
    /\ pc' = [pc EXCEPT ![c] = "idle"]
    /\ outcome' = [outcome EXCEPT ![c] = how]
    /\ mem' = [mem EXCEPT ![c] = Blank]
    /\ UNCHANGED <<deleted, added, inserting>>

(* The request is answered and its session closed: what its transaction    *)
(* did not commit is rolled back.                                          *)
Answer(c, how) ==
    /\ pc' = [pc EXCEPT ![c] = "idle"]
    /\ outcome' = [outcome EXCEPT ![c] = how]
    /\ mem' = [mem EXCEPT ![c] = Blank]
    /\ deleted' = [deleted EXCEPT ![c] = {}]
    /\ added' = [added EXCEPT ![c] = {}]
    /\ inserting' = [inserting EXCEPT ![c] = None]

Continue(c, step) == Goto(c, step) /\ UNCHANGED <<outcome, deleted, added, inserting>>

\* The queue row of a record is still the one with this id.
RowExists(rec, id) == item[rec] # None /\ item[rec].id = id

(* An UPDATE of a loaded row: columns that equal what was loaded are not   *)
(* in it, and keep what another transaction has written meanwhile.         *)
Updated(loaded, new, now) ==
    [col \in DOMAIN new |-> IF new[col] = loaded[col] THEN now[col] ELSE new[col]]

FirstStep(kind) ==
    CASE kind = "label"     -> "finding user"
      [] kind = "recompute" -> "reading labels"
      [] kind = "refresh"   -> "finding targets"
      [] kind \in {"claim", "skip"} -> "loading item"

(* A client posts a request.  Ids of queue rows come from GET /v1/queue.   *)
Post(c, r) ==
    /\ pc[c] = "idle"
    /\ started < MaxRequests
    /\ r.kind \in Kinds
    /\ started' = started + 1
    /\ req' = [req EXCEPT ![c] = r]
    /\ mem' = [mem EXCEPT ![c].table = labels]
    /\ outcome' = [outcome EXCEPT ![c] = "none"]
    /\ Goto(c, FirstStep(r.kind))
    /\ UNCHANGED <<tables, cached, deleted, added, inserting, holders, faults>>

PostLabel(c) ==
    \E k \in Cells, v \in Values :
        Post(c, [Idle EXCEPT !.kind = "label", !.record = k[1], !.user = k[2], !.value = v])

PostOnItem(c) ==
    \E rec \in Records, u \in Users, kind \in {"claim", "skip"} :
        /\ item[rec] # None
        /\ Post(c, [Idle EXCEPT !.kind = kind, !.record = rec, !.user = u,
                                !.id = item[rec].id])

PostRecompute(c) == Post(c, [Idle EXCEPT !.kind = "recompute"])

PostRefresh(c) ==
    \E body \in Bodies : Post(c, [Idle EXCEPT !.kind = "refresh", !.body = body])

(* The connection to Postgres breaks or the process dies, with its cached  *)
(* ClickHouse client, between any two statements.                          *)
Abort(c) ==
    /\ pc[c] # "idle"
    /\ faults < MaxFaults
    /\ faults' = faults + 1
    /\ cached' \in {cached, FALSE}
    /\ Answer(c, "lost")
    /\ UNCHANGED <<tables, req, holders, started>>

-----------------------------------------------------------------------------
(* Waiting in Postgres                                                     *)

\* The owner, as it was when the row was loaded, does not forbid the claim.
Claimable(c) == mem[c].row.claimed \in {None, req[c].user}

(* The records whose queue rows, or whose places in the unique index, the  *)
(* next statement of c has to have to itself.                              *)
Needs(c) ==
    {rec \in Records :
        \/ /\ pc[c] = "closing item"
           /\ mem[c].row # None /\ rec = req[c].record /\ RowExists(rec, mem[c].row.id)
        \/ /\ pc[c] \in {"claiming", "skipping"}
           /\ rec = req[c].record /\ RowExists(rec, req[c].id)
           /\ pc[c] = "claiming" => Claimable(c)
        \/ /\ pc[c] = "deleting" /\ mem[c].targets # <<>>
           /\ LET t == Head(mem[c].targets) IN rec = t[1] /\ RowExists(rec, t[2])
        \/ pc[c] = "inserting" /\ mem[c].chosen # <<>> /\ rec = Head(mem[c].chosen)}

(* The transactions that have deleted or inserted, and not committed, what *)
(* c needs: rows and keys of the queue, or the email of a user.            *)
WaitsFor(c) ==
    {d \in Clients \ {c} :
        \/ Needs(c) \intersect (deleted[d] \union added[d]) # {}
        \/ pc[c] = "adding user" /\ inserting[d] = req[c].user}

Cycle(S) == S # {} /\ \A c \in S : WaitsFor(c) \intersect S # {}

(* Postgres looks for a cycle of waits when one has lasted a second, and   *)
(* the statement that finds itself on one fails: nobody catches it, a 500. *)
BreakDeadlock(c) ==
    /\ \E S \in SUBSET Clients :
          c \in S /\ Cycle(S) /\ \A T \in SUBSET S : Cycle(T) => T = S
    /\ Answer(c, "deadlock")
    /\ UNCHANGED <<tables, cached, req, holders, started, faults>>

-----------------------------------------------------------------------------
(* Users: found by email, inserted on first use (labels and claims)        *)

AfterUser(c) == IF req[c].kind = "label" THEN "finding label" ELSE "claiming"

FindUser(c) ==
    /\ pc[c] = "finding user"
    /\ Continue(c, IF req[c].user \in users THEN AfterUser(c) ELSE "adding user")
    /\ UNCHANGED <<tables, cached, req, mem, holders, started, faults>>

(* The INSERT waits for one of the same email; if that one committed, it   *)
(* raises IntegrityError, which nothing catches here: a 500.               *)
AddUser(c) ==
    /\ pc[c] = "adding user"
    /\ IF req[c].user \in users
       THEN Answer(c, "duplicate")
       ELSE /\ Goto(c, AfterUser(c))
            /\ inserting' = [inserting EXCEPT ![c] = req[c].user]
            /\ UNCHANGED <<mem, deleted, added, outcome>>
    /\ UNCHANGED <<tables, cached, req, holders, started, faults>>

BugAnyUser(c) == users \union {inserting[c]}

\* The user rows there are once the transaction of c commits.
UsersWith(c) == users \union ({inserting[c]} \ {None})

-----------------------------------------------------------------------------
(* POST /v1/labels: upsert the label, close the queue item, recompute      *)

Cell(c) == <<req[c].record, req[c].user>>

FindLabel(c) ==
    /\ pc[c] = "finding label"
    /\ mem' = [mem EXCEPT ![c].label = labels[Cell(c)]]
    /\ Continue(c, "saving label")
    /\ UNCHANGED <<tables, cached, req, holders, started, faults>>

(* First commit.  Inserting a row that somebody else has inserted since it *)
(* was looked for is answered with a 409.                                  *)
SaveLabel(c) ==
    /\ pc[c] = "saving label"
    /\ IF mem[c].label = None /\ labels[Cell(c)] # None
       THEN /\ Answer(c, "conflict")
            /\ UNCHANGED <<users, labels>>
       ELSE /\ labels' = [labels EXCEPT ![Cell(c)] =
                             IF mem[c].label = None THEN req[c].value
                             ELSE Updated(mem[c].label, req[c].value, @)]
            /\ users' = UsersWith(c)
            /\ Goto(c, "finding item")
            /\ inserting' = [inserting EXCEPT ![c] = None]
            /\ UNCHANGED <<mem, deleted, added, outcome>>
    /\ UNCHANGED <<item, lastId, snapshot, cached, req, holders, started, faults>>

\* A row the UPDATE that closes the item of a record applies to.
Open(row) == row # None /\ ~row.done

(* The UPDATE of the queue first picks its row ...                         *)
FindItem(c) ==
    /\ pc[c] = "finding item"
    /\ mem' = [mem EXCEPT ![c].row = IF Open(item[req[c].record])
                                     THEN item[req[c].record] ELSE None]
    /\ Continue(c, "closing item")
    /\ UNCHANGED <<tables, cached, req, holders, started, faults>>

(* ... then waits for it and writes it if it is still there and open.      *)
CloseItem(c) ==
    LET rec == req[c].record
        row == mem[c].row
    IN  /\ pc[c] = "closing item"
        /\ item' = IF row # None /\ RowExists(rec, row.id) /\ Open(item[rec])
                   THEN [item EXCEPT ![rec].done = TRUE] ELSE item
        /\ Continue(c, "reading labels")
        /\ UNCHANGED <<users, labels, lastId, snapshot, cached, req, mem, holders,
                       started, faults>>

-----------------------------------------------------------------------------
(* _recompute_agreement, for a label and for POST /v1/agreement/recompute  *)

(* A cached client is used unasked; without one, a connection is tried.    *)
JudgeClients == IF cached THEN {TRUE} ELSE BOOLEAN

BugReadEarly(c) == mem[c].table
LabelTable(c) == labels

(* The labels are read, then ClickHouse is queried for their records; it   *)
(* may be down, and a query that raises ends the request with a 500.       *)
ReadLabels(c) ==
    /\ pc[c] = "reading labels"
    /\ \E ch \in JudgeClients :
          /\ cached' = (cached \/ ch)
          /\ \/ /\ mem' = [mem EXCEPT ![c].table = LabelTable(c), ![c].ch = ch]
                /\ Continue(c, "reading snapshot")
             \/ /\ ch /\ Labelled(LabelTable(c)) # {}
                /\ Answer(c, "no judge")
    /\ UNCHANGED <<tables, req, holders, started, faults>>

ReadSnapshot(c) ==
    /\ pc[c] = "reading snapshot"
    /\ mem' = [mem EXCEPT ![c].snap = snapshot]
    /\ Continue(c, "saving snapshot")
    /\ UNCHANGED <<tables, cached, req, holders, started, faults>>

(* The first snapshot is inserted, and raises if another one was inserted  *)
(* meanwhile; a later one updates the row.                                 *)
SaveSnapshot(c) ==
    /\ pc[c] = "saving snapshot"
    /\ IF mem[c].snap = None /\ snapshot # None
       THEN Answer(c, "duplicate") /\ UNCHANGED snapshot
       ELSE /\ \E new \in Snapshots(mem[c].table, mem[c].ch) :
                   snapshot' = IF mem[c].snap = None THEN new
                               ELSE Updated(mem[c].snap, new, snapshot)
            /\ Answer(c, "ok")
    /\ UNCHANGED <<users, labels, item, lastId, cached, req, holders, started, faults>>

-----------------------------------------------------------------------------
(* POST /v1/queue/{id}/claim and /skip                                     *)

(* session.get: the row is loaded, or there is none and the answer is 404. *)
LoadItem(c) ==
    /\ pc[c] = "loading item"
    /\ IF RowExists(req[c].record, req[c].id)
       THEN /\ mem' = [mem EXCEPT ![c].row = item[req[c].record]]
            /\ Continue(c, IF req[c].kind = "claim" THEN "finding user" ELSE "skipping")
       ELSE Answer(c, "not found")
    /\ UNCHANGED <<tables, cached, req, holders, started, faults>>

(* Refused when the LOADED row is another user's; a commit that finds its  *)
(* row deleted raises StaleDataError.                                      *)
ClaimItem(c) ==
    LET rec == req[c].record
        u   == req[c].user
    IN  /\ pc[c] = "claiming"
        /\ \/ /\ ~Claimable(c)
              /\ Answer(c, "conflict")
              /\ UNCHANGED <<users, item, holders>>
           \/ /\ Claimable(c)
              /\ ~RowExists(rec, req[c].id)
              /\ Answer(c, "stale")
              /\ UNCHANGED <<users, item, holders>>
           \/ /\ Claimable(c)
              /\ RowExists(rec, req[c].id)
              /\ item' = IF mem[c].row.claimed = u THEN item
                         ELSE [item EXCEPT ![rec].claimed = u]
              /\ users' = UsersWith(c)
              /\ holders' = holders \union {<<rec, req[c].id, u>>}
              /\ Answer(c, "ok")
        /\ UNCHANGED <<labels, lastId, snapshot, cached, req, started, faults>>

SkipItem(c) ==
    LET rec == req[c].record
    IN  /\ pc[c] = "skipping"
        /\ IF RowExists(rec, req[c].id)
           THEN item' = [item EXCEPT ![rec].done = TRUE] /\ Answer(c, "ok")
           ELSE Answer(c, "stale") /\ UNCHANGED item
        /\ UNCHANGED <<users, labels, lastId, snapshot, cached, req, holders, started,
                       faults>>

-----------------------------------------------------------------------------
(* POST /v1/queue/refresh: one transaction                                 *)

BugWipesClosed(row) == row # None /\ row.claimed = None
Wiped(row) == row # None /\ row.claimed = None /\ ~row.done

(* The DELETE picks the open rows nobody has claimed, in whatever order it *)
(* comes across them ...                                                   *)
FindTargets(c) ==
    /\ pc[c] = "finding targets"
    /\ \E targets \in SetToSeqs({<<rec, item[rec].id>> :
                                   rec \in {rec \in Records : Wiped(item[rec])}}) :
          mem' = [mem EXCEPT ![c].targets = targets]
    /\ Continue(c, "deleting")
    /\ UNCHANGED <<tables, cached, req, holders, started, faults>>

\* Without the second look that Postgres takes at a row it waited for.
BugNoRecheck(t) == RowExists(t[1], t[2])

\* What was picked is still open and unclaimed.
StillWiped(t) == RowExists(t[1], t[2]) /\ Wiped(item[t[1]])

(* ... and deletes them one by one.  Nobody else sees it before the        *)
(* commit, and who needs the row waits for that.                           *)
DeleteRow(c) ==
    /\ pc[c] = "deleting"
    /\ mem[c].targets # <<>>
    /\ LET t == Head(mem[c].targets)
       IN  deleted' = IF StillWiped(t) THEN [deleted EXCEPT ![c] = @ \union {t[1]}] ELSE deleted
    /\ mem' = [mem EXCEPT ![c].targets = Tail(@)]
    /\ UNCHANGED <<tables, cached, pc, req, added, inserting, outcome, holders, started, faults>>

\* The queue when the transaction of c commits.
QueueWith(c) ==
    [rec \in Records |->
        IF rec \in added[c] THEN [id |-> lastId + 1, claimed |-> None, done |-> FALSE]
        ELSE IF rec \in deleted[c] THEN None
        ELSE item[rec]]

BugByItem == {rec \in Records : ~(item[rec] # None /\ item[rec].done)}
Candidates == {rec \in Records : \A u \in Users : labels[<<rec, u>>] = None}

(* Judged records that nobody has labelled.  Without any, the deletion is  *)
(* committed; with some, their judge scores are asked for, and the best    *)
(* queue_size of them are to be inserted.                                  *)
ChooseCandidates(c) ==
    /\ pc[c] = "deleting"
    /\ mem[c].targets = <<>>
    /\ \/ /\ Candidates = {}
          /\ item' = QueueWith(c)
          /\ Answer(c, "ok")
          /\ UNCHANGED cached
       \/ /\ Candidates # {}
          /\ UNCHANGED item
          /\ \E ch \in JudgeClients :
                /\ cached' = (cached \/ ch)
                /\ \/ /\ \E chosen \in Rankings(Candidates, ch, req[c].body) :
                            mem' = [mem EXCEPT ![c].chosen = chosen]
                      /\ Continue(c, "inserting")
                   \/ ch /\ Answer(c, "no judge")
    /\ UNCHANGED <<users, labels, lastId, snapshot, req, holders, started, faults>>

(* The commit first flushes one INSERT of all of them, the best first.  A  *)
(* record that still has a row, or got one meanwhile, makes it fail.       *)
InsertRow(c) ==
    LET rec == Head(mem[c].chosen)
    IN  /\ pc[c] = "inserting"
        /\ mem[c].chosen # <<>>
        /\ IF item[rec] # None /\ rec \notin deleted[c]
           THEN Answer(c, "duplicate")
           ELSE /\ added' = [added EXCEPT ![c] = @ \union {rec}]
                /\ mem' = [mem EXCEPT ![c].chosen = Tail(@)]
                /\ UNCHANGED <<pc, deleted, inserting, outcome>>
        /\ UNCHANGED <<tables, cached, req, holders, started, faults>>

CommitRefresh(c) ==
    /\ pc[c] = "inserting"
    /\ mem[c].chosen = <<>>
    /\ item' = QueueWith(c)
    /\ lastId' = lastId + 1
    /\ Answer(c, "ok")
    /\ UNCHANGED <<users, labels, snapshot, cached, req, holders, started, faults>>

-----------------------------------------------------------------------------
(* The specification                                                       *)

LabelStep(c)     == FindUser(c) \/ AddUser(c) \/ FindLabel(c) \/ SaveLabel(c)
                    \/ FindItem(c) \/ CloseItem(c)
AgreementStep(c) == ReadLabels(c) \/ ReadSnapshot(c) \/ SaveSnapshot(c)
ItemStep(c)      == LoadItem(c) \/ ClaimItem(c) \/ SkipItem(c)
RefreshStep(c)   == FindTargets(c) \/ DeleteRow(c) \/ ChooseCandidates(c) \/ InsertRow(c)
                    \/ CommitRefresh(c)

\* A statement goes on when nobody holds what it needs.
Statement(c) ==
    /\ WaitsFor(c) = {}
    /\ LabelStep(c) \/ AgreementStep(c) \/ ItemStep(c) \/ RefreshStep(c)

Next ==
    \E c \in Clients :
        \/ PostLabel(c) \/ PostOnItem(c) \/ PostRecompute(c) \/ PostRefresh(c)
        \/ Statement(c)
        \/ BreakDeadlock(c)
        \/ Abort(c)

Spec == Init /\ [][Next]_vars

(* The event loop and Postgres go on with every statement that need not    *)
(* wait, and Postgres ends deadlocks.  Nothing obliges a client to post,   *)
(* or a connection to break.                                               *)
FairSpec == Spec /\ \A c \in Clients : WF_vars(Statement(c)) /\ WF_vars(BreakDeadlock(c))

-----------------------------------------------------------------------------
(* Properties                                                              *)

Steps == {"idle", "finding user", "adding user", "finding label", "saving label",
          "finding item", "closing item", "reading labels", "reading snapshot",
          "saving snapshot", "loading item", "claiming", "skipping",
          "finding targets", "deleting", "inserting"}
Outcomes == {"none", "ok", "conflict", "not found", "duplicate", "stale", "no judge", "lost",
             "deadlock"}

TypeOK ==
    /\ users \subseteq Users
    /\ labels \in Tables
    /\ item \in [Records -> Rows \union {None}]
    /\ lastId \in Nat
    /\ snapshot # None => snapshot.n_labels \in Nat
    /\ cached \in BOOLEAN
    /\ pc \in [Clients -> Steps]
    /\ \A c \in Clients : pc[c] # "idle" => req[c].kind \in Kinds
    /\ deleted \in [Clients -> SUBSET Records]
    /\ added \in [Clients -> SUBSET Records]
    /\ inserting \in [Clients -> Users \union {None}]
    /\ outcome \in [Clients -> Outcomes]
    /\ started \in Nat /\ faults \in Nat

(* What a labeller was told is theirs stays in the queue, claimed: neither *)
(* a refresh that picked the row before it was claimed nor one whose       *)
(* deletion was under way takes it away.                                   *)
ClaimedRowsStay ==
    \A h \in holders : RowExists(h[1], h[2]) /\ item[h[1]].claimed # None

(* "claimed-in-progress rows survive" a refresh, and so do closed ones:    *)
(* the only step from there is to be claimed or closed.                    *)
OnlyOpenRowsGo ==
    [][\A rec \in Records :
           item[rec] # None /\ (item[rec].claimed # None \/ item[rec].done) =>
               /\ item'[rec] # None /\ item'[rec].id = item[rec].id
               /\ item[rec].done => item'[rec].done]_vars

(* No refresh queues a record that had a label when the refresh was asked  *)
(* for: "records that have NEVER been labelled by any human".              *)
QueuesUnlabelled ==
    [][\A c \in Clients, rec \in Records :
           pc[c] = "inserting" /\ pc'[c] = "idle" /\ item'[rec] # None
           /\ item'[rec].id > lastId =>
               \A u \in Users : mem[c].table[<<rec, u>>] = None]_vars

(* "Latest agreement snapshot": with every request answered and the last   *)
(* ones successful, the snapshot is one that the labels there are give,    *)
(* with or without a judge to compare them with.                           *)
SnapshotIsLatest ==
    (\A c \in Clients : req[c].kind \in {"label", "recompute"} /\ outcome[c] = "ok") =>
        snapshot \in Snapshots(labels, TRUE) \union Snapshots(labels, FALSE)

(* "Different user gets 409": one user at most is told to hold an item.    *)
ClaimIsExclusive == \A g, h \in holders : g[1] = h[1] /\ g[2] = h[2] => g = h

(* A refresh does not run into the rows that were there before it.         *)
RefreshSucceeds ==
    \A c \in Clients : req[c].kind = "refresh" => outcome[c] # "duplicate"

(* Every request is answered, although transactions wait for each other's  *)
(* rows: two refreshes that insert the same records in different orders,   *)
(* or delete while another inserts, may each hold what the other needs,    *)
(* and Postgres fails one of them.  It is a refresh that fails: a label, a *)
(* claim or a skip holds nothing that a refresh could wait for.            *)
RequestsAnswered ==
    \A c \in Clients :
        pc[c] # "idle" ~>
            pc[c] = "idle" /\ (outcome[c] = "deadlock" => req[c].kind = "refresh")

=============================================================================
