--------------------------- MODULE LabellingProofs ---------------------------
(***************************************************************************)
(* Theorems about the labelling endpoints, for any records, users, scores, *)
(* weights and requests in flight, and any number of requests and faults:  *)
(* what a labeller holds stays in the queue, a refresh removes only open   *)
(* rows, and it queues no record that had a label.                         *)
(***************************************************************************)
EXTENDS Labelling, FiniteSetTheorems, SequenceTheorems, TLAPS

\* A snapshot has the column that TypeOK is about.
Counted(s) == "n_labels" \in DOMAIN s /\ s["n_labels"] \in Nat

MemoryFields == {"row", "label", "table", "ch", "snap", "targets", "chosen"}

LabelRequests     == [kind : {"label"}, record : Records, user : Users, value : Values,
                      id : {0}, body : {None}]
ItemRequests      == [kind : {"claim", "skip"}, record : Records, user : Users,
                      value : {None}, id : Nat, body : {None}]
RecomputeRequests == [kind : {"recompute"}, record : {None}, user : {None},
                      value : {None}, id : {0}, body : {None}]
RefreshRequests   == [kind : {"refresh"}, record : {None}, user : {None},
                      value : {None}, id : {0}, body : Bodies]
Requests == LabelRequests \union ItemRequests \union RecomputeRequests
            \union RefreshRequests \union {Idle}

TablesTyped ==
    /\ users \subseteq Users
    /\ labels \in Tables /\ IsFiniteSet(Labelled(labels))
    /\ item \in [Records -> Rows \union {None}]
    /\ lastId \in Nat
    /\ \A rec \in Records : item[rec] # None => item[rec].id <= lastId
    /\ snapshot # None => Counted(snapshot)

SessionsTyped ==
    /\ pc \in [Clients -> Steps]
    /\ req \in [Clients -> Requests]
    /\ mem = [c \in Clients |-> mem[c]] /\ \A c \in Clients : DOMAIN mem[c] = MemoryFields
    /\ deleted \in [Clients -> SUBSET Records]
    /\ added \in [Clients -> SUBSET Records]
    /\ inserting \in [Clients -> Users \union {None}]
    /\ outcome \in [Clients -> Outcomes]

OthersTyped ==
    /\ cached \in BOOLEAN
    /\ holders \subseteq Records \X Nat \X Users
    /\ started \in Nat /\ faults \in Nat

(* The steps of the handlers, and those that a claim takes after it has    *)
(* loaded its row or a refresh while it deletes and inserts.               *)
FindingUser == {"finding user", "adding user"}
Saving      == {"finding label", "saving label", "finding item", "closing item"}
Recomputing == {"reading labels", "reading snapshot", "saving snapshot"}
Claiming    == FindingUser \union {"claiming"}
Refreshing  == {"finding targets", "deleting", "inserting"}
Holding     == {"deleting", "inserting"}

(* The request is at a step of its own handler.                            *)
RequestFits(c) ==
    /\ pc[c] # "idle" => req[c].kind \in Kinds
    /\ pc[c] \in FindingUser => req[c].kind \in {"label", "claim"}
    /\ pc[c] \in Saving => req[c].kind = "label"
    /\ pc[c] \in Recomputing => req[c].kind \in {"label", "recompute"}
    /\ pc[c] = "loading item" => req[c].kind \in {"claim", "skip"}
    /\ pc[c] = "claiming" => req[c].kind = "claim"
    /\ pc[c] = "skipping" => req[c].kind = "skip"
    /\ pc[c] \in Refreshing => req[c].kind = "refresh"

(* The row a claim has loaded is the one asked for; while it is there, it  *)
(* is claimed if it was when it was loaded.                                *)
RowSeen(c) ==
    pc[c] \in Claiming /\ req[c].kind = "claim" =>
        /\ mem[c].row \in Rows /\ mem[c].row.id = req[c].id /\ req[c].id <= lastId
        /\ RowExists(req[c].record, req[c].id) /\ mem[c].row.claimed # None =>
              item[req[c].record].claimed # None

(* A label that was found is still there.                                  *)
LabelSeen(c) ==
    pc[c] = "saving label" /\ mem[c].label # None =>
        mem[c].label \in Values /\ labels[Cell(c)] # None

(* A recomputation remembers a table; to a refresh, mem[c].table are the   *)
(* labels there were when it was asked for, and all of those stay.         *)
TableSeen(c) ==
    /\ pc[c] \in {"reading snapshot", "saving snapshot"} =>
          /\ mem[c].ch \in BOOLEAN
          /\ mem[c].table \in Tables /\ IsFiniteSet(Labelled(mem[c].table))
    /\ pc[c] \in Refreshing =>
          \A k \in Cells : mem[c].table[k] # None => labels[k] # None

(* A snapshot that was found is still there.                               *)
SnapSeen(c) == pc[c] = "saving snapshot" /\ mem[c].snap # None => Counted(snapshot)

TargetsSeen(c) == pc[c] = "deleting" => mem[c].targets \in Seq(Records \X Nat)

(* Records without a label when the request of c was posted: a refresh has *)
(* chosen only such ones, whether it has inserted them yet or not.         *)
Unlabelled(c) == {rec \in Records : \A u \in Users : mem[c].table[<<rec, u>>] = None}

ChosenSeen(c) ==
    pc[c] = "inserting" =>
        mem[c].chosen \in Seq(Unlabelled(c)) /\ added[c] \subseteq Unlabelled(c)

SessionOK(c) ==
    /\ RequestFits(c)
    /\ RowSeen(c)
    /\ LabelSeen(c)
    /\ TableSeen(c)
    /\ SnapSeen(c)
    /\ TargetsSeen(c)
    /\ ChosenSeen(c)

(* Another transaction has deleted or inserted, and not committed, the row *)
(* of a record.                                                            *)
Held(c, rec) == \E d \in Clients \ {c} : rec \in deleted[d] \union added[d]

(* The rows a refresh has deleted are open and nobody's, those it inserts  *)
(* have no row that it has not deleted, and no two refreshes have the same *)
(* one in hand.                                                            *)
Locks ==
    \A c \in Clients :
        /\ deleted[c] # {} => pc[c] \in Holding
        /\ added[c] # {} => pc[c] = "inserting"
        /\ \A rec \in deleted[c] : Wiped(item[rec]) /\ ~Held(c, rec)
        /\ \A rec \in added[c] : (item[rec] = None \/ rec \in deleted[c]) /\ ~Held(c, rec)

IInv ==
    /\ TablesTyped /\ SessionsTyped /\ OthersTyped
    /\ \A c \in Clients : SessionOK(c)
    /\ Locks
    /\ ClaimedRowsStay

-----------------------------------------------------------------------------
(* Rows, requests and memories                                             *)

LEMMA NullIsNoRow ==
    ASSUME LabellingAssumption
    PROVE  None \notin Values /\ None \notin Rows /\ None \notin Users
BY DEF LabellingAssumption, Values, Rows

LEMMA RequestType ==
    ASSUME SessionsTyped, NEW c \in Clients
    PROVE  /\ req[c].kind = "label" => /\ req[c].record \in Records /\ req[c].user \in Users
                                       /\ req[c].value \in Values /\ Cell(c) \in Cells
           /\ req[c].kind \in {"claim", "skip"} =>
                 req[c].record \in Records /\ req[c].user \in Users /\ req[c].id \in Nat
           /\ req[c].kind = "refresh" => req[c].body \in Bodies
BY DEF SessionsTyped, Requests, LabelRequests, ItemRequests, RecomputeRequests, RefreshRequests,
       Idle, Cell, Cells

(* A statement that goes on has what it needs to itself.                   *)
LEMMA NobodyHolds ==
    ASSUME NEW c \in Clients, WaitsFor(c) = {}, NEW rec \in Needs(c)
    PROVE  ~Held(c, rec)
BY DEF WaitsFor, Held

(* A snapshot of a finite table counts its labels.                         *)
LEMMA SnapshotCounts ==
    ASSUME NEW table \in Tables, IsFiniteSet(Labelled(table)), NEW ch \in BOOLEAN,
           NEW new \in Snapshots(table, ch)
    PROVE  Counted(new) /\ new = [col \in DOMAIN new |-> new[col]]
<1> DEFINE Listed(t, cells) == [i \in DOMAIN cells |-> [record |-> cells[i][1], user |-> cells[i][2],
                                                      score |-> t[cells[i]].score]]
           E(t, h) == [table |-> t, ch |-> h, snapshots |->
                         {Agreement!Snapshot(Listed(t, cells), JudgedBy(h, Records)) :
                             cells \in SetToSeqs(Labelled(t))}]
<1>1. SnapshotTable = {E(t, h) : t \in Tables, h \in BOOLEAN}
  BY DEF SnapshotTable
<1>2. \A t \in Tables, h \in BOOLEAN :
        E(t, h).table = t /\ E(t, h).ch = h
        /\ E(t, h).snapshots = {Agreement!Snapshot(Listed(t, cells), JudgedBy(h, Records)) :
                                   cells \in SetToSeqs(Labelled(t))}
  OBVIOUS
<1> HIDE DEF E, Listed
<1>3. \E e \in SnapshotTable : e.table = table /\ e.ch = ch
  BY <1>1, <1>2
<1>4. PICK e \in SnapshotTable : e.table = table /\ e.ch = ch /\ Snapshots(table, ch) = e.snapshots
  BY <1>3 DEF Snapshots
<1>5. e.snapshots = {Agreement!Snapshot(Listed(table, cells), JudgedBy(ch, Records)) :
                       cells \in SetToSeqs(Labelled(table))}
  BY <1>1, <1>2, <1>4
<1>6. PICK cells \in SetToSeqs(Labelled(table)) :
        new = Agreement!Snapshot(Listed(table, cells), JudgedBy(ch, Records))
  BY <1>4, <1>5
<1>7. Len(Listed(table, cells)) \in Nat
  <2>1. Cardinality(Labelled(table)) \in Nat
    BY FS_CardinalityType
  <2>2. DOMAIN cells = 1 .. Cardinality(Labelled(table))
    BY <1>6 DEF SetToSeqs
  <2>3. DOMAIN Listed(table, cells) = 1 .. Cardinality(Labelled(table))
    BY <2>2 DEF Listed
  <2>4. QED
    BY <2>1, <2>3
<1>8. QED
  BY <1>6, <1>7 DEF Agreement!Snapshot, Counted

(* What is ranked is among the judged records and those with a length.     *)
LEMMA RankedAreKnown ==
    ASSUME NEW judge, NEW lengths, NEW weights, NEW order, NEW n
    PROVE  Ranking!Ranked(Ranking!ByRecordPriority(judge, lengths, weights), order, n)
              \subseteq DOMAIN judge \union DOMAIN lengths
<1> DEFINE low  == IF weights.low_confidence > 0
                   THEN Ranking!Accumulate(<<>>, "low_confidence",
                               Ranking!LowConfidence(judge, weights.low_confidence))
                   ELSE <<>>
           both == Ranking!Accumulate(low, "drift_outlier",
                               Ranking!DriftOutlier(lengths, weights.drift_outlier))
<1>1. DOMAIN Ranking!DriftOutlier(lengths, weights.drift_outlier) = DOMAIN lengths
  BY DEF Ranking!DriftOutlier
<1>2. DOMAIN Ranking!LowConfidence(judge, weights.low_confidence) = DOMAIN judge
  BY DEF Ranking!LowConfidence
<1>3. DOMAIN << >> = {}
  OBVIOUS
<1>4. DOMAIN low \subseteq DOMAIN judge
  <2>1. DOMAIN Ranking!Accumulate(<<>>, "low_confidence",
                   Ranking!LowConfidence(judge, weights.low_confidence)) = DOMAIN judge
    BY <1>2, <1>3 DEF Ranking!Accumulate
  <2>2. QED
    BY <1>3, <2>1
<1> HIDE DEF low
<1>5. DOMAIN both \subseteq DOMAIN judge \union DOMAIN lengths
  BY <1>1, <1>4 DEF Ranking!Accumulate
<1> HIDE DEF both
<1>6. Ranking!ByRecordPriority(judge, lengths, weights) \in {low, both}
  BY DEF Ranking!ByRecordPriority, low, both
<1>7. Ranking!Ranked(Ranking!ByRecordPriority(judge, lengths, weights), order, n)
        \subseteq DOMAIN Ranking!ByRecordPriority(judge, lengths, weights)
  BY DEF Ranking!Ranked
<1>8. QED
  BY <1>4, <1>5, <1>6, <1>7

(* A refresh chooses among its candidates.                                 *)
LEMMA ChosenAreCandidates ==
    ASSUME LabellingAssumption, NEW pool \in SUBSET Records, NEW ch \in BOOLEAN,
           NEW body \in Bodies, NEW chosen \in Rankings(pool, ch, body)
    PROVE  chosen \in Seq(pool)
<1> DEFINE Known(p, h, b) == Ranking!ByRecordPriority(JudgedBy(h, p), [rec \in p |-> Lengths[rec]],
                                                      b.weights)
           All(p, h, b) == UNION {Ranking!BestFirst(Known(p, h, b),
                                      Ranking!Ranked(Known(p, h, b), order, b.size)) :
                                     order \in SetToSeqs(DOMAIN Known(p, h, b))}
           E(p, h, b) == [pool |-> p, ch |-> h, body |-> b, rankings |-> All(p, h, b)]
<1>1. RankingTable = {E(p, h, b) : p \in SUBSET Records, h \in BOOLEAN, b \in Bodies}
  BY DEF RankingTable
<1> HIDE DEF All
<1>2. \A p, h, b : E(p, h, b).pool = p /\ E(p, h, b).ch = h /\ E(p, h, b).body = b
                  /\ E(p, h, b).rankings = All(p, h, b)
  OBVIOUS
<1> HIDE DEF E
<1>3. \E e \in RankingTable : e.pool = pool /\ e.ch = ch /\ e.body = body
  <2>1. E(pool, ch, body) \in RankingTable
    BY <1>1
  <2>2. QED
    BY <1>2, <2>1
<1>4. PICK e \in RankingTable : /\ e.pool = pool /\ e.ch = ch /\ e.body = body
                                /\ Rankings(pool, ch, body) = e.rankings
  BY <1>3 DEF Rankings
<1>5. Rankings(pool, ch, body) = All(pool, ch, body)
  BY <1>1, <1>2, <1>4
<1>6. PICK order : chosen \in Ranking!BestFirst(Known(pool, ch, body),
                                  Ranking!Ranked(Known(pool, ch, body), order, body.size))
  BY <1>5 DEF All
<1> DEFINE taken == Ranking!Ranked(Known(pool, ch, body), order, body.size)
<1>8. taken \subseteq pool
  <2>1. DOMAIN JudgedBy(ch, pool) \subseteq pool /\ DOMAIN [rec \in pool |-> Lengths[rec]] = pool
    BY DEF JudgedBy
  <2>2. QED
    BY <2>1, RankedAreKnown
<1> HIDE DEF taken
<1>7. chosen \in Ranking!SetToSeqs(taken)
  BY <1>6 DEF Ranking!BestFirst, taken
<1>9. Cardinality(taken) \in Nat
  BY <1>8, FS_Subset, FS_CardinalityType DEF LabellingAssumption
<1>10. chosen \in [1 .. Cardinality(taken) -> pool]
  <2>1. Ranking!Cardinality(taken) = Cardinality(taken)
    BY DEF Ranking!Cardinality, Cardinality
  <2>2. QED
    BY <1>7, <1>8, <2>1 DEF Ranking!SetToSeqs
<1>11. QED
  BY <1>9, <1>10, SeqDef

LEMMA UpdatedLabel ==
    ASSUME NEW loaded \in Values, NEW new \in Values, NEW now \in Values
    PROVE  Updated(loaded, new, now) \in Values
BY DEF Updated, Values

-----------------------------------------------------------------------------
(* What a step of one client does to the others                            *)

Only(c) ==
    \A d \in Clients \ {c} :
        /\ pc'[d] = pc[d] /\ req'[d] = req[d] /\ mem'[d] = mem[d]
        /\ deleted'[d] = deleted[d] /\ added'[d] = added[d]

(* Labels and the snapshot stay.  A row that was there before has its id,  *)
(* and is claimed if it was; one that was claimed or closed is there.      *)
Moves ==
    /\ lastId <= lastId'
    /\ \A rec \in Records :
          /\ item'[rec] # None /\ item'[rec].id <= lastId =>
                /\ item[rec] # None /\ item'[rec].id = item[rec].id
                /\ item[rec].claimed # None => item'[rec].claimed # None
          /\ item[rec] # None /\ (item[rec].claimed # None \/ item[rec].done) =>
                /\ item'[rec] # None /\ item'[rec].id = item[rec].id
                /\ item[rec].claimed # None => item'[rec].claimed # None
                /\ item[rec].done => item'[rec].done
    /\ \A k \in Cells : labels[k] # None => labels'[k] # None
    /\ Counted(snapshot) => Counted(snapshot')

(* No step touches the rows that another transaction has in hand.          *)
Respects(c) ==
    \A d \in Clients \ {c} : \A rec \in deleted[d] \union added[d] : item'[rec] = item[rec]

(* What a step of c has to keep of its own session, beside SessionOK.      *)
LocksWell(c) ==
    /\ deleted'[c] # {} => pc'[c] \in Holding
    /\ added'[c] # {} => pc'[c] = "inserting"
    /\ \A rec \in deleted'[c] : Wiped(item'[rec]) /\ ~Held(c, rec)
    /\ \A rec \in added'[c] : (item'[rec] = None \/ rec \in deleted'[c]) /\ ~Held(c, rec)

LEMMA QuietMoves ==
    ASSUME TablesTyped, UNCHANGED tables
    PROVE  /\ TablesTyped' /\ Moves
           /\ \A c \in Clients : Respects(c)
<1>1. UNCHANGED <<users, labels, item, lastId, snapshot>>
  BY DEF tables
<1>2. TablesTyped'
  BY <1>1 DEF TablesTyped, Labelled
<1>3. Moves
  BY <1>1 DEF Moves, TablesTyped, Counted
<1>4. QED
  BY <1>1, <1>2, <1>3 DEF Respects

(* What the others know stays true.                                        *)
LEMMA BystanderKeeps ==
    ASSUME TablesTyped, TablesTyped', SessionsTyped, Moves, NEW d \in Clients, SessionOK(d),
           pc'[d] = pc[d], req'[d] = req[d], mem'[d] = mem[d], added'[d] = added[d]
    PROVE  SessionOK(d)'
<1>1. RequestFits(d)'
  BY DEF SessionOK, RequestFits
<1>2. RowSeen(d)'
  <2>1. SUFFICES ASSUME pc[d] \in Claiming, req[d].kind = "claim"
                 PROVE  /\ mem[d].row \in Rows /\ mem[d].row.id = req[d].id
                        /\ req[d].id <= lastId'
                        /\ RowExists(req[d].record, req[d].id)' /\ mem[d].row.claimed # None =>
                              item'[req[d].record].claimed # None
    BY DEF RowSeen
  <2>2. /\ mem[d].row \in Rows /\ mem[d].row.id = req[d].id /\ req[d].id <= lastId
        /\ RowExists(req[d].record, req[d].id) /\ mem[d].row.claimed # None =>
              item[req[d].record].claimed # None
    BY <2>1 DEF SessionOK, RowSeen
  <2>3. req[d].record \in Records /\ req[d].id \in Nat
    BY <2>1, RequestType
  <2>4. PICK rec \in Records, id \in Nat : rec = req[d].record /\ id = req[d].id
    BY <2>3
  <2>5. lastId \in Nat /\ lastId' \in Nat /\ lastId <= lastId'
    BY DEF TablesTyped, Moves
  <2>6. id <= lastId'
    BY <2>2, <2>4, <2>5
  <2>7. ASSUME RowExists(rec, id)', mem[d].row.claimed # None
        PROVE  item'[rec].claimed # None
    <3>1. item'[rec] # None /\ item'[rec].id <= lastId
      BY <2>7, <2>2, <2>4 DEF RowExists
    <3>2. /\ item[rec] # None /\ item'[rec].id = item[rec].id
          /\ item[rec].claimed # None => item'[rec].claimed # None
      BY <3>1 DEF Moves
    <3>3. QED
      BY <3>2, <2>2, <2>4, <2>7 DEF RowExists
  <2>8. QED
    BY <2>2, <2>4, <2>6, <2>7
<1>3. LabelSeen(d)'
  <2>1. SUFFICES ASSUME pc[d] = "saving label", mem[d].label # None
                 PROVE  mem[d].label \in Values /\ labels'[Cell(d)] # None
    BY DEF LabelSeen, Cell
  <2>2. Cell(d) \in Cells
    BY <2>1, RequestType DEF SessionOK, RequestFits, Saving
  <2>3. QED
    BY <2>1, <2>2 DEF SessionOK, LabelSeen, Moves
<1>4. TableSeen(d)'
  BY DEF SessionOK, TableSeen, Moves, Labelled
<1>5. SnapSeen(d)'
  BY DEF SessionOK, SnapSeen, Moves
<1>6. TargetsSeen(d)' /\ ChosenSeen(d)'
  BY DEF SessionOK, TargetsSeen, ChosenSeen, Unlabelled
<1>7. QED
  BY <1>1, <1>2, <1>3, <1>4, <1>5, <1>6 DEF SessionOK

LEMMA StepKeeps ==
    ASSUME IInv, NEW c \in Clients, TablesTyped', SessionsTyped', OthersTyped',
           Only(c), Moves, Respects(c), SessionOK(c)', LocksWell(c),
           \A h \in holders' \ holders : RowExists(h[1], h[2])' /\ item'[h[1]].claimed # None
    PROVE  IInv'
<1>1. ASSUME NEW d \in Clients
      PROVE  SessionOK(d)'
  BY BystanderKeeps DEF IInv, Only
<1>2. ASSUME NEW d \in Clients
      PROVE  /\ deleted'[d] # {} => pc'[d] \in Holding
             /\ added'[d] # {} => pc'[d] = "inserting"
             /\ \A rec \in deleted'[d] : Wiped(item'[rec]) /\ ~Held(d, rec)'
             /\ \A rec \in added'[d] : (item'[rec] = None \/ rec \in deleted'[d])
                                       /\ ~Held(d, rec)'
  <2>1. CASE d = c
    BY <2>1 DEF LocksWell, Held, Only
  <2>2. CASE d # c
    <3>1. deleted'[d] = deleted[d] /\ added'[d] = added[d] /\ pc'[d] = pc[d]
      BY <2>2 DEF Only
    <3>2. /\ deleted[d] # {} => pc[d] \in Holding
          /\ added[d] # {} => pc[d] = "inserting"
          /\ \A rec \in deleted[d] : Wiped(item[rec]) /\ ~Held(d, rec)
          /\ \A rec \in added[d] : (item[rec] = None \/ rec \in deleted[d]) /\ ~Held(d, rec)
      BY DEF IInv, Locks
    <3>3. \A rec \in deleted[d] \union added[d] : item'[rec] = item[rec]
      BY <2>2 DEF Respects
    <3>4. ASSUME NEW rec \in deleted[d] \union added[d], NEW e \in Clients \ {d}
          PROVE  rec \notin deleted'[e] \union added'[e]
      <4>1. CASE e = c
        BY <4>1, <2>2 DEF LocksWell, Held
      <4>2. CASE e # c
        BY <4>2, <3>2 DEF Held, Only
      <4>3. QED
        BY <4>1, <4>2
    <3>5. QED
      BY <3>1, <3>2, <3>3, <3>4 DEF Held
  <2>3. QED
    BY <2>1, <2>2
<1>3. Locks'
  BY <1>2 DEF Locks, Wiped
<1>4. ASSUME NEW h \in holders'
      PROVE  RowExists(h[1], h[2])' /\ item'[h[1]].claimed # None
  <2>1. CASE h \in holders
    <3>1. h[1] \in Records
      BY <2>1 DEF IInv, OthersTyped
    <3>2. RowExists(h[1], h[2]) /\ item[h[1]].claimed # None
      BY <2>1 DEF IInv, ClaimedRowsStay
    <3>3. QED
      BY <3>1, <3>2 DEF Moves, RowExists
  <2>2. QED
    BY <2>1
<1>5. ClaimedRowsStay'
  BY <1>4 DEF ClaimedRowsStay
<1>6. QED
  BY <1>1, <1>3, <1>5 DEF IInv

-----------------------------------------------------------------------------
(* How a request ends, and how it goes on                                  *)

LEMMA AnswerEffect ==
    ASSUME SessionsTyped, NEW c \in Clients, NEW how \in Outcomes, Answer(c, how), UNCHANGED req
    PROVE  /\ SessionsTyped' /\ Only(c) /\ SessionOK(c)' /\ LocksWell(c)
           /\ pc'[c] = "idle" /\ outcome'[c] = how
<1>1. /\ pc' = [pc EXCEPT ![c] = "idle"] /\ outcome' = [outcome EXCEPT ![c] = how]
      /\ mem' = [mem EXCEPT ![c] = Blank] /\ deleted' = [deleted EXCEPT ![c] = {}]
      /\ added' = [added EXCEPT ![c] = {}] /\ inserting' = [inserting EXCEPT ![c] = None] /\ req' = req
  BY DEF Answer
<1>2. "idle" \in Steps /\ DOMAIN Blank = MemoryFields
  BY DEF Steps, Blank, MemoryFields
<1>3. SessionsTyped'
  BY <1>1, <1>2 DEF SessionsTyped
<1>4. Only(c)
  BY <1>1 DEF SessionsTyped, Only
<1>5. pc'[c] = "idle" /\ outcome'[c] = how /\ deleted'[c] = {} /\ added'[c] = {}
  BY <1>1 DEF SessionsTyped
<1>6. SessionOK(c)'
  BY <1>5 DEF SessionOK, RequestFits, RowSeen, LabelSeen, TableSeen, SnapSeen, TargetsSeen,
              ChosenSeen, FindingUser, Saving, Recomputing, Claiming, Refreshing
<1>7. QED
  BY <1>3, <1>4, <1>5, <1>6 DEF LocksWell

(* The handler goes on; what it remembers of now is in mem'[c].            *)
Remembers(c, m) == mem' = [mem EXCEPT ![c] = m] /\ DOMAIN m = MemoryFields

LEMMA ContinueEffect ==
    ASSUME SessionsTyped, NEW c \in Clients, NEW step \in Steps, NEW m, Goto(c, step),
           Remembers(c, m), UNCHANGED <<req, deleted, added, outcome>>,
           inserting' \in [Clients -> Users \union {None}]
    PROVE  /\ SessionsTyped' /\ Only(c)
           /\ pc'[c] = step /\ mem'[c] = m
<1>1. SessionsTyped'
  BY DEF Goto, Remembers, SessionsTyped
<1>2. Only(c)
  BY DEF Goto, Remembers, SessionsTyped, Only
<1>3. QED
  BY <1>1, <1>2 DEF Goto, Remembers, SessionsTyped

LEMMA NothingNew ==
    ASSUME SessionsTyped, NEW c \in Clients, UNCHANGED mem
    PROVE  Remembers(c, mem[c])
BY DEF SessionsTyped, Remembers

(* Before it deletes, a transaction holds nothing.                         *)
LEMMA HoldsNothing ==
    ASSUME IInv, NEW c \in Clients, pc[c] \notin Holding, deleted'[c] = deleted[c],
           added'[c] = added[c]
    PROVE  LocksWell(c)
BY DEF IInv, Locks, LocksWell, Holding

-----------------------------------------------------------------------------
(* Posting a request, and losing one                                       *)

LEMMA PostKeeps ==
    ASSUME LabellingAssumption, IInv, NEW c \in Clients, NEW r \in Requests \ {Idle}, Post(c, r)
    PROVE  IInv' /\ Moves
<1>1. /\ pc[c] = "idle" /\ r.kind \in Kinds /\ started' = started + 1
      /\ req' = [req EXCEPT ![c] = r] /\ mem' = [mem EXCEPT ![c].table = labels]
      /\ outcome' = [outcome EXCEPT ![c] = "none"]
      /\ pc' = [pc EXCEPT ![c] = FirstStep(r.kind)]
      /\ UNCHANGED <<tables, cached, deleted, added, inserting, holders, faults>>
  BY DEF Post, Goto
<1>2. TablesTyped /\ SessionsTyped /\ OthersTyped
  BY DEF IInv
<1>3. TablesTyped' /\ Moves /\ Respects(c)
  BY <1>1, <1>2, QuietMoves
<1>4. Remembers(c, [mem[c] EXCEPT !.table = labels])
  BY <1>1, <1>2 DEF SessionsTyped, Remembers, MemoryFields
<1>5. r.kind \in {"label", "recompute", "refresh", "claim", "skip"}
  BY <1>1 DEF LabellingAssumption
<1>6. \/ r.kind = "label" /\ FirstStep(r.kind) = "finding user"
      \/ r.kind = "recompute" /\ FirstStep(r.kind) = "reading labels"
      \/ r.kind = "refresh" /\ FirstStep(r.kind) = "finding targets"
      \/ r.kind \in {"claim", "skip"} /\ FirstStep(r.kind) = "loading item"
  BY <1>5 DEF FirstStep
<1>7. SessionsTyped'
  BY <1>1, <1>2, <1>4, <1>6 DEF SessionsTyped, Remembers, Steps, Outcomes
<1>8. OthersTyped'
  BY <1>1, <1>2 DEF OthersTyped
<1>9. Only(c)
  BY <1>1, <1>2 DEF Only, SessionsTyped
<1>10. pc'[c] = FirstStep(r.kind) /\ req'[c] = r /\ mem'[c].table = labels
  BY <1>1, <1>2, <1>4 DEF SessionsTyped, Remembers, MemoryFields
<1>11. SessionOK(c)'
  <2>1. RequestFits(c)'
    BY <1>1, <1>6, <1>10 DEF RequestFits, FindingUser, Saving, Recomputing, Refreshing
  <2>2. RowSeen(c)'
    BY <1>6, <1>10 DEF RowSeen, Claiming, FindingUser
  <2>3. LabelSeen(c)' /\ SnapSeen(c)' /\ TargetsSeen(c)' /\ ChosenSeen(c)'
    BY <1>6, <1>10 DEF LabelSeen, SnapSeen, TargetsSeen, ChosenSeen
  <2>4. TableSeen(c)'
    BY <1>1, <1>6, <1>10 DEF TableSeen, tables
  <2>5. QED
    BY <2>1, <2>2, <2>3, <2>4 DEF SessionOK
<1>12. LocksWell(c)
  BY <1>1, HoldsNothing DEF Holding
<1>13. QED
  BY <1>1, <1>3, <1>7, <1>8, <1>9, <1>11, <1>12, StepKeeps

(* The requests are made from Idle, field by field.                        *)
LEMMA IdleFields ==
    /\ Idle = [f \in {"kind", "record", "user", "value", "id", "body"} |-> Idle[f]]
    /\ Idle.record = None /\ Idle.user = None /\ Idle.value = None /\ Idle.id \in {0}
    /\ Idle.body = None
BY DEF Idle

LEMMA LabelPosted ==
    ASSUME NEW rec \in Records, NEW u \in Users, NEW v \in Values, NEW kind \in {"label"}
    PROVE  [Idle EXCEPT !.kind = kind, !.record = rec, !.user = u, !.value = v]
              \in Requests \ {Idle}
<1>1. [Idle EXCEPT !.kind = kind, !.record = rec, !.user = u, !.value = v] \in LabelRequests
  BY IdleFields DEF LabelRequests
<1>2. Idle \notin LabelRequests
  BY DEF Idle, LabelRequests
<1>3. QED
  BY <1>1, <1>2 DEF Requests

LEMMA OnItemPosted ==
    ASSUME NEW rec \in Records, NEW u \in Users, NEW id \in Nat, NEW kind \in {"claim", "skip"}
    PROVE  [Idle EXCEPT !.kind = kind, !.record = rec, !.user = u, !.id = id]
              \in Requests \ {Idle}
<1>1. [Idle EXCEPT !.kind = kind, !.record = rec, !.user = u, !.id = id] \in ItemRequests
  BY IdleFields DEF ItemRequests
<1>2. Idle \notin ItemRequests
  BY DEF Idle, ItemRequests
<1>3. QED
  BY <1>1, <1>2 DEF Requests

LEMMA RecomputePosted ==
    ASSUME NEW kind \in {"recompute"}
    PROVE  [Idle EXCEPT !.kind = kind] \in Requests \ {Idle}
<1>1. [Idle EXCEPT !.kind = kind] \in RecomputeRequests
  <2>1. PICK q : q = [Idle EXCEPT !.kind = kind]
    OBVIOUS
  <2>2. /\ q = [f \in {"kind", "record", "user", "value", "id", "body"} |-> q[f]]
        /\ q.kind = kind /\ q.record = None /\ q.user = None /\ q.value = None
        /\ q.id \in {0} /\ q.body = None
    BY <2>1, IdleFields
  <2>3. q \in RecomputeRequests
    BY <2>2 DEF RecomputeRequests
  <2>4. QED
    BY <2>1, <2>3
<1>2. Idle \notin RecomputeRequests
  BY DEF Idle, RecomputeRequests
<1>3. QED
  BY <1>1, <1>2 DEF Requests

LEMMA RefreshPosted ==
    ASSUME NEW kind \in {"refresh"}, NEW body \in Bodies
    PROVE  [Idle EXCEPT !.kind = kind, !.body = body] \in Requests \ {Idle}
<1>1. [Idle EXCEPT !.kind = kind, !.body = body] \in RefreshRequests
  <2>1. PICK q : q = [Idle EXCEPT !.kind = kind, !.body = body]
    OBVIOUS
  <2>2. /\ q = [f \in {"kind", "record", "user", "value", "id", "body"} |-> q[f]]
        /\ q.kind = kind /\ q.record = None /\ q.user = None /\ q.value = None
        /\ q.id \in {0} /\ q.body = body
    BY <2>1, IdleFields
  <2>3. q \in RefreshRequests
    BY <2>2 DEF RefreshRequests
  <2>4. QED
    BY <2>1, <2>3
<1>2. Idle \notin RefreshRequests
  BY DEF Idle, RefreshRequests
<1>3. QED
  BY <1>1, <1>2 DEF Requests

LEMMA PostsKeep ==
    ASSUME LabellingAssumption, IInv, NEW c \in Clients,
           PostLabel(c) \/ PostOnItem(c) \/ PostRecompute(c) \/ PostRefresh(c)
    PROVE  IInv' /\ Moves
<1>1. ASSUME NEW k \in Cells, NEW v \in Values, NEW kind \in {"label"},
             Post(c, [Idle EXCEPT !.kind = kind, !.record = k[1], !.user = k[2], !.value = v])
      PROVE  IInv' /\ Moves
  <2>1. PICK rec \in Records, u \in Users : rec = k[1] /\ u = k[2]
    BY DEF Cells
  <2>2. Post(c, [Idle EXCEPT !.kind = kind, !.record = rec, !.user = u, !.value = v])
    BY <1>1, <2>1
  <2>3. [Idle EXCEPT !.kind = kind, !.record = rec, !.user = u, !.value = v]
          \in Requests \ {Idle}
    BY LabelPosted
  <2>4. QED
    BY <2>2, <2>3, PostKeeps
<1>2. ASSUME NEW rec \in Records, NEW u \in Users, NEW kind \in {"claim", "skip"},
             item[rec] # None,
             Post(c, [Idle EXCEPT !.kind = kind, !.record = rec, !.user = u, !.id = item[rec].id])
      PROVE  IInv' /\ Moves
  <2>1. PICK id \in Nat : id = item[rec].id
    BY <1>2 DEF IInv, TablesTyped, Rows
  <2>2. Post(c, [Idle EXCEPT !.kind = kind, !.record = rec, !.user = u, !.id = id])
    BY <1>2, <2>1
  <2>3. QED
    BY <2>2, OnItemPosted, PostKeeps
<1>3. ASSUME NEW kind \in {"recompute"}, Post(c, [Idle EXCEPT !.kind = kind])
      PROVE  IInv' /\ Moves
  BY <1>3, RecomputePosted, PostKeeps
<1>4. ASSUME NEW kind \in {"refresh"}, NEW body \in Bodies,
             Post(c, [Idle EXCEPT !.kind = kind, !.body = body])
      PROVE  IInv' /\ Moves
  BY <1>4, RefreshPosted, PostKeeps
<1>5. QED
  BY <1>1, <1>2, <1>3, <1>4 DEF PostLabel, PostOnItem, PostRecompute, PostRefresh

(* A request that leaves the tables alone and is answered.                 *)
LEMMA QuietAnswerKeeps ==
    ASSUME IInv, NEW c \in Clients, NEW how \in Outcomes, Answer(c, how),
           UNCHANGED <<tables, req>>, OthersTyped', holders' = holders
    PROVE  IInv' /\ Moves
<1>1. TablesTyped' /\ Moves /\ Respects(c)
  BY QuietMoves DEF IInv
<1>2. SessionsTyped' /\ Only(c) /\ SessionOK(c)' /\ LocksWell(c)
  BY AnswerEffect DEF IInv
<1>3. QED
  BY <1>1, <1>2, StepKeeps

(* A statement that leaves the tables alone, and a handler that goes on.   *)
LEMMA QuietContinueKeeps ==
    ASSUME IInv, NEW c \in Clients, NEW step \in Steps, NEW m, Goto(c, step), Remembers(c, m),
           UNCHANGED <<tables, req, deleted, added, outcome, holders>>, OthersTyped',
           inserting' \in [Clients -> Users \union {None}],
           pc[c] \notin Holding, SessionOK(c)'
    PROVE  IInv' /\ Moves
<1>1. TablesTyped' /\ Moves /\ Respects(c)
  BY QuietMoves DEF IInv
<1>2. SessionsTyped' /\ Only(c)
  BY ContinueEffect DEF IInv
<1>3. LocksWell(c)
  BY HoldsNothing
<1>4. QED
  BY <1>1, <1>2, <1>3, StepKeeps

LEMMA AbortKeeps ==
    ASSUME IInv, NEW c \in Clients, Abort(c)
    PROVE  IInv' /\ Moves
<1>1. OthersTyped
  BY DEF IInv
<1>2. cached' \in BOOLEAN
  BY <1>1 DEF OthersTyped, Abort
<1>3. faults' \in Nat
  BY <1>1 DEF OthersTyped, Abort
<1>4. OthersTyped'
  BY <1>1, <1>2, <1>3 DEF OthersTyped, Abort
<1>5. "lost" \in Outcomes
  BY DEF Outcomes
<1>6. QED
  BY <1>4, <1>5, QuietAnswerKeeps DEF Abort

-----------------------------------------------------------------------------
(* The user of a label or a claim                                          *)

(* What is known of a request that looks for its user stays known.         *)
LEMMA AfterUserKeeps ==
    ASSUME IInv, NEW c \in Clients, pc[c] \in FindingUser, UNCHANGED <<tables, req>>,
           mem'[c] = mem[c], pc'[c] \in {AfterUser(c), "adding user"}
    PROVE  SessionOK(c)'
<1>1. \/ req[c].kind = "label" /\ pc'[c] \in {"finding label", "adding user"}
      \/ req[c].kind = "claim" /\ pc'[c] \in {"claiming", "adding user"}
  BY DEF IInv, SessionOK, RequestFits, AfterUser
<1>2. req[c].kind \in Kinds
  BY DEF IInv, SessionOK, RequestFits, FindingUser
<1>3. RequestFits(c)'
  BY <1>1, <1>2 DEF RequestFits, FindingUser, Saving, Recomputing, Refreshing
<1>4. RowSeen(c)'
  BY <1>1 DEF IInv, SessionOK, RowSeen, RowExists, Claiming, tables
<1>5. LabelSeen(c)' /\ TableSeen(c)' /\ SnapSeen(c)' /\ TargetsSeen(c)' /\ ChosenSeen(c)'
  BY <1>1 DEF LabelSeen, TableSeen, SnapSeen, TargetsSeen, ChosenSeen, Refreshing
<1>6. QED
  BY <1>3, <1>4, <1>5 DEF SessionOK

LEMMA FindUserKeeps ==
    ASSUME IInv, NEW c \in Clients, FindUser(c)
    PROVE  IInv' /\ Moves
<1>1. PICK step : /\ step = IF req[c].user \in users THEN AfterUser(c) ELSE "adding user"
                  /\ Goto(c, step)
  BY DEF FindUser, Continue
<1>2. step \in {AfterUser(c), "adding user"} /\ step \in Steps
  BY <1>1 DEF AfterUser, Steps
<1>3. pc[c] \in FindingUser /\ pc[c] \notin Holding
  BY DEF FindUser, FindingUser, Holding
<1>4. /\ UNCHANGED <<tables, req, deleted, added, outcome, holders, inserting, mem>>
      /\ OthersTyped'
  BY DEF FindUser, Continue, IInv, OthersTyped
<1>5. inserting' \in [Clients -> Users \union {None}] /\ Remembers(c, mem[c])
  BY <1>4, NothingNew DEF IInv, SessionsTyped
<1>6. pc'[c] = step
  BY <1>1 DEF Goto, IInv, SessionsTyped
<1>7. SessionOK(c)'
  BY <1>2, <1>3, <1>4, <1>6, AfterUserKeeps
<1>8. QED
  BY <1>1, <1>2, <1>3, <1>4, <1>5, <1>7, QuietContinueKeeps

LEMMA AddUserKeeps ==
    ASSUME IInv, NEW c \in Clients, AddUser(c)
    PROVE  IInv' /\ Moves
<1>1. UNCHANGED <<tables, req, holders>> /\ OthersTyped'
  BY DEF AddUser, IInv, OthersTyped
<1>2. CASE req[c].user \in users
  <2>1. Answer(c, "duplicate") /\ "duplicate" \in Outcomes
    BY <1>2 DEF AddUser, Outcomes
  <2>2. QED
    BY <1>1, <2>1, QuietAnswerKeeps
<1>3. CASE req[c].user \notin users
  <2>1. PICK step : step = AfterUser(c) /\ Goto(c, step)
    BY <1>3 DEF AddUser
  <2>2. step \in {AfterUser(c), "adding user"} /\ step \in Steps
    BY <2>1 DEF AfterUser, Steps
  <2>3. pc[c] \in FindingUser /\ pc[c] \notin Holding
    BY DEF AddUser, FindingUser, Holding
  <2>4. /\ inserting' = [inserting EXCEPT ![c] = req[c].user]
        /\ UNCHANGED <<mem, deleted, added, outcome>>
    BY <1>3 DEF AddUser
  <2>5. req[c].user \in Users
    BY <2>3, RequestType DEF IInv, SessionOK, RequestFits
  <2>6. inserting' \in [Clients -> Users \union {None}] /\ Remembers(c, mem[c])
    BY <2>4, <2>5, NothingNew DEF IInv, SessionsTyped
  <2>7. pc'[c] = step
    BY <2>1 DEF Goto, IInv, SessionsTyped
  <2>8. SessionOK(c)'
    BY <1>1, <2>2, <2>3, <2>4, <2>7, AfterUserKeeps
  <2>9. QED
    BY <1>1, <2>1, <2>2, <2>3, <2>4, <2>6, <2>8, QuietContinueKeeps
<1>4. QED
  BY <1>2, <1>3

LEMMA UsersCommit ==
    ASSUME IInv, NEW c \in Clients
    PROVE  UsersWith(c) \subseteq Users
BY DEF IInv, TablesTyped, SessionsTyped, UsersWith

-----------------------------------------------------------------------------
(* POST /v1/labels                                                         *)

LEMMA FindLabelKeeps ==
    ASSUME IInv, NEW c \in Clients, FindLabel(c)
    PROVE  IInv' /\ Moves
<1>1. /\ pc[c] = "finding label" /\ Goto(c, "saving label") /\ "saving label" \in Steps
      /\ mem' = [mem EXCEPT ![c].label = labels[Cell(c)]]
      /\ UNCHANGED <<tables, req, deleted, added, outcome, holders, inserting>>
      /\ OthersTyped'
  BY DEF FindLabel, Continue, IInv, OthersTyped, Steps
<1>2. PICK m : m = [mem[c] EXCEPT !.label = labels[Cell(c)]]
  OBVIOUS
<1>3. Remembers(c, m) /\ m.label = labels[Cell(c)]
  BY <1>1, <1>2 DEF IInv, SessionsTyped, Remembers, MemoryFields
<1>4. pc'[c] = "saving label" /\ mem'[c] = m /\ pc[c] \notin Holding
      /\ inserting' \in [Clients -> Users \union {None}]
  BY <1>1, <1>3, ContinueEffect DEF IInv, Holding, SessionsTyped
<1>5. req[c].kind = "label" /\ req[c].kind \in Kinds
  BY <1>1 DEF IInv, SessionOK, RequestFits, Saving
<1>6. Cell(c) \in Cells
  BY <1>5, RequestType DEF IInv
<1>7. RequestFits(c)'
  BY <1>1, <1>4, <1>5 DEF RequestFits, FindingUser, Saving, Recomputing, Refreshing
<1>8. LabelSeen(c)'
  BY <1>1, <1>3, <1>4, <1>6 DEF LabelSeen, Cell, IInv, TablesTyped, Tables, tables
<1>9. RowSeen(c)' /\ TableSeen(c)' /\ SnapSeen(c)' /\ TargetsSeen(c)' /\ ChosenSeen(c)'
  BY <1>4 DEF RowSeen, TableSeen, SnapSeen, TargetsSeen, ChosenSeen, Refreshing, Claiming,
              FindingUser
<1>10. SessionOK(c)'
  BY <1>7, <1>8, <1>9 DEF SessionOK
<1>11. QED
  BY <1>1, <1>3, <1>4, <1>10, QuietContinueKeeps

(* The first commit of a label; it stays.                                  *)
LEMMA SaveLabelKeeps ==
    ASSUME LabellingAssumption, IInv, NEW c \in Clients, SaveLabel(c)
    PROVE  IInv' /\ Moves
<1>1. /\ pc[c] = "saving label" /\ pc[c] \notin Holding
      /\ UNCHANGED <<item, lastId, snapshot, cached, req, holders, started, faults>>
  BY DEF SaveLabel, Holding
<1>2. req[c].kind = "label" /\ req[c].kind \in Kinds
  BY <1>1 DEF IInv, SessionOK, RequestFits, Saving
<1>3. req[c].value \in Values /\ Cell(c) \in Cells
  BY <1>2, RequestType DEF IInv
<1>4. OthersTyped'
  BY <1>1 DEF IInv, OthersTyped
<1>5. CASE mem[c].label = None /\ labels[Cell(c)] # None
  <2>1. Answer(c, "conflict") /\ "conflict" \in Outcomes /\ UNCHANGED tables
    BY <1>1, <1>5 DEF SaveLabel, Outcomes, tables
  <2>2. QED
    BY <1>1, <1>4, <2>1, QuietAnswerKeeps
<1>6. CASE ~(mem[c].label = None /\ labels[Cell(c)] # None)
  <2>1. PICK v : /\ v = IF mem[c].label = None THEN req[c].value
                        ELSE Updated(mem[c].label, req[c].value, labels[Cell(c)])
                 /\ labels' = [labels EXCEPT ![Cell(c)] = v]
    BY <1>6 DEF SaveLabel
  <2>2. /\ users' = UsersWith(c) /\ Goto(c, "finding item") /\ "finding item" \in Steps
        /\ inserting' = [inserting EXCEPT ![c] = None]
        /\ UNCHANGED <<mem, deleted, added, outcome>>
    BY <1>6 DEF SaveLabel, Steps
  <2>3. labels \in [Cells -> Values \union {None}]
    BY DEF IInv, TablesTyped, Tables
  <2>4. v \in Values
    <3>1. CASE mem[c].label = None
      BY <2>1, <3>1, <1>3
    <3>2. CASE mem[c].label # None
      <4>1. mem[c].label \in Values /\ labels[Cell(c)] # None
        BY <1>1, <3>2 DEF IInv, SessionOK, LabelSeen
      <4>2. labels[Cell(c)] \in Values
        BY <1>3, <2>3, <4>1
      <4>3. Updated(mem[c].label, req[c].value, labels[Cell(c)]) \in Values
        BY <1>3, <4>1, <4>2, UpdatedLabel
      <4>4. QED
        BY <2>1, <3>2, <4>3
    <3>3. QED
      BY <3>1, <3>2
  <2>5. labels' \in Tables
    BY <2>1, <2>3, <2>4 DEF Tables
  <2>6. \A k \in Cells : labels[k] # None => labels'[k] # None
    BY <2>1, <2>3, <2>4, NullIsNoRow
  <2>7. IsFiniteSet(Labelled(labels'))
    <3>1. IsFiniteSet(Labelled(labels) \union {Cell(c)})
      BY FS_AddElement DEF IInv, TablesTyped
    <3>2. Labelled(labels') \subseteq Labelled(labels) \union {Cell(c)}
      BY <2>1, <2>3 DEF Labelled
    <3>3. QED
      BY <3>1, <3>2, FS_Subset
  <2>8. TablesTyped'
    BY <1>1, <2>2, <2>5, <2>7, UsersCommit DEF IInv, TablesTyped
  <2>9. Moves
    <3>1. lastId' = lastId /\ lastId \in Nat /\ item' = item /\ snapshot' = snapshot
      BY <1>1 DEF IInv, TablesTyped
    <3>2. QED
      BY <3>1, <2>6 DEF Moves, Counted
  <2>10. Respects(c)
    BY <1>1 DEF Respects
  <2>11. inserting' \in [Clients -> Users \union {None}] /\ Remembers(c, mem[c])
    BY <2>2, NothingNew DEF IInv, SessionsTyped
  <2>12. SessionsTyped' /\ Only(c) /\ pc'[c] = "finding item" /\ mem'[c] = mem[c]
    BY <1>1, <2>2, <2>11, ContinueEffect DEF IInv
  <2>13. SessionOK(c)'
    <3>1. RequestFits(c)'
      BY <1>1, <1>2, <2>12 DEF RequestFits, FindingUser, Saving, Recomputing, Refreshing
    <3>2. RowSeen(c)' /\ LabelSeen(c)' /\ TableSeen(c)' /\ SnapSeen(c)' /\ TargetsSeen(c)'
          /\ ChosenSeen(c)'
      BY <2>12 DEF RowSeen, LabelSeen, TableSeen, SnapSeen, TargetsSeen, ChosenSeen, Refreshing,
                   Claiming, FindingUser
    <3>3. QED
      BY <3>1, <3>2 DEF SessionOK
  <2>14. LocksWell(c)
    BY <1>1, <2>2, HoldsNothing
  <2>15. QED
    BY <1>1, <1>4, <2>8, <2>9, <2>10, <2>12, <2>13, <2>14, StepKeeps
<1>7. QED
  BY <1>5, <1>6

LEMMA FindItemKeeps ==
    ASSUME IInv, NEW c \in Clients, FindItem(c)
    PROVE  IInv' /\ Moves
<1>1. /\ pc[c] = "finding item" /\ Goto(c, "closing item") /\ "closing item" \in Steps
      /\ mem' = [mem EXCEPT ![c].row = IF Open(item[req[c].record])
                                       THEN item[req[c].record] ELSE None]
      /\ UNCHANGED <<tables, req, deleted, added, outcome, holders, inserting>>
      /\ OthersTyped'
  BY DEF FindItem, Continue, IInv, OthersTyped, Steps
<1>2. PICK m : m = [mem[c] EXCEPT !.row = IF Open(item[req[c].record])
                                          THEN item[req[c].record] ELSE None]
  OBVIOUS
<1>3. Remembers(c, m)
  BY <1>1, <1>2 DEF IInv, SessionsTyped, Remembers, MemoryFields
<1>4. pc'[c] = "closing item" /\ mem'[c] = m /\ pc[c] \notin Holding
      /\ inserting' \in [Clients -> Users \union {None}]
  BY <1>1, <1>3, ContinueEffect DEF IInv, Holding, SessionsTyped
<1>5. req[c].kind = "label" /\ req[c].kind \in Kinds
  BY <1>1 DEF IInv, SessionOK, RequestFits, Saving
<1>6. RequestFits(c)'
  BY <1>1, <1>4, <1>5 DEF RequestFits, FindingUser, Saving, Recomputing, Refreshing
<1>7. RowSeen(c)' /\ LabelSeen(c)' /\ TableSeen(c)' /\ SnapSeen(c)' /\ TargetsSeen(c)'
      /\ ChosenSeen(c)'
  BY <1>4 DEF RowSeen, LabelSeen, TableSeen, SnapSeen, TargetsSeen, ChosenSeen, Refreshing,
              Claiming, FindingUser
<1>8. SessionOK(c)'
  BY <1>6, <1>7 DEF SessionOK
<1>9. QED
  BY <1>1, <1>3, <1>4, <1>8, QuietContinueKeeps

(* A row that no transaction has deleted is claimed or closed.             *)
LEMMA RowWritten ==
    ASSUME LabellingAssumption, IInv, NEW c \in Clients, NEW rec \in Records, NEW row \in Rows,
           item[rec] # None, item' = [item EXCEPT ![rec] = row], row.id = item[rec].id,
           item[rec].claimed # None => row.claimed # None, item[rec].done => row.done,
           ~Held(c, rec), users' \subseteq Users, UNCHANGED <<labels, lastId, snapshot>>
    PROVE  TablesTyped' /\ Moves /\ Respects(c)
<1>1. item \in [Records -> Rows \union {None}] /\ lastId \in Nat /\ row # None
  BY NullIsNoRow DEF IInv, TablesTyped
<1>2. item' \in [Records -> Rows \union {None}]
  BY <1>1
<1>3. \A r \in Records : item'[r] = IF r = rec THEN row ELSE item[r]
  BY <1>1
<1>4. \A r \in Records : item'[r] # None => item'[r].id <= lastId
  BY <1>3 DEF IInv, TablesTyped
<1>5. TablesTyped'
  BY <1>2, <1>4 DEF IInv, TablesTyped, Labelled
<1>6. Moves
  BY <1>1, <1>3 DEF Moves, Counted
<1>7. Respects(c)
  BY <1>3 DEF Respects, Held, IInv, SessionsTyped
<1>8. QED
  BY <1>5, <1>6, <1>7

LEMMA RowClosed ==
    ASSUME LabellingAssumption, IInv, NEW c \in Clients, NEW rec \in Records, item[rec] # None,
           item' = [item EXCEPT ![rec].done = TRUE],
           ~Held(c, rec), UNCHANGED <<users, labels, lastId, snapshot>>
    PROVE  TablesTyped' /\ Moves /\ Respects(c)
<1>1. item \in [Records -> Rows \union {None}] /\ item[rec] \in Rows
  BY DEF IInv, TablesTyped
<1>2. PICK row : row = [item[rec] EXCEPT !.done = TRUE]
  OBVIOUS
<1>3. item' = [item EXCEPT ![rec] = row]
  BY <1>1, <1>2
<1>4. /\ row \in Rows /\ row.id = item[rec].id /\ row.claimed = item[rec].claimed
      /\ row.done = TRUE
  BY <1>1, <1>2 DEF Rows
<1>5. users' \subseteq Users
  BY DEF IInv, TablesTyped
<1>6. QED
  BY <1>3, <1>4, <1>5, RowWritten

LEMMA CloseItemKeeps ==
    ASSUME LabellingAssumption, IInv, NEW c \in Clients, WaitsFor(c) = {}, CloseItem(c)
    PROVE  IInv' /\ Moves
<1>1. /\ pc[c] = "closing item" /\ pc[c] \notin Holding
      /\ Goto(c, "reading labels") /\ "reading labels" \in Steps
      /\ UNCHANGED <<users, labels, lastId, snapshot, cached, req, mem, holders, started,
                     faults, deleted, added, outcome, inserting>>
  BY DEF CloseItem, Continue, Steps, Holding
<1>2. req[c].kind = "label" /\ req[c].kind \in Kinds
  BY <1>1 DEF IInv, SessionOK, RequestFits, Saving
<1>3. PICK rec \in Records : rec = req[c].record
  BY <1>2, RequestType DEF IInv
<1>4. PICK row : row = mem[c].row
  OBVIOUS
<1>5. TablesTyped' /\ Moves /\ Respects(c)
  <2>1. CASE row # None /\ RowExists(rec, row.id) /\ Open(item[rec])
    <3>1. item[rec] # None /\ item' = [item EXCEPT ![rec].done = TRUE]
      BY <1>3, <1>4, <2>1 DEF CloseItem, RowExists
    <3>2. ~Held(c, rec)
      BY <1>1, <1>3, <1>4, <2>1, NobodyHolds DEF Needs
    <3>3. QED
      BY <1>1, <3>1, <3>2, RowClosed
  <2>2. CASE ~(row # None /\ RowExists(rec, row.id) /\ Open(item[rec]))
    <3>1. UNCHANGED tables
      BY <1>1, <1>3, <1>4, <2>2 DEF CloseItem, tables
    <3>2. QED
      BY <3>1, QuietMoves DEF IInv
  <2>3. QED
    BY <2>1, <2>2
<1>6. inserting' \in [Clients -> Users \union {None}] /\ Remembers(c, mem[c])
  BY <1>1, NothingNew DEF IInv, SessionsTyped
<1>7. SessionsTyped' /\ Only(c) /\ pc'[c] = "reading labels"
  BY <1>1, <1>6, ContinueEffect DEF IInv
<1>8. SessionOK(c)'
  <2>1. RequestFits(c)'
    BY <1>1, <1>2, <1>7 DEF RequestFits, FindingUser, Saving, Recomputing, Refreshing
  <2>2. RowSeen(c)' /\ LabelSeen(c)' /\ TableSeen(c)' /\ SnapSeen(c)' /\ TargetsSeen(c)'
        /\ ChosenSeen(c)'
    BY <1>7 DEF RowSeen, LabelSeen, TableSeen, SnapSeen, TargetsSeen, ChosenSeen, Refreshing,
                Claiming, FindingUser
  <2>3. QED
    BY <2>1, <2>2 DEF SessionOK
<1>9. OthersTyped'
  BY <1>1 DEF IInv, OthersTyped
<1>10. LocksWell(c)
  BY <1>1, HoldsNothing
<1>11. QED
  BY <1>1, <1>5, <1>7, <1>8, <1>9, <1>10, StepKeeps

-----------------------------------------------------------------------------
(* _recompute_agreement                                                    *)

LEMMA ReadLabelsKeeps ==
    ASSUME IInv, NEW c \in Clients, ReadLabels(c)
    PROVE  IInv' /\ Moves
<1>1. /\ pc[c] = "reading labels" /\ pc[c] \notin Holding
      /\ UNCHANGED <<tables, req, holders, started, faults>>
  BY DEF ReadLabels, Holding
<1>2. PICK ch \in JudgeClients :
        /\ cached' = (cached \/ ch)
        /\ \/ /\ mem' = [mem EXCEPT ![c].table = labels, ![c].ch = ch]
              /\ Continue(c, "reading snapshot")
           \/ Answer(c, "no judge")
  BY DEF ReadLabels, LabelTable
<1>3. ch \in BOOLEAN
  BY DEF JudgeClients
<1>4. cached' \in BOOLEAN
  BY <1>2, <1>3 DEF IInv, OthersTyped
<1>5. OthersTyped'
  BY <1>1, <1>4 DEF IInv, OthersTyped
<1>6. CASE Answer(c, "no judge")
  <2>1. "no judge" \in Outcomes
    BY DEF Outcomes
  <2>2. QED
    BY <1>1, <1>5, <1>6, <2>1, QuietAnswerKeeps
<1>7. CASE /\ mem' = [mem EXCEPT ![c].table = labels, ![c].ch = ch]
           /\ Continue(c, "reading snapshot")
  <2>1. Goto(c, "reading snapshot") /\ UNCHANGED <<deleted, added, outcome, inserting>>
        /\ "reading snapshot" \in Steps
    BY <1>7 DEF Continue, Steps
  <2>2. PICK m : m = [mem[c] EXCEPT !.table = labels, !.ch = ch]
    OBVIOUS
  <2>3. Remembers(c, m) /\ m.table = labels /\ m.ch = ch
    BY <1>7, <2>2 DEF IInv, SessionsTyped, Remembers, MemoryFields
  <2>4. pc'[c] = "reading snapshot" /\ mem'[c] = m
        /\ inserting' \in [Clients -> Users \union {None}]
    BY <1>1, <2>1, <2>3, ContinueEffect DEF IInv, SessionsTyped
  <2>5. req[c].kind \in {"label", "recompute"} /\ req[c].kind \in Kinds
    BY <1>1 DEF IInv, SessionOK, RequestFits, Recomputing
  <2>6. RequestFits(c)'
    BY <1>1, <2>4, <2>5 DEF RequestFits, FindingUser, Saving, Recomputing, Refreshing
  <2>7. TableSeen(c)'
    BY <1>3, <2>3, <2>4 DEF TableSeen, Refreshing, IInv, TablesTyped, Labelled
  <2>8. RowSeen(c)' /\ LabelSeen(c)' /\ SnapSeen(c)' /\ TargetsSeen(c)' /\ ChosenSeen(c)'
    BY <2>4 DEF RowSeen, LabelSeen, SnapSeen, TargetsSeen, ChosenSeen, Claiming, FindingUser
  <2>9. SessionOK(c)'
    BY <2>6, <2>7, <2>8 DEF SessionOK
  <2>10. QED
    BY <1>1, <1>5, <2>1, <2>3, <2>4, <2>9, QuietContinueKeeps
<1>8. QED
  BY <1>2, <1>6, <1>7

LEMMA ReadSnapshotKeeps ==
    ASSUME IInv, NEW c \in Clients, ReadSnapshot(c)
    PROVE  IInv' /\ Moves
<1>1. /\ pc[c] = "reading snapshot" /\ pc[c] \notin Holding
      /\ Goto(c, "saving snapshot") /\ "saving snapshot" \in Steps
      /\ mem' = [mem EXCEPT ![c].snap = snapshot]
      /\ UNCHANGED <<tables, req, deleted, added, outcome, holders, inserting>>
      /\ OthersTyped'
  BY DEF ReadSnapshot, Continue, IInv, OthersTyped, Steps, Holding
<1>2. PICK m : m = [mem[c] EXCEPT !.snap = snapshot]
  OBVIOUS
<1>3. Remembers(c, m) /\ m.snap = snapshot /\ m.table = mem[c].table /\ m.ch = mem[c].ch
  BY <1>1, <1>2 DEF IInv, SessionsTyped, Remembers, MemoryFields
<1>4. pc'[c] = "saving snapshot" /\ mem'[c] = m
      /\ inserting' \in [Clients -> Users \union {None}]
  BY <1>1, <1>3, ContinueEffect DEF IInv, SessionsTyped
<1>5. req[c].kind \in {"label", "recompute"} /\ req[c].kind \in Kinds
  BY <1>1 DEF IInv, SessionOK, RequestFits, Recomputing
<1>6. RequestFits(c)'
  BY <1>1, <1>4, <1>5 DEF RequestFits, FindingUser, Saving, Recomputing, Refreshing
<1>7. TableSeen(c)'
  BY <1>1, <1>3, <1>4 DEF TableSeen, Refreshing, IInv, SessionOK, Labelled
<1>8. SnapSeen(c)'
  BY <1>1, <1>3, <1>4 DEF SnapSeen, IInv, TablesTyped, tables, Counted
<1>9. RowSeen(c)' /\ LabelSeen(c)' /\ TargetsSeen(c)' /\ ChosenSeen(c)'
  BY <1>4 DEF RowSeen, LabelSeen, TargetsSeen, ChosenSeen, Claiming, FindingUser
<1>10. SessionOK(c)'
  BY <1>6, <1>7, <1>8, <1>9 DEF SessionOK
<1>11. QED
  BY <1>1, <1>3, <1>4, <1>10, QuietContinueKeeps

LEMMA SaveSnapshotKeeps ==
    ASSUME IInv, NEW c \in Clients, SaveSnapshot(c)
    PROVE  IInv' /\ Moves
<1>1. /\ pc[c] = "saving snapshot"
      /\ UNCHANGED <<users, labels, item, lastId, cached, req, holders, started, faults>>
  BY DEF SaveSnapshot
<1>2. OthersTyped' /\ "duplicate" \in Outcomes /\ "ok" \in Outcomes
  BY <1>1 DEF IInv, OthersTyped, Outcomes
<1>3. CASE Answer(c, "duplicate") /\ UNCHANGED snapshot
  BY <1>1, <1>2, <1>3, QuietAnswerKeeps DEF tables
<1>4. CASE /\ ~(mem[c].snap = None /\ snapshot # None)
           /\ \E new \in Snapshots(mem[c].table, mem[c].ch) :
                 snapshot' = IF mem[c].snap = None THEN new
                             ELSE Updated(mem[c].snap, new, snapshot)
           /\ Answer(c, "ok")
  <2>1. PICK new \in Snapshots(mem[c].table, mem[c].ch) :
          snapshot' = IF mem[c].snap = None THEN new ELSE Updated(mem[c].snap, new, snapshot)
    BY <1>4
  <2>2. /\ mem[c].ch \in BOOLEAN /\ mem[c].table \in Tables
        /\ IsFiniteSet(Labelled(mem[c].table))
        /\ mem[c].snap # None => Counted(snapshot)
    BY <1>1 DEF IInv, SessionOK, TableSeen, SnapSeen
  <2>3. Counted(new)
    BY <2>2, SnapshotCounts
  <2>4. Counted(snapshot')
    <3>1. CASE mem[c].snap = None
      BY <2>1, <2>3, <3>1
    <3>2. CASE mem[c].snap # None
      BY <2>1, <2>2, <2>3, <3>2 DEF Counted, Updated
    <3>3. QED
      BY <3>1, <3>2
  <2>5. TablesTyped'
    BY <1>1, <2>4 DEF IInv, TablesTyped, Labelled
  <2>6. Moves
    <3>1. lastId' = lastId /\ lastId \in Nat /\ item' = item /\ labels' = labels
      BY <1>1 DEF IInv, TablesTyped
    <3>2. QED
      BY <3>1, <2>4 DEF Moves
  <2>7. Respects(c)
    BY <1>1 DEF Respects
  <2>8. SessionsTyped' /\ Only(c) /\ SessionOK(c)' /\ LocksWell(c)
    BY <1>1, <1>2, <1>4, AnswerEffect DEF IInv
  <2>9. QED
    BY <1>1, <1>2, <2>5, <2>6, <2>7, <2>8, StepKeeps
<1>5. QED
  BY <1>3, <1>4 DEF SaveSnapshot

-----------------------------------------------------------------------------
(* POST /v1/queue/{id}/claim and /skip                                     *)

LEMMA LoadItemKeeps ==
    ASSUME IInv, NEW c \in Clients, LoadItem(c)
    PROVE  IInv' /\ Moves
<1>1. /\ pc[c] = "loading item" /\ pc[c] \notin Holding
      /\ UNCHANGED <<tables, req, holders>> /\ OthersTyped'
  BY DEF LoadItem, Holding, IInv, OthersTyped
<1>2. req[c].kind \in {"claim", "skip"} /\ req[c].kind \in Kinds
  BY <1>1 DEF IInv, SessionOK, RequestFits
<1>3. CASE ~RowExists(req[c].record, req[c].id)
  <2>1. Answer(c, "not found") /\ "not found" \in Outcomes
    BY <1>3 DEF LoadItem, Outcomes
  <2>2. QED
    BY <1>1, <2>1, QuietAnswerKeeps
<1>4. CASE RowExists(req[c].record, req[c].id)
  <2>1. PICK step \in Steps :
          /\ \/ req[c].kind = "claim" /\ step = "finding user"
             \/ req[c].kind = "skip" /\ step = "skipping"
          /\ Goto(c, step)
    BY <1>2, <1>4 DEF LoadItem, Continue, Steps
  <2>2. PICK m : m = [mem[c] EXCEPT !.row = item[req[c].record]]
    OBVIOUS
  <2>3. mem' = [mem EXCEPT ![c].row = item[req[c].record]]
        /\ UNCHANGED <<deleted, added, outcome, inserting>>
    BY <1>4 DEF LoadItem, Continue
  <2>4. Remembers(c, m) /\ m.row = item[req[c].record]
    BY <2>2, <2>3 DEF IInv, SessionsTyped, Remembers, MemoryFields
  <2>5. pc'[c] = step /\ mem'[c] = m /\ inserting' \in [Clients -> Users \union {None}]
    BY <1>1, <2>1, <2>3, <2>4, ContinueEffect DEF IInv, SessionsTyped
  <2>6. RequestFits(c)'
    BY <1>1, <1>2, <2>1, <2>5 DEF RequestFits, FindingUser, Saving, Recomputing, Refreshing
  <2>7. RowSeen(c)'
    <3>1. PICK rec \in Records, id \in Nat : rec = req[c].record /\ id = req[c].id
      BY <1>2, RequestType DEF IInv
    <3>2. item[rec] \in Rows /\ item[rec].id = id /\ id <= lastId /\ m.row = item[rec]
      BY <1>4, <2>4, <3>1 DEF IInv, TablesTyped, RowExists
    <3>3. UNCHANGED <<item, lastId, req>>
      BY <1>1 DEF tables
    <3>4. QED
      BY <2>5, <3>1, <3>2, <3>3 DEF RowSeen
  <2>8. LabelSeen(c)' /\ TableSeen(c)' /\ SnapSeen(c)' /\ TargetsSeen(c)' /\ ChosenSeen(c)'
    BY <2>1, <2>5 DEF LabelSeen, TableSeen, SnapSeen, TargetsSeen, ChosenSeen, Refreshing
  <2>9. SessionOK(c)'
    BY <2>6, <2>7, <2>8 DEF SessionOK
  <2>10. QED
    BY <1>1, <2>1, <2>3, <2>4, <2>5, <2>9, QuietContinueKeeps
<1>5. QED
  BY <1>3, <1>4

(* A claim holds afterwards: the row is claimed, or was before and is      *)
(* left as it is.                                                          *)
LEMMA RowClaimed ==
    ASSUME LabellingAssumption, IInv, NEW c \in Clients, NEW rec \in Records, NEW u \in Users,
           item[rec] # None, item' = [item EXCEPT ![rec].claimed = u],
           ~Held(c, rec), users' \subseteq Users, UNCHANGED <<labels, lastId, snapshot>>
    PROVE  /\ TablesTyped' /\ Moves /\ Respects(c)
           /\ item'[rec] # None /\ item'[rec].id = item[rec].id /\ item'[rec].claimed # None
<1>1. item \in [Records -> Rows \union {None}] /\ item[rec] \in Rows
  BY DEF IInv, TablesTyped
<1>2. PICK row : row = [item[rec] EXCEPT !.claimed = u]
  OBVIOUS
<1>3. item' = [item EXCEPT ![rec] = row] /\ item'[rec] = row
  BY <1>1, <1>2
<1>4. /\ row \in Rows /\ row.id = item[rec].id /\ row.claimed = u
      /\ row.done = item[rec].done
  BY <1>1, <1>2 DEF Rows
<1>5. row.claimed # None /\ row # None
  BY <1>4, NullIsNoRow
<1>6. TablesTyped' /\ Moves /\ Respects(c)
  <2>1. item' = [item EXCEPT ![rec] = row] /\ row \in Rows /\ row.id = item[rec].id
    BY <1>3, <1>4
  <2>2. item[rec].claimed # None => row.claimed # None
    BY <1>5
  <2>3. item[rec].done => row.done
    BY <1>4
  <2>4. QED
    BY <2>1, <2>2, <2>3, RowWritten
<1>7. QED
  BY <1>3, <1>4, <1>5, <1>6

LEMMA ClaimItemKeeps ==
    ASSUME LabellingAssumption, IInv, NEW c \in Clients, WaitsFor(c) = {}, ClaimItem(c)
    PROVE  IInv' /\ Moves
<1>1. /\ pc[c] = "claiming"
      /\ UNCHANGED <<labels, lastId, snapshot, cached, req, started, faults>>
  BY DEF ClaimItem
<1>2. "conflict" \in Outcomes /\ "stale" \in Outcomes /\ "ok" \in Outcomes
  BY DEF Outcomes
<1>3. req[c].kind = "claim"
  BY <1>1 DEF IInv, SessionOK, RequestFits
<1>4. PICK rec \in Records, id \in Nat, u \in Users :
        rec = req[c].record /\ id = req[c].id /\ u = req[c].user
  BY <1>3, RequestType DEF IInv
<1>5. CASE (Answer(c, "conflict") \/ Answer(c, "stale")) /\ UNCHANGED <<users, item, holders>>
  <2>1. UNCHANGED <<tables, req, holders>> /\ OthersTyped'
    BY <1>1, <1>5 DEF tables, IInv, OthersTyped
  <2>2. QED
    BY <1>2, <1>5, <2>1, QuietAnswerKeeps
<1>6. CASE /\ RowExists(rec, id) /\ Claimable(c)
           /\ item' = IF mem[c].row.claimed = u THEN item ELSE [item EXCEPT ![rec].claimed = u]
           /\ users' = UsersWith(c)
           /\ holders' = holders \union {<<rec, id, u>>}
           /\ Answer(c, "ok")
  <2>1. OthersTyped'
    BY <1>1, <1>6 DEF IInv, OthersTyped
  <2>2. /\ mem[c].row.claimed # None => item[rec].claimed # None
        /\ item[rec] # None /\ item[rec].id = id
    BY <1>1, <1>3, <1>4, <1>6 DEF IInv, SessionOK, RowSeen, Claiming, RowExists
  <2>3. users' \subseteq Users
    BY <1>6, UsersCommit
  <2>8. ~Held(c, rec)
    BY <1>1, <1>4, <1>6, NobodyHolds DEF Needs
  <2>4. /\ TablesTyped' /\ Moves /\ Respects(c)
        /\ item'[rec] # None /\ item'[rec].id = id /\ item'[rec].claimed # None
    <3>1. CASE mem[c].row.claimed = u
      <4>1. item' = item /\ item[rec].claimed # None
        BY <1>6, <2>2, <3>1, NullIsNoRow
      <4>2. TablesTyped'
        BY <1>1, <2>3, <4>1 DEF IInv, TablesTyped, Labelled
      <4>3. Moves
        <5>1. lastId' = lastId /\ lastId \in Nat /\ labels' = labels /\ snapshot' = snapshot
          BY <1>1 DEF IInv, TablesTyped
        <5>2. QED
          BY <4>1, <5>1 DEF Moves, Counted
      <4>4. QED
        BY <2>2, <4>1, <4>2, <4>3 DEF Respects
    <3>2. CASE mem[c].row.claimed # u
      BY <1>1, <1>6, <2>2, <2>3, <2>8, <3>2, RowClaimed
    <3>3. QED
      BY <3>1, <3>2
  <2>5. SessionsTyped' /\ Only(c) /\ SessionOK(c)' /\ LocksWell(c)
    BY <1>1, <1>2, <1>6, AnswerEffect DEF IInv
  <2>6. \A h \in holders' \ holders : RowExists(h[1], h[2])' /\ item'[h[1]].claimed # None
    BY <1>6, <2>4 DEF RowExists
  <2>7. QED
    BY <2>1, <2>4, <2>5, <2>6, StepKeeps
<1>7. QED
  BY <1>4, <1>5, <1>6 DEF ClaimItem

LEMMA SkipItemKeeps ==
    ASSUME LabellingAssumption, IInv, NEW c \in Clients, WaitsFor(c) = {}, SkipItem(c)
    PROVE  IInv' /\ Moves
<1>1. /\ pc[c] = "skipping"
      /\ UNCHANGED <<users, labels, lastId, snapshot, cached, req, holders, started, faults>>
  BY DEF SkipItem
<1>2. "stale" \in Outcomes /\ "ok" \in Outcomes /\ OthersTyped'
  BY <1>1 DEF Outcomes, IInv, OthersTyped
<1>3. req[c].kind = "skip"
  BY <1>1 DEF IInv, SessionOK, RequestFits
<1>4. PICK rec \in Records, id \in Nat : rec = req[c].record /\ id = req[c].id
  BY <1>3, RequestType DEF IInv
<1>5. CASE RowExists(rec, id)
  <2>1. item[rec] # None /\ item' = [item EXCEPT ![rec].done = TRUE] /\ Answer(c, "ok")
        /\ ~Held(c, rec)
    BY <1>1, <1>4, <1>5, NobodyHolds DEF SkipItem, RowExists, Needs
  <2>2. TablesTyped' /\ Moves /\ Respects(c)
    BY <1>1, <2>1, RowClosed
  <2>3. SessionsTyped' /\ Only(c) /\ SessionOK(c)' /\ LocksWell(c)
    BY <1>1, <1>2, <2>1, AnswerEffect DEF IInv
  <2>4. QED
    BY <1>1, <1>2, <2>2, <2>3, StepKeeps
<1>6. CASE ~RowExists(rec, id)
  <2>1. Answer(c, "stale") /\ UNCHANGED <<tables, req, holders>>
    BY <1>1, <1>4, <1>6 DEF SkipItem, tables
  <2>2. QED
    BY <1>2, <2>1, QuietAnswerKeeps
<1>7. QED
  BY <1>5, <1>6

-----------------------------------------------------------------------------
(* POST /v1/queue/refresh                                                  *)

LEMMA FindTargetsKeeps ==
    ASSUME LabellingAssumption, IInv, NEW c \in Clients, FindTargets(c)
    PROVE  IInv' /\ Moves
<1>1. /\ pc[c] = "finding targets" /\ pc[c] \notin Holding
      /\ Goto(c, "deleting") /\ "deleting" \in Steps
      /\ UNCHANGED <<tables, req, deleted, added, outcome, holders, inserting>>
      /\ OthersTyped'
  BY DEF FindTargets, Continue, IInv, OthersTyped, Steps, Holding
<1>2. PICK open, targets :
        /\ open = {<<rec, item[rec].id>> : rec \in {rec \in Records : Wiped(item[rec])}}
        /\ targets \in SetToSeqs(open)
        /\ mem' = [mem EXCEPT ![c].targets = targets]
  BY DEF FindTargets
<1>3. PICK m : m = [mem[c] EXCEPT !.targets = targets]
  OBVIOUS
<1>4. mem' = [mem EXCEPT ![c].targets = targets]
  BY <1>2
<1>5. Remembers(c, m) /\ m.targets = targets /\ m.table = mem[c].table
  BY <1>3, <1>4 DEF IInv, SessionsTyped, Remembers, MemoryFields
<1>6. pc'[c] = "deleting" /\ mem'[c] = m /\ inserting' \in [Clients -> Users \union {None}]
  BY <1>1, <1>5, ContinueEffect DEF IInv, SessionsTyped
<1>7. targets \in Seq(Records \X Nat)
  <2>1. lastId \in Nat /\ \A rec \in Records : Wiped(item[rec]) => item[rec].id \in 0 .. lastId
    BY DEF Wiped, IInv, TablesTyped, Rows
  <2>2. open \subseteq Records \X (0 .. lastId)
    BY <1>2, <2>1
  <2>3. IsFiniteSet(Records \X (0 .. lastId))
    <3>1. IsFiniteSet(0 .. lastId)
      BY <2>1, FS_Interval
    <3>2. QED
      BY <3>1, FS_Product DEF LabellingAssumption
  <2>4. Cardinality(open) \in Nat
    BY <2>2, <2>3, FS_Subset, FS_CardinalityType
  <2>5. targets \in [1 .. Cardinality(open) -> open]
    BY <1>2 DEF SetToSeqs
  <2>6. targets \in [1 .. Cardinality(open) -> Records \X Nat]
    BY <2>2, <2>5
  <2>7. QED
    BY <2>4, <2>6, SeqDef
<1>8. req[c].kind = "refresh" /\ req[c].kind \in Kinds
  BY <1>1 DEF IInv, SessionOK, RequestFits, Refreshing
<1>9. RequestFits(c)'
  BY <1>1, <1>6, <1>8 DEF RequestFits, FindingUser, Saving, Recomputing, Refreshing
<1>10. TableSeen(c)'
  BY <1>1, <1>5, <1>6 DEF TableSeen, Refreshing, IInv, SessionOK, tables
<1>11. TargetsSeen(c)'
  BY <1>5, <1>6, <1>7 DEF TargetsSeen
<1>12. RowSeen(c)' /\ LabelSeen(c)' /\ SnapSeen(c)' /\ ChosenSeen(c)'
  BY <1>6 DEF RowSeen, LabelSeen, SnapSeen, ChosenSeen, Claiming, FindingUser
<1>13. SessionOK(c)'
  BY <1>9, <1>10, <1>11, <1>12 DEF SessionOK
<1>14. QED
  BY <1>1, <1>5, <1>6, <1>13, QuietContinueKeeps

(* A refresh deletes a row that is open, nobody's and in no other refresh's *)
(* hands at the moment it has waited for it.                               *)
LEMMA DeleteRowKeeps ==
    ASSUME IInv, NEW c \in Clients, WaitsFor(c) = {}, DeleteRow(c)
    PROVE  IInv' /\ Moves
<1>1. /\ pc[c] = "deleting" /\ mem[c].targets # <<>>
      /\ mem' = [mem EXCEPT ![c].targets = Tail(mem[c].targets)]
      /\ UNCHANGED <<tables, cached, pc, req, added, inserting, outcome, holders, started, faults>>
  BY DEF DeleteRow
<1>2. mem[c].targets \in Seq(Records \X Nat)
  BY <1>1 DEF IInv, SessionOK, TargetsSeen
<1>3. PICK t \in Records \X Nat :
        /\ t = Head(mem[c].targets)
        /\ deleted' = IF StillWiped(t) THEN [deleted EXCEPT ![c] = @ \union {t[1]}] ELSE deleted
  BY <1>1, <1>2, HeadTailProperties DEF DeleteRow
<1>4. PICK rec \in Records : rec = t[1]
  OBVIOUS
<1>5. PICK new : /\ new = IF StillWiped(t) THEN {rec} ELSE {}
                 /\ deleted' = [deleted EXCEPT ![c] = deleted[c] \union new]
  <2>1. CASE StillWiped(t)
    BY <1>3, <1>4, <2>1
  <2>2. CASE ~StillWiped(t)
    <3>1. deleted' = deleted /\ deleted = [d \in Clients |-> deleted[d]]
      BY <1>3, <2>2 DEF IInv, SessionsTyped
    <3>2. deleted[c] \union {} = deleted[c]
      OBVIOUS
    <3>3. deleted' = [deleted EXCEPT ![c] = deleted[c] \union {}]
      BY <3>1, <3>2
    <3>4. QED
      BY <2>2, <3>3
  <2>3. QED
    BY <2>1, <2>2
<1>6. ASSUME NEW r \in new
      PROVE  Wiped(item[r]) /\ ~Held(c, r)
  <2>1. r = rec /\ RowExists(rec, t[2]) /\ Wiped(item[rec])
    BY <1>4, <1>5 DEF StillWiped
  <2>2. rec \in Needs(c)
    BY <1>1, <1>3, <1>4, <2>1 DEF Needs
  <2>3. QED
    BY <2>1, <2>2, NobodyHolds
<1>7. TablesTyped' /\ Moves /\ Respects(c)
  BY <1>1, QuietMoves DEF IInv
<1>8. OthersTyped'
  BY <1>1 DEF IInv, OthersTyped
<1>9. PICK m : m = [mem[c] EXCEPT !.targets = Tail(mem[c].targets)]
  OBVIOUS
<1>10. /\ Remembers(c, m) /\ mem'[c] = m /\ m.table = mem[c].table
       /\ m.targets \in Seq(Records \X Nat)
  BY <1>1, <1>2, <1>9, HeadTailProperties DEF IInv, SessionsTyped, Remembers, MemoryFields
<1>11. deleted' \in [Clients -> SUBSET Records] /\ deleted'[c] = deleted[c] \union new
  BY <1>5 DEF IInv, SessionsTyped
<1>12. SessionsTyped' /\ Only(c)
  BY <1>1, <1>5, <1>10, <1>11 DEF IInv, SessionsTyped, Only, Remembers
<1>13. LocksWell(c)
  BY <1>1, <1>6, <1>11 DEF IInv, Locks, LocksWell, Holding, tables
<1>14. SessionOK(c)'
  <2>1. RequestFits(c)'
    BY <1>1 DEF IInv, SessionOK, RequestFits
  <2>2. TableSeen(c)'
    BY <1>1, <1>10 DEF TableSeen, Refreshing, IInv, SessionOK, tables
  <2>3. RowSeen(c)' /\ LabelSeen(c)' /\ SnapSeen(c)' /\ TargetsSeen(c)' /\ ChosenSeen(c)'
    BY <1>1, <1>10 DEF RowSeen, LabelSeen, SnapSeen, TargetsSeen, ChosenSeen, Claiming,
                       FindingUser
  <2>4. QED
    BY <2>1, <2>2, <2>3 DEF SessionOK
<1>15. QED
  BY <1>1, <1>7, <1>8, <1>12, <1>13, <1>14, StepKeeps

(* The commit of a refresh: its deletions, and new rows where there is no  *)
(* row, or only one that it has deleted itself.                            *)
LEMMA QueueCommitted ==
    ASSUME LabellingAssumption, IInv, NEW c \in Clients, item' = QueueWith(c),
           lastId' = lastId + 1 \/ (lastId' = lastId /\ added[c] = {}),
           UNCHANGED <<users, labels, snapshot>>
    PROVE  TablesTyped' /\ Moves /\ Respects(c)
<1>1. /\ item \in [Records -> Rows \union {None}] /\ lastId \in Nat /\ lastId' \in Nat
      /\ lastId <= lastId'
      /\ \A rec \in Records : item[rec] # None => item[rec].id \in Nat /\ item[rec].id <= lastId
  BY DEF IInv, TablesTyped, Rows
<1>2. PICK new : /\ new = [id |-> lastId + 1, claimed |-> None, done |-> FALSE]
                 /\ \A rec \in Records : item'[rec] = IF rec \in added[c] THEN new
                                                      ELSE IF rec \in deleted[c] THEN None
                                                      ELSE item[rec]
                 /\ item' = [rec \in Records |-> item'[rec]]
  BY DEF QueueWith
<1>3. new \in Rows /\ new # None /\ new.id = lastId + 1
  <2>1. new \in Rows
    BY <1>1, <1>2 DEF Rows
  <2>2. QED
    BY <1>2, <2>1, NullIsNoRow
<1>4. /\ \A rec \in deleted[c] : Wiped(item[rec]) /\ ~Held(c, rec)
      /\ \A rec \in added[c] : (item[rec] = None \/ rec \in deleted[c]) /\ ~Held(c, rec)
  BY DEF IInv, Locks
<1>5. TablesTyped'
  <2>1. item' \in [Records -> Rows \union {None}]
    BY <1>1, <1>2, <1>3
  <2>2. ASSUME NEW rec \in Records, item'[rec] # None
        PROVE  item'[rec].id <= lastId'
    <3>1. CASE rec \in added[c]
      <4>1. lastId' = lastId + 1 /\ item'[rec] = new
        BY <1>2, <3>1
      <4>2. QED
        BY <1>1, <1>3, <4>1
    <3>2. CASE rec \notin added[c]
      <4>1. item'[rec] = item[rec] /\ item[rec] # None
        BY <1>2, <2>2, <3>2
      <4>2. QED
        BY <1>1, <4>1
    <3>3. QED
      BY <3>1, <3>2
  <2>3. QED
    BY <1>1, <2>1, <2>2 DEF IInv, TablesTyped, Labelled
<1>6. ASSUME NEW rec \in Records, item'[rec] # None, item'[rec].id <= lastId
      PROVE  item[rec] # None /\ item'[rec] = item[rec]
  <2>1. rec \notin added[c]
    BY <1>1, <1>2, <1>3, <1>6
  <2>2. QED
    BY <1>2, <1>6, <2>1
<1>7. ASSUME NEW rec \in Records, item[rec] # None, item[rec].claimed # None \/ item[rec].done
      PROVE  item'[rec] = item[rec]
  <2>1. rec \notin deleted[c]
    BY <1>4, <1>7 DEF Wiped
  <2>2. rec \notin added[c]
    BY <1>4, <1>7, <2>1
  <2>3. QED
    BY <1>2, <2>1, <2>2
<1>8. Moves
  BY <1>1, <1>6, <1>7 DEF Moves, Counted
<1>9. Respects(c)
  <2>1. SUFFICES ASSUME NEW d \in Clients \ {c}, NEW rec \in deleted[d] \union added[d]
                 PROVE  item'[rec] = item[rec]
    BY DEF Respects
  <2>2. rec \in Records /\ Held(c, rec)
    BY DEF Held, IInv, SessionsTyped
  <2>3. QED
    BY <1>2, <1>4, <2>2
<1>10. QED
  BY <1>5, <1>8, <1>9

LEMMA ChooseCandidatesKeeps ==
    ASSUME LabellingAssumption, IInv, NEW c \in Clients, ChooseCandidates(c)
    PROVE  IInv' /\ Moves
<1>1. /\ pc[c] = "deleting" /\ added[c] = {}
      /\ UNCHANGED <<users, labels, lastId, snapshot, req, holders, started, faults>>
  BY DEF ChooseCandidates, IInv, Locks
<1>2. "ok" \in Outcomes /\ "no judge" \in Outcomes
  BY DEF Outcomes
<1>3. CASE item' = QueueWith(c) /\ Answer(c, "ok") /\ UNCHANGED cached
  <2>1. TablesTyped' /\ Moves /\ Respects(c)
    BY <1>1, <1>3, QueueCommitted
  <2>2. SessionsTyped' /\ Only(c) /\ SessionOK(c)' /\ LocksWell(c)
    BY <1>1, <1>2, <1>3, AnswerEffect DEF IInv
  <2>3. OthersTyped'
    BY <1>1, <1>3 DEF IInv, OthersTyped
  <2>4. QED
    BY <1>1, <2>1, <2>2, <2>3, StepKeeps
<1>4. ASSUME NEW ch \in JudgeClients, UNCHANGED item, cached' = (cached \/ ch),
             \/ /\ \E chosen \in Rankings(Candidates, ch, req[c].body) :
                      mem' = [mem EXCEPT ![c].chosen = chosen]
                /\ Continue(c, "inserting")
             \/ Answer(c, "no judge")
      PROVE  IInv' /\ Moves
  <2>1. ch \in BOOLEAN
    BY DEF JudgeClients
  <2>2. cached' \in BOOLEAN
    BY <1>4, <2>1 DEF IInv, OthersTyped
  <2>3. OthersTyped' /\ UNCHANGED tables
    BY <1>1, <1>4, <2>2 DEF IInv, OthersTyped, tables
  <2>4. CASE Answer(c, "no judge")
    BY <1>1, <1>2, <2>3, <2>4, QuietAnswerKeeps
  <2>5. ASSUME NEW chosen \in Rankings(Candidates, ch, req[c].body),
               mem' = [mem EXCEPT ![c].chosen = chosen], Continue(c, "inserting")
        PROVE  IInv' /\ Moves
    <3>1. /\ Goto(c, "inserting") /\ "inserting" \in Steps
          /\ UNCHANGED <<outcome, deleted, added, inserting>>
      BY <2>5 DEF Continue, Steps
    <3>2. PICK m : m = [mem[c] EXCEPT !.chosen = chosen]
      OBVIOUS
    <3>3. Remembers(c, m) /\ m.chosen = chosen /\ m.table = mem[c].table
      BY <2>5, <3>2 DEF IInv, SessionsTyped, Remembers, MemoryFields
    <3>4. inserting' \in [Clients -> Users \union {None}]
      BY <3>1 DEF IInv, SessionsTyped
    <3>5. SessionsTyped' /\ Only(c) /\ pc'[c] = "inserting" /\ mem'[c] = m
      BY <1>1, <3>1, <3>3, <3>4, ContinueEffect DEF IInv
    <3>6. req[c].kind = "refresh" /\ req[c].kind \in Kinds /\ req[c].body \in Bodies
      BY <1>1, RequestType DEF IInv, SessionOK, RequestFits, Refreshing
    <3>7. RequestFits(c)'
      BY <1>1, <3>5, <3>6 DEF RequestFits, FindingUser, Saving, Recomputing, Refreshing
    <3>8. \A k \in Cells : m.table[k] # None => labels[k] # None
      BY <1>1, <3>3 DEF IInv, SessionOK, TableSeen, Refreshing
    <3>9. TableSeen(c)'
      BY <1>1, <3>5, <3>8 DEF TableSeen
    <3>10. Candidates \subseteq Unlabelled(c)'
      <4>1. SUFFICES ASSUME NEW rec \in Candidates, NEW u \in Users
                     PROVE  m.table[<<rec, u>>] = None
        BY <3>5 DEF Unlabelled, Candidates
      <4>2. labels[<<rec, u>>] = None /\ <<rec, u>> \in Cells
        BY DEF Candidates, Cells
      <4>3. QED
        BY <3>8, <4>2
    <3>11. ChosenSeen(c)'
      <4>1. Candidates \in SUBSET Records
        BY DEF Candidates
      <4>2. chosen \in Seq(Candidates)
        BY <2>1, <3>6, <4>1, ChosenAreCandidates
      <4>3. chosen \in Seq(Unlabelled(c)')
        BY <3>10, <4>2, SeqMonotonic
      <4>4. QED
        BY <1>1, <3>1, <3>3, <3>5, <4>3 DEF ChosenSeen
    <3>12. RowSeen(c)' /\ LabelSeen(c)' /\ SnapSeen(c)' /\ TargetsSeen(c)'
      BY <3>5 DEF RowSeen, LabelSeen, SnapSeen, TargetsSeen, Claiming, FindingUser
    <3>13. SessionOK(c)'
      BY <3>7, <3>9, <3>11, <3>12 DEF SessionOK
    <3>14. TablesTyped' /\ Moves /\ Respects(c)
      BY <2>3, QuietMoves DEF IInv
    <3>15. LocksWell(c)
      BY <1>4, <3>1, <3>5 DEF LocksWell, Holding, IInv, Locks
    <3>16. QED
      BY <1>1, <2>3, <3>5, <3>13, <3>14, <3>15, StepKeeps
  <2>6. QED
    BY <1>4, <2>4, <2>5
<1>5. QED
  BY <1>3, <1>4 DEF ChooseCandidates

(* A refresh inserts where there is no row, or one it has deleted itself,  *)
(* and nobody else is inserting.                                           *)
LEMMA InsertRowKeeps ==
    ASSUME IInv, NEW c \in Clients, WaitsFor(c) = {}, InsertRow(c)
    PROVE  IInv' /\ Moves
<1>1. /\ pc[c] = "inserting" /\ mem[c].chosen # <<>>
      /\ UNCHANGED <<tables, cached, req, holders, started, faults>>
  BY DEF InsertRow
<1>2. /\ mem[c].chosen \in Seq(Unlabelled(c)) /\ added[c] \subseteq Unlabelled(c)
      /\ Unlabelled(c) \subseteq Records
  BY <1>1 DEF IInv, SessionOK, ChosenSeen, Unlabelled
<1>3. PICK rec \in Unlabelled(c) : rec = Head(mem[c].chosen)
  BY <1>1, <1>2, HeadTailProperties
<1>4. OthersTyped' /\ "duplicate" \in Outcomes
  BY <1>1 DEF IInv, OthersTyped, Outcomes
<1>5. CASE item[rec] # None /\ rec \notin deleted[c]
  <2>1. Answer(c, "duplicate")
    BY <1>3, <1>5 DEF InsertRow
  <2>2. QED
    BY <1>1, <1>4, <2>1, QuietAnswerKeeps
<1>6. CASE item[rec] = None \/ rec \in deleted[c]
  <2>1. /\ added' = [added EXCEPT ![c] = added[c] \union {rec}]
        /\ mem' = [mem EXCEPT ![c].chosen = Tail(mem[c].chosen)]
        /\ UNCHANGED <<pc, deleted, inserting, outcome>>
    BY <1>3, <1>6 DEF InsertRow
  <2>2. ~Held(c, rec)
    <3>1. rec \in Needs(c)
      BY <1>1, <1>2, <1>3 DEF Needs
    <3>2. QED
      BY <3>1, NobodyHolds
  <2>3. TablesTyped' /\ Moves /\ Respects(c)
    BY <1>1, QuietMoves DEF IInv
  <2>4. PICK m : m = [mem[c] EXCEPT !.chosen = Tail(mem[c].chosen)]
    OBVIOUS
  <2>5. /\ Remembers(c, m) /\ mem'[c] = m /\ m.table = mem[c].table
        /\ m.chosen \in Seq(Unlabelled(c))
    BY <1>1, <1>2, <2>1, <2>4, HeadTailProperties
       DEF IInv, SessionsTyped, Remembers, MemoryFields
  <2>6. added' \in [Clients -> SUBSET Records] /\ added'[c] = added[c] \union {rec}
    BY <1>2, <2>1 DEF IInv, SessionsTyped
  <2>7. SessionsTyped' /\ Only(c)
    BY <1>1, <2>1, <2>5, <2>6 DEF IInv, SessionsTyped, Only, Remembers
  <2>8. LocksWell(c)
    BY <1>1, <1>6, <2>1, <2>2, <2>6 DEF IInv, Locks, LocksWell, tables
  <2>9. SessionOK(c)'
    <3>1. RequestFits(c)'
      BY <1>1, <2>1 DEF IInv, SessionOK, RequestFits
    <3>2. TableSeen(c)'
      BY <1>1, <2>1, <2>5 DEF TableSeen, Refreshing, IInv, SessionOK, tables
    <3>3. Unlabelled(c)' = Unlabelled(c)
      BY <2>5 DEF Unlabelled
    <3>4. ChosenSeen(c)'
      BY <1>2, <2>5, <2>6, <3>3 DEF ChosenSeen
    <3>5. RowSeen(c)' /\ LabelSeen(c)' /\ SnapSeen(c)' /\ TargetsSeen(c)'
      BY <1>1, <2>1 DEF RowSeen, LabelSeen, SnapSeen, TargetsSeen, Claiming, FindingUser
    <3>6. QED
      BY <3>1, <3>2, <3>4, <3>5 DEF SessionOK
  <2>10. QED
    BY <1>1, <1>4, <2>3, <2>7, <2>8, <2>9, StepKeeps
<1>7. QED
  BY <1>5, <1>6

LEMMA CommitRefreshKeeps ==
    ASSUME LabellingAssumption, IInv, NEW c \in Clients, CommitRefresh(c)
    PROVE  IInv' /\ Moves
<1>1. /\ item' = QueueWith(c) /\ lastId' = lastId + 1 /\ Answer(c, "ok")
      /\ UNCHANGED <<users, labels, snapshot, cached, req, holders, started, faults>>
  BY DEF CommitRefresh
<1>2. "ok" \in Outcomes /\ OthersTyped'
  BY <1>1 DEF Outcomes, IInv, OthersTyped
<1>3. TablesTyped' /\ Moves /\ Respects(c)
  BY <1>1, QueueCommitted
<1>4. SessionsTyped' /\ Only(c) /\ SessionOK(c)' /\ LocksWell(c)
  BY <1>1, <1>2, AnswerEffect DEF IInv
<1>5. QED
  BY <1>1, <1>2, <1>3, <1>4, StepKeeps

LEMMA BreakDeadlockKeeps ==
    ASSUME IInv, NEW c \in Clients, BreakDeadlock(c)
    PROVE  IInv' /\ Moves
<1>1. /\ Answer(c, "deadlock") /\ "deadlock" \in Outcomes
      /\ UNCHANGED <<tables, cached, req, holders, started, faults>>
  BY DEF BreakDeadlock, Outcomes
<1>2. OthersTyped'
  BY <1>1 DEF IInv, OthersTyped
<1>3. QED
  BY <1>1, <1>2, QuietAnswerKeeps

-----------------------------------------------------------------------------
(* The invariant holds                                                     *)

LEMMA InitInv ==
    ASSUME LabellingAssumption, Init
    PROVE  IInv
<1>1. TablesTyped
  <2>1. labels \in Tables /\ Labelled(labels) = {}
    BY DEF Init, Tables, Labelled
  <2>2. IsFiniteSet(Labelled(labels))
    BY <2>1, FS_EmptySet
  <2>3. PICK row : row = [id |-> 1, claimed |-> None, done |-> FALSE]
    OBVIOUS
  <2>4. row \in Rows /\ row.id <= 1
    BY <2>3 DEF Rows
  <2>5. PICK recs \in Queued : item = [rec \in Records |-> IF rec \in recs THEN row ELSE None]
    BY <2>3 DEF Init
  <2>6. lastId = 1 /\ users = {} /\ snapshot = None
    BY DEF Init
  <2>7. QED
    BY <2>1, <2>2, <2>4, <2>5, <2>6 DEF TablesTyped
<1>2. SessionsTyped
  BY DEF Init, SessionsTyped, Steps, Outcomes, Requests, MemoryFields, Blank
<1>3. OthersTyped
  BY DEF Init, OthersTyped
<1>4. ASSUME NEW c \in Clients
      PROVE  SessionOK(c)
  <2>1. pc[c] = "idle"
    BY DEF Init
  <2>2. QED
    BY <2>1 DEF SessionOK, RequestFits, RowSeen, LabelSeen, TableSeen, SnapSeen, TargetsSeen,
                ChosenSeen, FindingUser, Saving, Recomputing, Claiming, Refreshing
<1>5. Locks /\ ClaimedRowsStay
  BY DEF Init, Locks, ClaimedRowsStay
<1>6. QED
  BY <1>1, <1>2, <1>3, <1>4, <1>5 DEF IInv

LEMMA StepInv ==
    ASSUME LabellingAssumption, IInv, [Next]_vars
    PROVE  IInv' /\ Moves
<1>1. CASE UNCHANGED vars
  <2>1. /\ UNCHANGED <<users, labels, item, lastId, snapshot, cached>>
        /\ UNCHANGED <<pc, req, mem, deleted, added, inserting, outcome>>
        /\ UNCHANGED <<holders, started, faults>> /\ UNCHANGED tables
    BY <1>1 DEF vars, tables
  <2>2. TablesTyped' /\ Moves
    BY <2>1, QuietMoves DEF IInv
  <2>3. SessionsTyped' /\ OthersTyped'
    BY <2>1 DEF IInv, SessionsTyped, OthersTyped
  <2>4. \A c \in Clients : SessionOK(c)'
    BY <2>1, <2>2, BystanderKeeps DEF IInv
  <2>5. Locks' /\ ClaimedRowsStay'
    BY <2>1 DEF IInv, Locks, Held, Wiped, ClaimedRowsStay, RowExists
  <2>6. QED
    BY <2>2, <2>3, <2>4, <2>5 DEF IInv
<1>2. ASSUME NEW c \in Clients, PostLabel(c) \/ PostOnItem(c) \/ PostRecompute(c) \/ PostRefresh(c)
      PROVE  IInv' /\ Moves
  BY <1>2, PostsKeep
<1>3. ASSUME NEW c \in Clients, WaitsFor(c) = {}, LabelStep(c)
      PROVE  IInv' /\ Moves
  BY <1>3, FindUserKeeps, AddUserKeeps, FindLabelKeeps, SaveLabelKeeps, FindItemKeeps,
     CloseItemKeeps DEF LabelStep
<1>4. ASSUME NEW c \in Clients, AgreementStep(c)
      PROVE  IInv' /\ Moves
  BY <1>4, ReadLabelsKeeps, ReadSnapshotKeeps, SaveSnapshotKeeps DEF AgreementStep
<1>5. ASSUME NEW c \in Clients, WaitsFor(c) = {}, ItemStep(c)
      PROVE  IInv' /\ Moves
  BY <1>5, LoadItemKeeps, ClaimItemKeeps, SkipItemKeeps DEF ItemStep
<1>6. ASSUME NEW c \in Clients, WaitsFor(c) = {}, RefreshStep(c)
      PROVE  IInv' /\ Moves
  BY <1>6, FindTargetsKeeps, DeleteRowKeeps, ChooseCandidatesKeeps, InsertRowKeeps,
     CommitRefreshKeeps DEF RefreshStep
<1>7. ASSUME NEW c \in Clients, Abort(c)
      PROVE  IInv' /\ Moves
  BY <1>7, AbortKeeps
<1>8. ASSUME NEW c \in Clients, BreakDeadlock(c)
      PROVE  IInv' /\ Moves
  BY <1>8, BreakDeadlockKeeps
<1>9. QED
  BY <1>1, <1>2, <1>3, <1>4, <1>5, <1>6, <1>7, <1>8 DEF Next, Statement

LEMMA InvHolds ==
    ASSUME LabellingAssumption
    PROVE  Spec => []IInv
<1>1. Init => IInv
  BY InitInv
<1>2. IInv /\ [Next]_vars => IInv'
  BY StepInv
<1>3. QED
  BY <1>1, <1>2, PTL DEF Spec

(* What the tables and the sessions hold (TypeOK).                         *)
THEOREM TypeCorrect ==
    ASSUME LabellingAssumption
    PROVE  Spec => []TypeOK
<1>1. IInv => TypeOK
  <2>1. SUFFICES ASSUME IInv PROVE TypeOK
    OBVIOUS
  <2>2. /\ users \subseteq Users /\ labels \in Tables
        /\ item \in [Records -> Rows \union {None}] /\ lastId \in Nat
        /\ snapshot # None => Counted(snapshot)
    BY <2>1 DEF IInv, TablesTyped
  <2>3. /\ pc \in [Clients -> Steps] /\ deleted \in [Clients -> SUBSET Records]
        /\ added \in [Clients -> SUBSET Records] /\ inserting \in [Clients -> Users \union {None}]
        /\ outcome \in [Clients -> Outcomes]
    BY <2>1 DEF IInv, SessionsTyped
  <2>4. cached \in BOOLEAN /\ started \in Nat /\ faults \in Nat
    BY <2>1 DEF IInv, OthersTyped
  <2>5. \A c \in Clients : pc[c] # "idle" => req[c].kind \in Kinds
    BY <2>1 DEF IInv, SessionOK, RequestFits
  <2>6. snapshot # None => snapshot.n_labels \in Nat
    BY <2>2 DEF Counted
  <2>7. QED
    BY <2>2, <2>3, <2>4, <2>5, <2>6 DEF TypeOK
<1>2. QED
  BY <1>1, InvHolds, PTL

(* What a labeller was told is theirs stays in the queue, claimed, however *)
(* many refreshes pick, wait for and delete rows (ClaimedRowsStay).        *)
THEOREM ClaimsAreKept ==
    ASSUME LabellingAssumption
    PROVE  Spec => []ClaimedRowsStay
<1>1. IInv => ClaimedRowsStay
  BY DEF IInv
<1>2. QED
  BY <1>1, InvHolds, PTL

(* No step removes or replaces a claimed or closed row, or opens a closed  *)
(* one again: only open rows that nobody has claimed go.                   *)
THEOREM RefreshesRemoveOpenRows ==
    ASSUME LabellingAssumption
    PROVE  Spec => OnlyOpenRowsGo
<1> DEFINE Stays ==
      \A rec \in Records :
           item[rec] # None /\ (item[rec].claimed # None \/ item[rec].done) =>
               /\ item'[rec] # None /\ item'[rec].id = item[rec].id
               /\ item[rec].done => item'[rec].done
<1>1. ASSUME IInv, [Next]_vars
      PROVE  Stays
  BY <1>1, StepInv DEF Moves
<1>2. Spec => [][Stays]_vars
  <2>1. IInv /\ [Next]_vars => [Stays]_vars
    BY <1>1
  <2>2. QED
    BY <2>1, InvHolds, PTL DEF Spec
<1>3. QED
  BY <1>2 DEF OnlyOpenRowsGo

-----------------------------------------------------------------------------
(* What a refresh queues                                                   *)

(* A step of one client leaves the others where they are.                  *)
LEMMA OneMoves ==
    ASSUME SessionsTyped, NEW d \in Clients,
           \/ PostLabel(d) \/ PostOnItem(d) \/ PostRecompute(d) \/ PostRefresh(d) \/ Statement(d)
           \/ BreakDeadlock(d) \/ Abort(d),
           NEW c \in Clients \ {d}
    PROVE  pc'[c] = pc[c]
<1> DEFINE Moved == UNCHANGED pc \/ \E step : Goto(d, step)
<1>1. Moved => pc'[c] = pc[c]
  BY DEF Goto, SessionsTyped
<1>2. \A how : Answer(d, how) => Moved
  BY DEF Answer, Goto
<1> HIDE DEF Moved
<1>3. \A step : Goto(d, step) => Moved
  BY DEF Moved
<1>4. CASE PostLabel(d) \/ PostOnItem(d) \/ PostRecompute(d) \/ PostRefresh(d)
  <2>1. \E r : Post(d, r)
    BY <1>4 DEF PostLabel, PostOnItem, PostRecompute, PostRefresh
  <2>2. QED
    BY <1>1, <1>3, <2>1 DEF Post
<1>5. CASE LabelStep(d)
  <2>1. FindUser(d) => Moved
    BY <1>2, <1>3 DEF FindUser, Continue
  <2>2. AddUser(d) => Moved
    BY <1>2, <1>3 DEF AddUser, Continue
  <2>3. FindLabel(d) => Moved
    BY <1>2, <1>3 DEF FindLabel, Continue
  <2>4. SaveLabel(d) => Moved
    BY <1>2, <1>3 DEF SaveLabel, Continue
  <2>5. FindItem(d) => Moved
    BY <1>2, <1>3 DEF FindItem, Continue
  <2>6. CloseItem(d) => Moved
    BY <1>2, <1>3 DEF CloseItem, Continue
  <2>7. QED
    BY <1>1, <1>5, <2>1, <2>2, <2>3, <2>4, <2>5, <2>6 DEF LabelStep
<1>6. CASE AgreementStep(d)
  <2>1. ReadLabels(d) => Moved
    BY <1>2, <1>3 DEF ReadLabels, Continue
  <2>2. ReadSnapshot(d) => Moved
    BY <1>2, <1>3 DEF ReadSnapshot, Continue
  <2>3. SaveSnapshot(d) => Moved
    BY <1>2, <1>3 DEF SaveSnapshot, Continue
  <2>4. QED
    BY <1>1, <1>6, <2>1, <2>2, <2>3 DEF AgreementStep
<1>7. CASE ItemStep(d)
  <2>1. LoadItem(d) => Moved
    BY <1>2, <1>3 DEF LoadItem, Continue
  <2>2. ClaimItem(d) => Moved
    BY <1>2, <1>3 DEF ClaimItem, Continue
  <2>3. SkipItem(d) => Moved
    BY <1>2, <1>3 DEF SkipItem, Continue
  <2>4. QED
    BY <1>1, <1>7, <2>1, <2>2, <2>3 DEF ItemStep
<1>8. CASE RefreshStep(d)
  <2>1. FindTargets(d) => Moved
    BY <1>2, <1>3 DEF FindTargets, Continue
  <2>2. DeleteRow(d) => Moved
    BY DEF DeleteRow, Moved
  <2>3. ChooseCandidates(d) => Moved
    BY <1>2, <1>3 DEF ChooseCandidates, Continue
  <2>4. InsertRow(d) => Moved
    BY <1>2 DEF InsertRow, Moved
  <2>5. CommitRefresh(d) => Moved
    BY <1>2 DEF CommitRefresh
  <2>6. QED
    BY <1>1, <1>8, <2>1, <2>2, <2>3, <2>4, <2>5 DEF RefreshStep
<1>9. CASE BreakDeadlock(d) \/ Abort(d)
  BY <1>1, <1>2, <1>9 DEF BreakDeadlock, Abort
<1>10. QED
  BY <1>4, <1>5, <1>6, <1>7, <1>8, <1>9 DEF Statement

(* A refresh that inserts goes on inserting, commits or fails.             *)
LEMMA InsertsNext ==
    ASSUME NEW c \in Clients, pc[c] = "inserting",
           \/ PostLabel(c) \/ PostOnItem(c) \/ PostRecompute(c) \/ PostRefresh(c)
           \/ Statement(c) \/ BreakDeadlock(c) \/ Abort(c)
    PROVE  CommitRefresh(c) \/ UNCHANGED item
<1>1. ~PostLabel(c) /\ ~PostOnItem(c) /\ ~PostRecompute(c) /\ ~PostRefresh(c)
  BY DEF PostLabel, PostOnItem, PostRecompute, PostRefresh, Post
<1>2. ~LabelStep(c)
  BY DEF LabelStep, FindUser, AddUser, FindLabel, SaveLabel, FindItem, CloseItem
<1>3. ~AgreementStep(c) /\ ~ItemStep(c)
  BY DEF AgreementStep, ReadLabels, ReadSnapshot, SaveSnapshot, ItemStep, LoadItem, ClaimItem,
         SkipItem
<1>4. ~FindTargets(c) /\ ~DeleteRow(c) /\ ~ChooseCandidates(c)
  BY DEF FindTargets, DeleteRow, ChooseCandidates
<1>5. InsertRow(c) \/ BreakDeadlock(c) \/ Abort(c) => UNCHANGED item
  BY DEF InsertRow, BreakDeadlock, Abort, tables
<1>6. QED
  BY <1>1, <1>2, <1>3, <1>4, <1>5 DEF Statement, RefreshStep

LEMMA QueuesOnlyUnlabelled ==
    ASSUME LabellingAssumption, IInv, [Next]_vars, NEW c \in Clients, NEW rec \in Records,
           pc[c] = "inserting", pc'[c] = "idle", item'[rec] # None, item'[rec].id > lastId,
           NEW u \in Users
    PROVE  mem[c].table[<<rec, u>>] = None
<1>1. PICK d \in Clients :
        \/ PostLabel(d) \/ PostOnItem(d) \/ PostRecompute(d) \/ PostRefresh(d)
        \/ Statement(d) \/ BreakDeadlock(d) \/ Abort(d)
  BY DEF Next, vars
<1>2. d = c
  BY <1>1, OneMoves DEF IInv
<1>3. CommitRefresh(c) \/ UNCHANGED item
  BY <1>1, <1>2, InsertsNext
<1>4. ~(item[rec] # None /\ item[rec].id > lastId)
  BY DEF IInv, TablesTyped, Rows
<1>5. item' = QueueWith(c)
  BY <1>3, <1>4 DEF CommitRefresh
<1>6. rec \in added[c]
  BY <1>4, <1>5 DEF QueueWith
<1>7. QED
  BY <1>6 DEF IInv, SessionOK, ChosenSeen, Unlabelled

(* A refresh queues no record that had a label when it was asked for,      *)
(* whatever labels are saved while it runs (QueuesUnlabelled).             *)
THEOREM RefreshesQueueUnlabelled ==
    ASSUME LabellingAssumption
    PROVE  Spec => QueuesUnlabelled
<1> DEFINE OnlyUnlabelled ==
      \A c \in Clients, rec \in Records :
           pc[c] = "inserting" /\ pc'[c] = "idle" /\ item'[rec] # None
           /\ item'[rec].id > lastId =>
               \A u \in Users : mem[c].table[<<rec, u>>] = None
<1>1. ASSUME IInv, [Next]_vars
      PROVE  OnlyUnlabelled
  BY <1>1, QueuesOnlyUnlabelled
<1>2. Spec => [][OnlyUnlabelled]_vars
  <2>1. IInv /\ [Next]_vars => [OnlyUnlabelled]_vars
    BY <1>1
  <2>2. QED
    BY <2>1, InvHolds, PTL DEF Spec
<1>3. QED
  BY <1>2 DEF QueuesUnlabelled

-----------------------------------------------------------------------------
(* One request at a time                                                   *)

(* While nobody else asks for anything, a recomputation works with the     *)
(* labels and the snapshot there are.                                      *)
LatestSnapshots == Snapshots(labels, TRUE) \union Snapshots(labels, FALSE)

Alone(c) ==
    /\ pc[c] # "idle" => outcome[c] = "none"
    /\ pc[c] \in {"reading snapshot", "saving snapshot"} => mem[c].table = labels
    /\ pc[c] = "saving snapshot" => mem[c].snap = snapshot
    /\ req[c].kind \in {"label", "recompute"} /\ outcome[c] = "ok" =>
          snapshot \in LatestSnapshots

(* Nothing is claimed about a request before its recomputation, and about  *)
(* one that has failed or has none.                                        *)
LEMMA AloneGoesOn ==
    ASSUME SessionsTyped, NEW c \in Clients, Alone(c), pc[c] # "idle",
           NEW step, step \notin {"reading snapshot", "saving snapshot"},
           Goto(c, step), UNCHANGED outcome
    PROVE  Alone(c)'
<1>1. pc'[c] = step /\ outcome'[c] = "none"
  BY DEF Goto, SessionsTyped, Alone
<1>2. QED
  BY <1>1 DEF Alone

LEMMA AloneEnds ==
    ASSUME SessionsTyped, NEW c \in Clients, NEW how, Answer(c, how),
           how # "ok" \/ req'[c].kind \notin {"label", "recompute"}
    PROVE  Alone(c)'
<1>1. pc'[c] = "idle" /\ outcome'[c] = how
  BY DEF Answer, SessionsTyped
<1>2. QED
  BY <1>1 DEF Alone

LEMMA AlonePost ==
    ASSUME SessionsTyped, NEW c \in Clients, NEW r, Post(c, r), LabellingAssumption
    PROVE  Alone(c)'
<1>1. pc'[c] = FirstStep(r.kind) /\ outcome'[c] = "none"
  BY DEF Post, Goto, SessionsTyped
<1>2. r.kind \in {"label", "recompute", "refresh", "claim", "skip"}
  BY DEF Post, LabellingAssumption
<1>3. FirstStep(r.kind) \notin {"reading snapshot", "saving snapshot"}
  BY <1>2 DEF FirstStep
<1>4. QED
  BY <1>1, <1>3 DEF Alone

LEMMA AloneLabel ==
    ASSUME IInv, NEW c \in Clients, Alone(c), LabelStep(c)
    PROVE  Alone(c)'
<1>1. pc[c] # "idle" /\ SessionsTyped
  BY DEF LabelStep, FindUser, AddUser, FindLabel, SaveLabel, FindItem, CloseItem, IInv
<1>2. AfterUser(c) \notin {"reading snapshot", "saving snapshot"}
  BY DEF AfterUser
<1>3. FindUser(c) => Alone(c)'
  BY <1>1, <1>2, AloneGoesOn DEF FindUser, Continue
<1>4. AddUser(c) => Alone(c)'
  BY <1>1, <1>2, AloneGoesOn, AloneEnds DEF AddUser
<1>5. FindLabel(c) => Alone(c)'
  BY <1>1, AloneGoesOn DEF FindLabel, Continue
<1>6. SaveLabel(c) => Alone(c)'
  BY <1>1, AloneGoesOn, AloneEnds DEF SaveLabel
<1>7. FindItem(c) => Alone(c)'
  BY <1>1, AloneGoesOn DEF FindItem, Continue
<1>8. CloseItem(c) => Alone(c)'
  BY <1>1, AloneGoesOn DEF CloseItem, Continue
<1>9. QED
  BY <1>3, <1>4, <1>5, <1>6, <1>7, <1>8 DEF LabelStep

LEMMA AloneReadLabels ==
    ASSUME IInv, NEW c \in Clients, Alone(c), ReadLabels(c)
    PROVE  Alone(c)'
<1>1. PICK ch \in JudgeClients :
        \/ /\ mem' = [mem EXCEPT ![c].table = labels, ![c].ch = ch]
           /\ Continue(c, "reading snapshot")
        \/ Answer(c, "no judge")
  BY DEF ReadLabels, LabelTable
<1>2. CASE Answer(c, "no judge")
  BY <1>2, AloneEnds DEF IInv
<1>3. CASE /\ mem' = [mem EXCEPT ![c].table = labels, ![c].ch = ch]
           /\ Continue(c, "reading snapshot")
  <2>1. mem'[c].table = labels /\ labels' = labels
    BY <1>3 DEF IInv, SessionsTyped, MemoryFields, ReadLabels, tables
  <2>2. pc'[c] = "reading snapshot" /\ outcome'[c] = "none"
    BY <1>3 DEF Continue, Goto, IInv, SessionsTyped, Alone, ReadLabels
  <2>3. QED
    BY <2>1, <2>2 DEF Alone
<1>4. QED
  BY <1>1, <1>2, <1>3

LEMMA AloneReadSnapshot ==
    ASSUME IInv, NEW c \in Clients, Alone(c), ReadSnapshot(c)
    PROVE  Alone(c)'
<1>1. mem'[c].snap = snapshot /\ mem'[c].table = mem[c].table
  BY DEF ReadSnapshot, IInv, SessionsTyped, MemoryFields
<1>2. labels' = labels /\ snapshot' = snapshot
  BY DEF ReadSnapshot, tables
<1>3. mem[c].table = labels
  BY DEF Alone, ReadSnapshot
<1>4. pc'[c] = "saving snapshot" /\ outcome'[c] = "none"
  BY DEF ReadSnapshot, Continue, Goto, IInv, SessionsTyped, Alone
<1>5. QED
  BY <1>1, <1>2, <1>3, <1>4 DEF Alone

LEMMA AloneSaveSnapshot ==
    ASSUME IInv, NEW c \in Clients, Alone(c), SaveSnapshot(c)
    PROVE  Alone(c)'
<1>1. CASE Answer(c, "duplicate")
  BY <1>1, AloneEnds DEF IInv
<1>2. CASE /\ \E new \in Snapshots(mem[c].table, mem[c].ch) :
                 snapshot' = IF mem[c].snap = None THEN new
                             ELSE Updated(mem[c].snap, new, snapshot)
           /\ Answer(c, "ok")
  <2>1. /\ mem[c].ch \in BOOLEAN /\ mem[c].table \in Tables
        /\ IsFiniteSet(Labelled(mem[c].table))
    BY DEF SaveSnapshot, IInv, SessionOK, TableSeen
  <2>2. mem[c].table = labels /\ mem[c].snap = snapshot /\ labels' = labels
    BY DEF SaveSnapshot, Alone
  <2>3. PICK new \in Snapshots(mem[c].table, mem[c].ch) :
          snapshot' = IF mem[c].snap = None THEN new ELSE Updated(mem[c].snap, new, snapshot)
    BY <1>2
  <2>4. new = [col \in DOMAIN new |-> new[col]]
    BY <2>1, SnapshotCounts
  <2>5. Updated(snapshot, new, snapshot) = [col \in DOMAIN new |-> new[col]]
    BY DEF Updated
  <2>6. snapshot' = new
    BY <2>2, <2>3, <2>4, <2>5
  <2>7. new \in Snapshots(labels, TRUE) \union Snapshots(labels, FALSE)
    BY <2>1, <2>2
  <2>8. snapshot' \in LatestSnapshots'
    BY <2>2, <2>6, <2>7 DEF LatestSnapshots
  <2>9. pc'[c] = "idle"
    BY <1>2 DEF Answer, IInv, SessionsTyped
  <2>10. QED
    BY <2>8, <2>9 DEF Alone
<1>3. QED
  BY <1>1, <1>2 DEF SaveSnapshot

LEMMA AloneQueue ==
    ASSUME IInv, NEW c \in Clients, Alone(c), ItemStep(c) \/ RefreshStep(c)
    PROVE  Alone(c)'
<1>1. pc[c] # "idle" /\ SessionsTyped
  BY DEF ItemStep, LoadItem, ClaimItem, SkipItem, RefreshStep, FindTargets, DeleteRow,
         ChooseCandidates, InsertRow, CommitRefresh, IInv
<1>2. req'[c].kind \notin {"label", "recompute"}
  <2>1. req' = req
    BY DEF ItemStep, LoadItem, ClaimItem, SkipItem, RefreshStep, FindTargets, DeleteRow,
           ChooseCandidates, InsertRow, CommitRefresh
  <2>2. \/ pc[c] \in {"loading item", "claiming", "skipping"}
        \/ pc[c] \in Refreshing
    BY DEF ItemStep, LoadItem, ClaimItem, SkipItem, RefreshStep, FindTargets, DeleteRow,
           ChooseCandidates, InsertRow, CommitRefresh, Refreshing
  <2>3. req[c].kind \in {"claim", "skip", "refresh"}
    BY <2>2 DEF IInv, SessionOK, RequestFits
  <2>4. QED
    BY <2>1, <2>3
<1>3. \A how : Answer(c, how) => Alone(c)'
  BY <1>1, <1>2, AloneEnds
<1>4. \A step \in {"finding user", "skipping", "deleting", "inserting"} :
        Goto(c, step) /\ outcome' = outcome => Alone(c)'
  BY <1>1, AloneGoesOn
<1>5. LoadItem(c) => Alone(c)'
  BY <1>3, <1>4 DEF LoadItem, Continue
<1>6. ClaimItem(c) \/ SkipItem(c) => Alone(c)'
  BY <1>3 DEF ClaimItem, SkipItem
<1>7. FindTargets(c) => Alone(c)'
  BY <1>4 DEF FindTargets, Continue
<1>8. pc'[c] = pc[c] /\ outcome' = outcome /\ RefreshStep(c) => Alone(c)'
  <2>1. SUFFICES ASSUME pc'[c] = pc[c], outcome' = outcome, RefreshStep(c)
                 PROVE  Alone(c)'
    OBVIOUS
  <2>2. pc[c] \in Refreshing
    BY <2>1 DEF RefreshStep, FindTargets, DeleteRow, ChooseCandidates, InsertRow, CommitRefresh,
                Refreshing
  <2>3. QED
    BY <1>2, <2>1, <2>2 DEF Alone, Refreshing
<1>9. ChooseCandidates(c) => Alone(c)'
  BY <1>3, <1>4 DEF ChooseCandidates, Continue
<1>10. DeleteRow(c) => Alone(c)'
  BY <1>8 DEF DeleteRow, RefreshStep
<1>11. InsertRow(c) => Alone(c)'
  BY <1>3, <1>8 DEF InsertRow, RefreshStep
<1>12. CommitRefresh(c) => Alone(c)'
  BY <1>3 DEF CommitRefresh
<1>13. QED
  BY <1>5, <1>6, <1>7, <1>9, <1>10, <1>11, <1>12 DEF ItemStep, RefreshStep

LEMMA AloneStep ==
    ASSUME LabellingAssumption, IInv, NEW c, Clients = {c}, Alone(c), [Next]_vars
    PROVE  Alone(c)'
<1>1. c \in Clients /\ SessionsTyped
  BY DEF IInv
<1>2. CASE UNCHANGED vars
  BY <1>2 DEF vars, Alone, LatestSnapshots
<1>3. CASE PostLabel(c) \/ PostOnItem(c) \/ PostRecompute(c) \/ PostRefresh(c)
  <2>1. \E r : Post(c, r)
    BY <1>3 DEF PostLabel, PostOnItem, PostRecompute, PostRefresh
  <2>2. QED
    BY <1>1, <2>1, AlonePost
<1>4. CASE BreakDeadlock(c) \/ Abort(c)
  BY <1>1, <1>4, AloneEnds DEF BreakDeadlock, Abort
<1>5. CASE Statement(c)
  BY <1>1, <1>5, AloneLabel, AloneReadLabels, AloneReadSnapshot, AloneSaveSnapshot, AloneQueue
     DEF Statement, AgreementStep
<1>6. QED
  BY <1>2, <1>3, <1>4, <1>5 DEF Next

(* Requests that follow one another leave the snapshot of the labels there *)
(* are: also when the update writes only the columns that have changed.    *)
THEOREM SnapshotsAreLatest ==
    ASSUME LabellingAssumption, NEW CONSTANT c, Clients = {c}
    PROVE  Spec => []SnapshotIsLatest
<1>1. Init => Alone(c)
  BY DEF Init, Alone
<1>2. IInv /\ Alone(c) /\ [Next]_vars => Alone(c)'
  BY AloneStep
<1>3. Alone(c) => SnapshotIsLatest
  BY DEF Alone, SnapshotIsLatest, LatestSnapshots
<1>4. QED
  BY <1>1, <1>2, <1>3, InvHolds, PTL DEF Spec

=============================================================================
