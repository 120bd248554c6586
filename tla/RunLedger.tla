----------------------------- MODULE RunLedger -----------------------------
(***************************************************************************)
(* What an eval run promises to whoever follows it, without saying how.    *)
(*                                                                         *)
(* The `runs` table documents a run as "queued -> running -> done" with    *)
(* run-level rollups (services/api/.../db/models.py, class Run).  Read as  *)
(* a specification: an accepted run has at least one record, every record  *)
(* is counted at most once, and the run is done exactly when all of them   *)
(* have been counted.  The ledger keeps the SETS of records the counters   *)
(* stand for; EvalRun keeps only the counters the code keeps and is shown  *)
(* to implement this module.                                               *)
(***************************************************************************)
EXTENDS Naturals

CONSTANTS
    Runs,   \* the runs that clients may ask for
    Size    \* Size[r]: number of records of the dataset version r evaluates

VARIABLES
    status,   \* status[r]: the status column, "none" before the row exists
    counted,  \* counted[r]: the records completed_count stands for
    flagged   \* flagged[r]: the records error_count stands for

ledgerVars == <<status, counted, flagged>>

Records(r) == 1 .. Size[r]

Init ==
    /\ status = [r \in Runs |-> "none"]
    /\ counted = [r \in Runs |-> {}]
    /\ flagged = [r \in Runs |-> {}]

(* A run over a non-empty dataset version is accepted.                     *)
Accept(r) ==
    /\ status[r] = "none"
    /\ Records(r) # {}
    /\ status' = [status EXCEPT ![r] = "queued"]
    /\ UNCHANGED <<counted, flagged>>

(* One more record of r is counted, as an error or not; the last one, and  *)
(* only the last one, makes the run done.                                  *)
Count(r, i, err) ==
    /\ status[r] \in {"queued", "running"}
    /\ i \in Records(r) \ counted[r]
    /\ counted' = [counted EXCEPT ![r] = @ \union {i}]
    /\ flagged' = [flagged EXCEPT ![r] = IF err THEN @ \union {i} ELSE @]
    /\ status' = [status EXCEPT ![r] = IF counted'[r] = Records(r)
                                       THEN "done" ELSE "running"]

Next ==
    \E r \in Runs :
        \/ Accept(r)
        \/ \E i \in Records(r), err \in BOOLEAN : Count(r, i, err)

Spec == Init /\ [][Next]_ledgerVars
=============================================================================
