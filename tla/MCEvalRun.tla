----------------------------- MODULE MCEvalRun -----------------------------
(* Small instances of the eval run engine for TLC.                         *)
EXTENDS EvalRun

(* A run of two records, one of a single record, and an empty dataset.     *)
MCSize == [r \in Runs |-> CASE r = "big" -> 2 [] r = "small" -> 1 [] r = "empty" -> 0]
=============================================================================
