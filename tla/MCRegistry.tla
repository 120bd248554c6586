----------------------------- MODULE MCRegistry -----------------------------
(* A small instance of the registry for TLC: two clients who do not know   *)
(* of each other name the same metric and the same dataset.                *)
EXTENDS Registry
=============================================================================
