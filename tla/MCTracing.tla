----------------------------- MODULE MCTracing -----------------------------
(* Small instances of the tracing SDKs for TLC.                            *)
EXTENDS Tracing
=============================================================================
