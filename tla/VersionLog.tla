----------------------------- MODULE VersionLog -----------------------------
(***************************************************************************)
(* What the registry of metrics and datasets promises: every metric and    *)
(* every dataset has a log of versions 1, 2, 3, ... that only grows.  A    *)
(* version never changes, and a metric never gets the same definition      *)
(* twice ("Immutable, content-addressed snapshot", "a monotonic 1-based    *)
(* int per metric": class MetricVersion, services/api/.../db/models.py).   *)
(***************************************************************************)
EXTENDS Naturals, Sequences

CONSTANTS
    Parents,    \* the metrics and datasets of a project
    Addressed,  \* those whose versions are addressed by their content: metrics
    Contents    \* metric definitions and record files

VARIABLE log    \* log[p]: the contents of the versions of p, in their order

Init == log = [p \in Parents |-> <<>>]

Publish(p, x) ==
    /\ p \in Addressed => \A v \in DOMAIN log[p] : log[p][v] # x
    /\ log' = [log EXCEPT ![p] = Append(@, x)]

Next == \E p \in Parents, x \in Contents : Publish(p, x)

Spec == Init /\ [][Next]_log
=============================================================================
