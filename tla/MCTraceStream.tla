--------------------------- MODULE MCTraceStream ---------------------------
(* Small instances of the trace pipeline for TLC.                          *)
EXTENDS TraceStream, OtlpTranslate

(* A request of two traces, one of which the writer chokes on, and one     *)
(* whose trace has no identified span.                                     *)
MCTraces == [q \in Requests |-> IF q = "batch" THEN {"good", "bad"} ELSE {"empty"}]
MCKind == [t \in {"good", "empty", "bad"} |-> IF t = "good" THEN "rows" ELSE t]

MCSpanIds == {Missing, 1, 2, 7}

\* Spans of two traces, with and without ids and parents, and spans of one
\* trace that differ in their times, two of them within one millisecond.
PlainSpans ==
    [trace : {Missing, 1, 2}, id : {Missing, 7}, parent : {Missing, 7},
     name : {"a", "b"}, start : {2000000}, end : {3000000}, error : BOOLEAN, scope : {"x"}]
TimedSpans ==
    [trace : {1}, id : {7}, parent : {Missing}, name : {"a"},
     start : {Missing, 1000000, 1999999, 2000000},
     end : {Missing, 999999, 1500000, 4000000}, error : {FALSE}, scope : {"x"}]
MCOtlpRequests == BoundedSeq(PlainSpans, 2) \union BoundedSeq(TimedSpans, 3)

\* Every request is translated before the first post.
MCInit == Init /\ request \in OtlpRequests
MCNext == Next /\ request' = <<>>
MCSpec == MCInit /\ [][MCNext]_<<vars, request>> /\ Fairness
=============================================================================
