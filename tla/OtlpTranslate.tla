--------------------------- MODULE OtlpTranslate ---------------------------
(***************************************************************************)
(* Translate() of the ingest service (internal/otlp/otlp.go): the spans of *)
(* an OTLP request, in the order of its resources and scopes, become one   *)
(* internal trace per trace id.                                            *)
(*                                                                         *)
(* A span is [trace, id, parent, name, start, end, error, scope]: ids and  *)
(* parent may be Missing; a time is in nanoseconds, or Missing when it is  *)
(* left out or not a number; scope stands for the attributes of its        *)
(* resource and scope.  The attributes of a span are carried along and     *)
(* left out here.  Times past 2^63 ns, in the year 2262, would wrap.       *)
(***************************************************************************)
EXTENDS Integers, Sequences, FiniteSets, FiniteSetsExt

CONSTANTS
    SpanIds,        \* ids of traces and spans, Missing among them
    SpanNames,
    SpanScopes,
    OtlpRequests    \* the sequences of spans that requests carry

\* A field that is absent, and Go's zero value of a string or a pointer.
Missing == -1

OtlpSpan(Ids, Names, Scopes) ==
    [trace : Ids, id : Ids, parent : Ids, name : Names, start : Nat \union {Missing},
     end : Nat \union {Missing}, error : BOOLEAN, scope : Scopes]

ASSUME OtlpAssumption ==
    \A spans \in OtlpRequests : spans \in Seq(OtlpSpan(SpanIds, SpanNames, SpanScopes))

VARIABLE request    \* the request that is translated, one after another

Translating == request \in OtlpRequests /\ [][request' \in OtlpRequests]_request

UnixNanoToMs(t) == IF t = Missing THEN 0 ELSE t \div 1000000

EndMs(sp) == IF UnixNanoToMs(sp.end) > 0 THEN UnixNanoToMs(sp.end) ELSE Missing

Identified(sp) == sp.trace # Missing /\ sp.id # Missing

InternalSpan(sp) ==
    [span_id   |-> sp.id,
     parent_id |-> sp.parent,
     name      |-> sp.name,
     start_ms  |-> UnixNanoToMs(sp.start),
     end_ms    |-> EndMs(sp),
     status    |-> IF sp.error THEN "error" ELSE "ok"]

\* The trace that the first span with its id makes.
NewTrace(sp) ==
    [name |-> sp.name, start_ms |-> 0, end_ms |-> Missing, status |-> "ok",
     attributes |-> sp.scope, spans |-> <<>>]

BugSmaller(old, start) == IF start < old THEN start ELSE old
\* A start of 0 stands for "none yet".
Earlier(old, start) == IF old = 0 \/ start < old THEN start ELSE old

\* -1 is below every end.
Later(old, end) == Max({old, end})

WithSpan(it, sp) ==
    LET is == InternalSpan(sp)
    IN  [name       |-> IF sp.parent = Missing THEN sp.name ELSE it.name,
         start_ms   |-> Earlier(it.start_ms, is.start_ms),
         end_ms     |-> Later(it.end_ms, is.end_ms),
         status     |-> IF sp.error THEN "error" ELSE it.status,
         attributes |-> it.attributes,
         spans      |-> Append(it.spans, is)]

(* One round of the loop; a span without ids is skipped.                   *)
AddSpan(byTrace, sp) ==
    IF ~ Identified(sp) THEN byTrace
    ELSE LET it == IF sp.trace \in DOMAIN byTrace THEN byTrace[sp.trace] ELSE NewTrace(sp)
         IN  [t \in DOMAIN byTrace \union {sp.trace} |->
                IF t = sp.trace THEN WithSpan(it, sp) ELSE byTrace[t]]

Translate(spans) ==
    LET byTrace[n \in 0 .. Len(spans)] ==
            IF n = 0 THEN <<>> ELSE AddSpan(byTrace[n - 1], spans[n])
    IN  byTrace[Len(spans)]

-----------------------------------------------------------------------------
\* The spans among the first n of a request that belong to trace t.
Of(spans, n, t) == {k \in 1 .. n : Identified(spans[k]) /\ spans[k].trace = t}

(* The identified spans of a request, each once and in their order, make   *)
(* up the traces with their ids, and nothing else.  A trace is an error if *)
(* one of its spans is, has the name of a root if there is one, ends when  *)
(* the last of its spans ends, and, if all its spans have a start, starts  *)
(* with the first one: its spans lie within it, in whatever order they     *)
(* came.                                                                   *)
TranslationSound(spans) ==
    LET out == Translate(spans)
        of(t) == Of(spans, Len(spans), t)
        starts(t) == {UnixNanoToMs(spans[k].start) : k \in of(t)}
        roots(t) == {k \in of(t) : spans[k].parent = Missing}
    IN  /\ DOMAIN out = {spans[k].trace : k \in {k \in DOMAIN spans : Identified(spans[k])}}
        /\ \A t \in DOMAIN out :
            /\ Len(out[t].spans) = Cardinality(of(t))
            /\ \A k \in of(t) : out[t].spans[Cardinality({l \in of(t) : l <= k})]
                                  = InternalSpan(spans[k])
            /\ out[t].status = "error" <=> \E k \in of(t) : spans[k].error
            /\ \A k \in of(t) : EndMs(spans[k]) <= out[t].end_ms
            /\ out[t].end_ms \in {EndMs(spans[k]) : k \in of(t)}
            /\ out[t].start_ms \in starts(t)
            /\ 0 \notin starts(t) => \A s \in starts(t) : out[t].start_ms <= s
            /\ roots(t) # {} => out[t].name \in {spans[k].name : k \in roots(t)}

(* The translation loses no span of a request and makes none up, and a     *)
(* trace spans its spans.                                                  *)
TranslationIsSound == TranslationSound(request)
=============================================================================
