------------------------------ MODULE Tracing ------------------------------
(***************************************************************************)
(* A traced program, which uses the TypeScript SDK or the Python SDK.      *)
(* Both promise the same to the readers of its traces.                     *)
(***************************************************************************)
EXTENDS Naturals, Sequences

CONSTANTS Calls, None, MaxSpans, Main, Others, MaxDepth

ASSUME TracingAssumption ==
    /\ None \notin Calls
    /\ MaxSpans \in Nat \ {0}

VARIABLES
    sdk,                             \* "ts" or "py"
    stack, spans, sent,              \* of the SDK in use
    store, active, phase, spanStack, lost, untidy,  \* TypeScript only
    base, current_trace, current_span               \* Python only

tsOnly == <<store, active, phase, spanStack, lost, untidy>>
pyOnly == <<base, current_trace, current_span>>
tracingVars == <<sdk, stack, spans, sent, tsOnly, pyOnly>>

Ts == INSTANCE TsTracing
Py == INSTANCE PyTracing

Init ==
    \/ /\ sdk = "ts" /\ Ts!Init
       /\ base = None /\ current_trace = None /\ current_span = None
    \/ /\ sdk = "py" /\ Py!Init
       /\ store = None /\ active = None /\ phase = None
       /\ spanStack = None /\ lost = None /\ untidy = None

Next ==
    \/ sdk = "ts" /\ Ts!Next /\ UNCHANGED <<sdk, pyOnly>>
    \/ sdk = "py" /\ Py!Next /\ UNCHANGED <<sdk, tsOnly>>

Spec == Init /\ [][Next]_tracingVars

-----------------------------------------------------------------------------
(* The values of the variables, and that a trace is posted when its call   *)
(* is done and once at most.                                               *)
TypeOK == IF sdk = "ts" THEN Ts!TypeOK ELSE Py!TypeOK

(* A span is recorded in the trace of the call whose code opened it, or    *)
(* nowhere; in TypeScript the latter only with the global slot and only    *)
(* after the first await.  No call writes into the trace of another.       *)
SpansStayHome == IF sdk = "ts" THEN Ts!SpansStayHome ELSE Py!SpansStayHome

(* The parent that span() takes is the innermost open span: in TypeScript  *)
(* as long as spans of a trace end in the reverse of the order they were   *)
(* opened in, and no open span is ever dropped; in Python whatever the     *)
(* other threads and tasks do.                                             *)
ParentIsInnermost == IF sdk = "ts" THEN Ts!ParentIsInnermost ELSE Py!ParentIsInnermost

(* Both SDKs build the trees, and send them once, that a reader of traces  *)
(* relies on.                                                              *)
Tree == INSTANCE SpanTree
    WITH Traces <- Calls,
         tree <- IF sdk = "ts" THEN Ts!Trees ELSE Py!Trees,
         sent <- IF sdk = "ts" THEN Ts!SentTrees ELSE Py!SentTrees
ImplementsSpanTree == Tree!Spec

=============================================================================
