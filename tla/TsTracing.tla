----------------------------- MODULE TsTracing -----------------------------
(***************************************************************************)
(* Tracing in the TypeScript SDK (packages/sdk-ts/src/trace.ts and         *)
(* context.ts).  trace() wraps a function; each call of it is one trace,   *)
(* and span() adds to the trace that the context store holds.  The store   *)
(* is Node's AsyncLocalStorage or a single global slot.                    *)
(*                                                                         *)
(* JavaScript runs one piece of code at a time.  A piece is the part of a  *)
(* call before its first await, or any later part: a continuation, a       *)
(* timer, a branch nobody awaits.  Code outside every trace is left out:   *)
(* it only opens spans that belong to nothing.                             *)
(***************************************************************************)
EXTENDS Naturals, Sequences, FiniteSets, SequencesExt

CONSTANTS
    Calls,      \* calls of wrapped functions, each one a trace
    None,
    MaxSpans    \* bound: spans per trace, the root included

VARIABLES
    store,      \* which ContextStore createContextStore built: "als" or "slot"
    stack,      \* the code that runs: frames [call, prev], prev as in run()
    active,     \* what als.get() returns: a call (its Context) or None
    phase,      \* phase[c]: "idle", "running" (not returned yet), "pending"
                \* (returned a promise), "settled" or "done" (finalized)
    spans,      \* spans[c]: TraceImpl.spans, the root first
    spanStack,  \* spanStack[c]: Context.spanStack, positions in spans[c]
    sent,       \* sent[c]: the payloads posted for c
    lost,       \* history: calls that opened a span no trace recorded
    untidy      \* history: calls of which a span ended before one inside it

vars == <<store, stack, active, phase, spans, spanStack, sent, lost, untidy>>

Span(parent, by) == [parent |-> parent, by |-> by, ended |-> FALSE]

Init ==
    /\ store \in {"als", "slot"}
    /\ stack = <<>> /\ active = None
    /\ phase = [c \in Calls |-> "idle"]
    /\ spans = [c \in Calls |-> <<>>]
    /\ spanStack = [c \in Calls |-> <<>>]
    /\ sent = [c \in Calls |-> <<>>]
    /\ lost = {} /\ untidy = {}

(* The call whose code runs now.                                           *)
Running == Last(stack).call

(* run(): the callback sees c, and what was there before comes back when   *)
(* the callback returns.                                                   *)
RunStarts(c) ==
    /\ stack' = Append(stack, [call |-> c, prev |-> active])
    /\ active' = c
BugKeepSlot ==  \* mutant: the previous value is not put back
    /\ stack' = Front(stack)
    /\ UNCHANGED active
RunEnds ==
    /\ stack' = Front(stack)
    /\ active' = Last(stack).prev

(* finalize(): the root ends and the trace is posted as it is now.         *)
Finalized(c) ==
    /\ spans' = [spans EXCEPT ![c][1].ended = TRUE]
    /\ sent' = [sent EXCEPT ![c] = Append(@, spans'[c])]

(* The wrapped function is called, by an event or by another traced call.  *)
Call(c) ==
    /\ phase[c] = "idle"
    /\ phase' = [phase EXCEPT ![c] = "running"]
    /\ spans' = [spans EXCEPT ![c] = <<Span(0, c)>>]
    /\ spanStack' = [spanStack EXCEPT ![c] = <<1>>]
    /\ RunStarts(c)
    /\ UNCHANGED <<store, sent, lost, untidy>>

(* It returns, or throws, without a promise: finalized inside run().       *)
Return(c) ==
    /\ stack # <<>> /\ Running = c /\ phase[c] = "running"
    /\ phase' = [phase EXCEPT ![c] = "done"]
    /\ Finalized(c)
    /\ RunEnds
    /\ UNCHANGED <<store, spanStack, lost, untidy>>

(* Mutant: the promise is finalized at once as well.                       *)
BugFinalizeEarly(c) ==
    /\ stack # <<>> /\ Running = c /\ phase[c] = "running"
    /\ phase' = [phase EXCEPT ![c] = "pending"]
    /\ Finalized(c)
    /\ RunEnds
    /\ UNCHANGED <<store, spanStack, lost, untidy>>

(* It returns a promise: run() is over although the function is not.       *)
Await(c) ==
    /\ stack # <<>> /\ Running = c /\ phase[c] = "running"
    /\ phase' = [phase EXCEPT ![c] = "pending"]
    /\ RunEnds
    /\ UNCHANGED <<store, spans, spanStack, sent, lost, untidy>>

(* A later piece of c's code runs, also after c is done when it left a     *)
(* branch behind.  AsyncLocalStorage brings the context back, the slot     *)
(* holds what it holds.                                                    *)
Resume(c) ==
    /\ stack = <<>> /\ phase[c] \notin {"idle", "running"}
    /\ stack' = <<[call |-> c, prev |-> active]>>
    /\ active' = IF store = "als" THEN c ELSE active
    /\ UNCHANGED <<store, phase, spans, spanStack, sent, lost, untidy>>

(* The piece ends, with the promise of c still open or just settled.       *)
Pause(c) ==
    /\ stack # <<>> /\ Running = c /\ phase[c] # "running"
    /\ \/ UNCHANGED phase
       \/ /\ phase[c] = "pending"
          /\ phase' = [phase EXCEPT ![c] = "settled"]
    /\ RunEnds
    /\ UNCHANGED <<store, spans, spanStack, sent, lost, untidy>>

(* The callback of then() on the promise.                                  *)
Settled(c) ==
    /\ stack = <<>> /\ phase[c] = "settled"
    /\ phase' = [phase EXCEPT ![c] = "done"]
    /\ Finalized(c)
    /\ UNCHANGED <<store, stack, active, spanStack, lost, untidy>>

(* span(): a child of the span on top of the stack of the context.         *)
Open ==
    /\ stack # <<>> /\ active # None /\ Len(spans[active]) < MaxSpans
    /\ LET top == IF spanStack[active] = <<>> THEN 0 ELSE Last(spanStack[active])
       IN  spans' = [spans EXCEPT ![active] = Append(@, Span(top, Running))]
    /\ spanStack' = [spanStack EXCEPT ![active] = Append(@, Len(spans'[active]))]
    /\ UNCHANGED <<store, stack, active, phase, sent, lost, untidy>>

(* span() without a context: the caller gets a span no trace has.          *)
OpenLost ==
    /\ stack # <<>> /\ active = None
    /\ lost' = lost \union {Running}
    /\ UNCHANGED <<store, stack, active, phase, spans, spanStack, sent, untidy>>

(* What end() leaves on the span stack of c.                               *)
BugAlwaysPop(c, n) ==  \* mutant: whatever is on top goes
    IF spanStack[c] = <<>> THEN <<>> ELSE Front(spanStack[c])
PopIfTop(c, n) ==
    IF spanStack[c] # <<>> /\ Last(spanStack[c]) = n
    THEN Front(spanStack[c]) ELSE spanStack[c]

(* end() of the n-th span, by whoever holds it, perhaps not for the first  *)
(* time.  The root is never handed out.                                    *)
End(c, n) ==
    /\ n \in DOMAIN spans[c] \ {1}
    /\ spans' = [spans EXCEPT ![c][n].ended = TRUE]
    /\ spanStack' = [spanStack EXCEPT ![c] = PopIfTop(c, n)]
    /\ untidy' = IF \E i \in DOMAIN spans[c] : i > n /\ ~ spans[c][i].ended /\ ~ spans[c][n].ended
                 THEN untidy \union {c} ELSE untidy
    /\ UNCHANGED <<store, stack, active, phase, sent, lost>>

Next ==
    \/ \E c \in Calls : Call(c) \/ Return(c) \/ Await(c)
                        \/ Resume(c) \/ Pause(c) \/ Settled(c)
    \/ Open
    \/ OpenLost
    \/ \E c \in Calls, n \in 2 .. MaxSpans : End(c, n)

Spec == Init /\ [][Next]_vars

-----------------------------------------------------------------------------
TypeOK ==
    /\ store \in {"als", "slot"}
    /\ stack \in Seq([call : Calls, prev : Calls \union {None}])
    /\ active \in Calls \union {None}
    /\ phase \in [Calls -> {"idle", "running", "pending", "settled", "done"}]
    /\ \A c \in Calls :
        /\ spans[c] \in Seq([parent : 0 .. MaxSpans, by : Calls, ended : BOOLEAN])
        /\ Range(spanStack[c]) \subseteq DOMAIN spans[c]
        /\ phase[c] # "idle" => Head(spanStack[c]) = 1
        /\ Len(sent[c]) = (IF phase[c] = "done" THEN 1 ELSE 0)
    /\ lost \subseteq Calls /\ untidy \subseteq Calls

(* A span is recorded in the trace of the call whose code opened it, or    *)
(* nowhere: and that only with the global slot, in code after the first    *)
(* await.  No call ever writes into the trace of another.                  *)
SpansStayHome ==
    /\ \A c \in Calls : \A n \in DOMAIN spans[c] : spans[c][n].by = c
    /\ \A c \in lost : store = "slot" /\ phase[c] \notin {"idle", "running"}

(* The span stack of a trace holds every span that is still open, in the   *)
(* order they were opened; and nothing else, as long as no span ended      *)
(* before one opened inside it.  So span() takes the innermost open span   *)
(* as the parent.                                                          *)
OpenSpans(c) == {n \in DOMAIN spans[c] : n = 1 \/ ~ spans[c][n].ended}

ParentIsInnermost ==
    \A c \in Calls :
        /\ \A i, j \in DOMAIN spanStack[c] : i < j => spanStack[c][i] < spanStack[c][j]
        /\ OpenSpans(c) \subseteq Range(spanStack[c])
        /\ c \notin untidy => Range(spanStack[c]) = OpenSpans(c)

(* The trees of SpanTree.                                                  *)
TreeOf(ss) == [n \in DOMAIN ss |-> ss[n].parent]
Trees == [c \in Calls |-> TreeOf(spans[c])]
SentTrees == [c \in Calls |-> [i \in DOMAIN sent[c] |-> TreeOf(sent[c][i])]]

=============================================================================
