----------------------------- MODULE PyTracing -----------------------------
(***************************************************************************)
(* Tracing in the Python SDK (packages/sdk-python/src/judge/_trace.py).    *)
(* The decorator makes each call of a function one trace; the trace and    *)
(* the span it is in are two context variables.  A context is that of the  *)
(* main thread, of another thread, which starts empty, or of an asyncio    *)
(* task, which starts with a copy of its creator's.                        *)
(*                                                                         *)
(* Inside a context calls and with-blocks nest, as they do unless a        *)
(* generator is suspended inside a with-block.  A coroutine function under *)
(* the decorator is a call that returns at once: its body is code of       *)
(* whoever awaits it.                                                      *)
(***************************************************************************)
EXTENDS Naturals, Sequences, SequencesExt, FiniteSetsExt

CONSTANTS
    Calls,      \* calls of decorated functions, each one a trace
    Main,       \* the context of the main thread
    Others,     \* the contexts of other threads and of tasks
    None,
    MaxSpans,   \* bound: spans per trace, the root included
    MaxDepth    \* bound: nested calls and with-blocks in one context

VARIABLES
    base,          \* base[k]: the values context k began with, or None
    current_trace, \* the context variables, in each context
    current_span,
    stack,         \* stack[k]: the calls and with-blocks that are open in k:
                   \* [call, span, prev], prev what the tokens restore
    spans,         \* spans[c]: Trace.spans, the root first
    sent           \* sent[c]: the payloads posted for c

vars == <<base, current_trace, current_span, stack, spans, sent>>

Contexts == {Main} \union Others

(* A span is named by its trace and its position there; a span opened      *)
(* outside every trace is recorded nowhere.                                *)
Ref(c, n) == [trace |-> c, n |-> n]
NoSpan == Ref(None, 0)
Orphan == Ref(None, 1)
Refs == [trace : Calls \union {None}, n : 0 .. MaxSpans]

Values(c, s) == [trace |-> c, span |-> s]
Now(k) == Values(current_trace[k], current_span[k])
Empty == Values(None, NoSpan)

Span(parent, by) == [parent |-> parent, by |-> by, ended |-> FALSE]

Init ==
    /\ base = [k \in Contexts |-> IF k = Main THEN Empty ELSE None]
    /\ current_trace = [k \in Contexts |-> None]
    /\ current_span = [k \in Contexts |-> NoSpan]
    /\ stack = [k \in Contexts |-> <<>>]
    /\ spans = [c \in Calls |-> <<>>]
    /\ sent = [c \in Calls |-> <<>>]

(* Another thread or task starts, with the given values.                   *)
Start(k, values) ==
    /\ base[k] = None
    /\ base' = [base EXCEPT ![k] = values]
    /\ current_trace' = [current_trace EXCEPT ![k] = values.trace]
    /\ current_span' = [current_span EXCEPT ![k] = values.span]
    /\ UNCHANGED <<stack, spans, sent>>
StartThread(k) == Start(k, Empty)
StartTask(j, k) == base[j] # None /\ Start(k, Now(j))

Push(k, c, s) ==
    stack' = [stack EXCEPT ![k] = Append(@, [call |-> c, span |-> s, prev |-> Now(k)])]

(* The wrapper is entered: a trace with its root.                          *)
Call(k, c) ==
    /\ base[k] # None /\ Len(stack[k]) < MaxDepth /\ spans[c] = <<>>
    /\ spans' = [spans EXCEPT ![c] = <<Span(NoSpan, c)>>]
    /\ current_trace' = [current_trace EXCEPT ![k] = c]
    /\ current_span' = [current_span EXCEPT ![k] = Ref(c, 1)]
    /\ Push(k, c, Ref(c, 1))
    /\ UNCHANGED <<base, sent>>

RestoreTrace(k) == [current_trace EXCEPT ![k] = Last(stack[k]).prev.trace]
BugKeepSpan(k) == current_span  \* mutant: the token is not used
RestoreSpan(k) == [current_span EXCEPT ![k] = Last(stack[k]).prev.span]

(* The wrapper is left, by a return or an Exception (the root ends) or by  *)
(* another BaseException (it does not): the trace is posted.               *)
Leave(k) ==
    /\ stack[k] # <<>> /\ Last(stack[k]).call # None
    /\ LET c == Last(stack[k]).call IN
        /\ \/ spans' = [spans EXCEPT ![c][1].ended = TRUE]
           \/ UNCHANGED spans
        /\ sent' = [sent EXCEPT ![c] = Append(@, spans'[c])]
    /\ current_trace' = RestoreTrace(k)
    /\ current_span' = RestoreSpan(k)
    /\ stack' = [stack EXCEPT ![k] = Front(@)]
    /\ UNCHANGED base

(* The call whose code runs in k: the innermost one that is open there, or *)
(* else the one k was created in.                                          *)
Running(k) ==
    LET calls == {i \in DOMAIN stack[k] : stack[k][i].call # None}
    IN  IF calls = {} THEN base[k].trace ELSE stack[k][Max(calls)].call

(* span(): recorded at once, entered or not.  NewSpan is what it returns.  *)
Recorded(k) ==
    IF current_trace[k] = None THEN spans
    ELSE [spans EXCEPT ![current_trace[k]] = Append(@, Span(current_span[k], Running(k)))]
NewSpan(k) ==
    IF current_trace[k] = None THEN Orphan
    ELSE Ref(current_trace[k], Len(spans[current_trace[k]]) + 1)
MayOpen(k) ==
    /\ base[k] # None
    /\ current_trace[k] # None => Len(spans[current_trace[k]]) < MaxSpans

OpenOnly(k) ==
    /\ MayOpen(k) /\ current_trace[k] # None
    /\ spans' = Recorded(k)
    /\ UNCHANGED <<base, current_trace, current_span, stack, sent>>

(* with span(...): opened and entered.                                     *)
With(k) ==
    /\ MayOpen(k) /\ Len(stack[k]) < MaxDepth
    /\ spans' = Recorded(k)
    /\ current_span' = [current_span EXCEPT ![k] = NewSpan(k)]
    /\ Push(k, None, NewSpan(k))
    /\ UNCHANGED <<base, current_trace, sent>>

(* Span.__exit__                                                           *)
Exit(k) ==
    /\ stack[k] # <<>> /\ Last(stack[k]).call = None
    /\ LET s == Last(stack[k]).span IN
        spans' = IF s.trace = None THEN spans ELSE [spans EXCEPT ![s.trace][s.n].ended = TRUE]
    /\ current_span' = RestoreSpan(k)
    /\ stack' = [stack EXCEPT ![k] = Front(@)]
    /\ UNCHANGED <<base, current_trace, sent>>

Next ==
    \E k \in Contexts :
        \/ StartThread(k)
        \/ \E j \in Contexts : StartTask(j, k)
        \/ \E c \in Calls : Call(k, c)
        \/ Leave(k)
        \/ OpenOnly(k)
        \/ With(k)
        \/ Exit(k)

Spec == Init /\ [][Next]_vars

-----------------------------------------------------------------------------
TypeOK ==
    /\ current_trace \in [Contexts -> Calls \union {None}]
    /\ current_span \in [Contexts -> Refs]
    /\ \A k \in Contexts :
        /\ base[k] # None => base[k] \in [trace : Calls \union {None}, span : Refs]
        /\ stack[k] \in Seq([call : Calls \union {None}, span : Refs,
                             prev : [trace : Calls \union {None}, span : Refs]])
    /\ \A c \in Calls :
        /\ spans[c] \in Seq([parent : Refs, by : Calls \union {None}, ended : BOOLEAN])
        /\ Len(sent[c]) <= 1

(* A span is recorded in the trace of the call whose code opened it, or of *)
(* the call that the task opening it was created in; code in no call       *)
(* records nothing.  Other threads, other tasks and calls that returned    *)
(* have no part in it.                                                     *)
SpansStayHome ==
    /\ \A c \in Calls : \A n \in DOMAIN spans[c] : spans[c][n].by = c
    /\ \A k \in Contexts : base[k] # None => current_trace[k] = Running(k)

(* Each context is in the span it entered last and has not left, whatever  *)
(* other contexts do: so span() takes the innermost one as the parent.     *)
ParentIsInnermost ==
    \A k \in Contexts :
        base[k] # None =>
            current_span[k] = IF stack[k] = <<>> THEN base[k].span ELSE Last(stack[k]).span

(* The trees of SpanTree.  A parent in another trace would be no parent at *)
(* all: it maps to a position out of range.                                *)
TreeOf(c, ss) ==
    [n \in DOMAIN ss |-> IF ss[n].parent.trace \in {c, None} THEN ss[n].parent.n
                         ELSE MaxSpans + 1]
Trees == [c \in Calls |-> TreeOf(c, spans[c])]
SentTrees == [c \in Calls |-> [i \in DOMAIN sent[c] |-> TreeOf(c, sent[c][i])]]

=============================================================================
