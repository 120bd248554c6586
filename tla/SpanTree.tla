------------------------------ MODULE SpanTree ------------------------------
(***************************************************************************)
(* What the readers of a trace rely on, whichever SDK sent it: the spans   *)
(* are one tree whose root comes first and whose parents come before their *)
(* children, and the trace is sent once.  Spans may still be added to a    *)
(* trace that was sent; nobody will see them.                              *)
(***************************************************************************)
EXTENDS Naturals, Sequences

CONSTANT Traces

VARIABLES
    tree,  \* tree[t][n]: the position of the parent of the n-th span, 0: none
    sent   \* sent[t]: the trees sent for t

treeVars == <<tree, sent>>

Init == tree = [t \in Traces |-> <<>>] /\ sent = [t \in Traces |-> <<>>]

Begin(t) ==
    /\ tree[t] = <<>>
    /\ tree' = [tree EXCEPT ![t] = <<0>>]
    /\ UNCHANGED sent

Grow(t) ==
    /\ \E p \in DOMAIN tree[t] : tree' = [tree EXCEPT ![t] = Append(@, p)]
    /\ UNCHANGED sent

Send(t) ==
    /\ tree[t] # <<>> /\ sent[t] = <<>>
    /\ sent' = [sent EXCEPT ![t] = <<tree[t]>>]
    /\ UNCHANGED tree

Next == \E t \in Traces : Begin(t) \/ Grow(t) \/ Send(t)

Spec == Init /\ [][Next]_treeVars

=============================================================================
