--------------------------- MODULE DurableExecution ---------------------------
(***************************************************************************)
(* What a durable execution promises to whoever looks at the store: the    *)
(* stored progress only ever moves forward along the workflow, with the    *)
(* context that belongs to it, until one terminal phase ends it for good.  *)
(***************************************************************************)
EXTENDS Workflow

VARIABLES
    phase,      \* "none" before the record exists, "running", or terminal
    next,       \* the next top-level task
    input,      \* the value to feed it: the steps done so far
    context     \* the workflow context

vars == <<phase, next, input, context>>

Init == phase = "none" /\ next = 0 /\ input = <<>> /\ context = <<>>

\* The stored progress covers more steps, or the record comes to exist.
Advance ==
    /\ phase \in {"none", "running"}
    /\ phase' = "running"
    /\ IsPrefix(input, input')
    /\ PathTo(input', next')
    /\ LastExport(context', input')

\* The execution ends; a terminal record has no pointer.
Finish ==
    /\ phase \in {"none", "running"}
    /\ phase' \in Terminal
    /\ next' = 0
    /\ input' = <<>>

Next == Advance \/ Finish

Spec == Init /\ [][Next]_vars

=============================================================================
